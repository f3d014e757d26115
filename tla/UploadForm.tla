---------------------------- MODULE UploadForm ----------------------------
(***************************************************************************)
(* post_upload_form (src/src/handlers/upload.rs): one request uploads the  *)
(* files of one multipart body to the token at its path.  The handler runs *)
(* concurrently with itself and with the cleanup task; every await between *)
(* two of its effects is a place where the others may step in, so every    *)
(* database call and every call to the blob store is an action.            *)
(*                                                                         *)
(*   idle -> valid -> fields -> opened -> copying -> copied -> stored      *)
(*                      ^                    |                   |         *)
(*                      |                    +-> empty -> emptied|         *)
(*                      +------------------------------<---------+         *)
(*   fields -> mark -> done                                                *)
(*                                                                         *)
(* A pc names what the handler has just done.  Any `?` on the way ends in  *)
(* done.                                                                   *)
(***************************************************************************)
EXTENDS Storage

VARIABLE req      \* what each request has in its local variables

(***************************************************************************)
(* stored is history: the rows whose finalise_file_upload this request has *)
(* committed.                                                              *)
(***************************************************************************)
RequestType ==
    [pc : {"idle", "valid", "fields", "opened", "copying", "copied", "stored",
           "empty", "emptied", "mark", "done"},
     token_id : RowIds \cup {0},
     attempt_counter : Nat,
     backend_type : Backends \cup {NULL},
     file_index : 0..MaxFiles,
     file_id : RowIds \cup {0},
     size : Nat,
     total : Nat,
     expires_at : Nat \cup {NULL},
     stored : SUBSET RowIds]

Blank(pc) ==
    [pc |-> pc, token_id |-> 0, attempt_counter |-> 0, backend_type |-> NULL,
     file_index |-> 0, file_id |-> 0, size |-> 0, total |-> 0,
     expires_at |-> NULL, stored |-> {}]

UploadTypeOK == req \in [Requests -> RequestType]

UploadInit == req = [r \in Requests |-> Blank("idle")]

Active(r) == req[r].pc \notin {"idle", "done"}

Goto(r, pc) == req' = [req EXCEPT ![r].pc = pc]

\* The handler returns, with an answer or an error: its locals are gone.
Return(r) == req' = [req EXCEPT ![r] = Blank("done")]

\* init_file: what the store makes the blob's name of
BlobOf(r) ==
    [backend_type |-> req[r].backend_type,
     token_id |-> req[r].token_id,
     attempt_counter |-> req[r].attempt_counter,
     file_index |-> req[r].file_index]

-----------------------------------------------------------------------------

\* db.get_valid_token.  Only a fresh token goes on; the backend is the one
\* of the row read here.
LookUpTokenAt(r, path) ==
    /\ req[r].pc = "idle"
    /\ \/ \E t \in Matching(path) :
             /\ IsFresh(path, t)
             /\ req' = [req EXCEPT ![r].pc = "valid",
                                   ![r].token_id = t,
                                   ![r].backend_type = tokens[t].backend_type]
       \/ /\ ~\E t \in Matching(path) : IsFresh(path, t)
          /\ Return(r)
    /\ UNCHANGED <<dbVars, storageVars>>

\* InvalidUrlToken: the second decoding of the url's path fails.
RefusePath(r) ==
    /\ req[r].pc = "idle"
    /\ Return(r)
    /\ UNCHANGED <<dbVars, storageVars>>

\* The handler decodes the path once more than axum has.  What comes out, of
\* one url or another, may be any path, or none.
LookUpToken(r) == RefusePath(r) \/ \E path \in Paths : LookUpTokenAt(r, path)

\* db.initiate_upload: the next attempt of the token, or NoTokenFound
StartAttempt(r) ==
    /\ req[r].pc = "valid"
    /\ LET t == req[r].token_id IN
       \/ /\ InitiateUpload(t)
          /\ req' = [req EXCEPT ![r].pc = "fields",
                                ![r].attempt_counter = tokens[t].attempt_counter + 1]
       \/ /\ ~CanInitiate(t)
          /\ Return(r)
          /\ UNCHANGED dbVars
    /\ UNCHANGED storageVars

\* Mutant: the index moves on at the end of the loop body.
NextFieldFromZero(r) ==
    /\ req[r].pc = "fields"
    /\ req[r].file_index < MaxFiles
    /\ req' = [req EXCEPT ![r].pc = "opened", ![r].file_index = @ + 1]
    /\ OpenBlob(r, BlobOf(r))
    /\ UNCHANGED dbVars

\* multipart.next_field has another field, backend.initiate_upload opens
\* its blob
NextField(r) ==
    /\ req[r].pc = "fields"
    /\ req[r].file_index < MaxFiles
    /\ req' = [req EXCEPT ![r].pc = "opened", ![r].file_index = @ + 1]
    /\ OpenBlob(r, [BlobOf(r) EXCEPT !.file_index = @ + 1])
    /\ UNCHANGED dbVars

\* db.create_file, which fails when the token row is gone (foreign key)
RecordFile(r) ==
    /\ req[r].pc = "opened"
    /\ \/ \E f \in RowIds :
             /\ CreateFile(f, BlobOf(r))
             /\ req' = [req EXCEPT ![r].pc = "copying", ![r].file_id = f]
             /\ UNCHANGED storageVars
       \/ /\ req[r].token_id \notin DOMAIN tokens
          /\ Return(r)
          /\ DropWriters({r}, {})
          /\ UNCHANGED dbVars

\* futures::io::copy_buf reads the field to its end
CopyBytes(r) ==
    /\ req[r].pc = "copying"
    /\ \E size \in Sizes :
          IF size = 0
          THEN /\ Goto(r, "empty")
               /\ UNCHANGED storageVars
          ELSE /\ req' = [req EXCEPT ![r].pc = "copied",
                                     ![r].size = size,
                                     ![r].total = @ + size]
               /\ WriteBlob(r)
    /\ UNCHANGED dbVars

\* Nothing in the field: backend.delete_blob, then db.delete_files.  The
\* writer, still open, is dropped at the end of the field.
DeleteEmptyBlob(r) ==
    /\ req[r].pc = "empty"
    /\ DeleteBlob(BlobOf(r))
    /\ Goto(r, "emptied")
    /\ UNCHANGED dbVars

DeleteEmptyFile(r) ==
    /\ req[r].pc = "emptied"
    /\ DeleteFiles({req[r].file_id})
    /\ req' = [req EXCEPT ![r].pc = "fields", ![r].file_id = 0]
    /\ DropWriters({r}, {})

\* finalize_upload of the writer
StoreBlob(r) ==
    /\ req[r].pc = "copied"
    /\ FinalizeBlob(r)
    /\ Goto(r, "stored")
    /\ UNCHANGED dbVars

\* db.finalise_file_upload.  The transaction fails when the row is gone
\* (foreign key) or has its metadata already (primary key).
CompleteFile(r) ==
    /\ req[r].pc = "stored"
    /\ LET f == req[r].file_id IN
       \/ /\ FinaliseFileUpload(f, req[r].size)
          /\ req' = [req EXCEPT ![r].pc = "fields",
                                ![r].file_id = 0,
                                ![r].size = 0,
                                ![r].stored = @ \cup {f}]
       \/ /\ ~CanFinaliseFile(f)
          /\ Return(r)
          /\ UNCHANGED dbVars
    /\ UNCHANGED storageVars

\* multipart.next_field has no more.  Without a byte uploaded that is all;
\* else db.finalise_token_upload selects the token's row, which must exist,
\* and computes from it when the content expires.
EndOfBody(r) ==
    /\ req[r].pc = "fields"
    /\ LET t == req[r].token_id IN
       \/ /\ req[r].total > 0
          /\ t \in DOMAIN tokens
          /\ req' = [req EXCEPT ![r].pc = "mark",
                                ![r].expires_at = ContentExpiry(t)]
       \/ /\ req[r].total = 0 \/ t \notin DOMAIN tokens
          /\ Return(r)
    /\ UNCHANGED <<dbVars, storageVars>>

\* The UPDATE of db.finalise_token_upload, a statement of its own
MarkTokenUsed(r) ==
    /\ req[r].pc = "mark"
    /\ MarkUsed(req[r].token_id, req[r].attempt_counter, req[r].expires_at,
                req[r].stored, r)
    /\ Return(r)
    /\ UNCHANGED storageVars

\* The client goes away, the multipart body is malformed, the store or the
\* database answers with an error (SQLite's "database is locked" included):
\* the handler's future is dropped at one of its awaits.
Abort(r) ==
    /\ Active(r)
    /\ Return(r)
    /\ DropWriters({r}, {q \in Requests : req[q].pc \in {"copying", "copied"}})
    /\ UNCHANGED dbVars

UploadStep(r) ==
    \/ LookUpToken(r)
    \/ StartAttempt(r)
    \/ NextField(r)
    \/ RecordFile(r)
    \/ CopyBytes(r)
    \/ DeleteEmptyBlob(r)
    \/ DeleteEmptyFile(r)
    \/ StoreBlob(r)
    \/ CompleteFile(r)
    \/ EndOfBody(r)
    \/ MarkTokenUsed(r)
    \/ Abort(r)
=============================================================================
