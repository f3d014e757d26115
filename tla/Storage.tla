------------------------------ MODULE Storage ------------------------------
(***************************************************************************)
(* The two blob stores of src/src/upload.rs as their clients see them: the *)
(* directory of LocalFsUploader and the bucket of GarageUploader.  Both    *)
(* name a blob {token_id}_{attempt_counter}_{file_index}.  Of the contents *)
(* of a blob we keep which requests' bytes it holds.                       *)
(*                                                                         *)
(* A local blob is in the directory as soon as it is opened, and a writer  *)
(* whose directory entry is removed goes on writing to an unlinked file    *)
(* without an error.  An object of the bucket appears when its PUT ends,   *)
(* whatever was deleted under its key before.                              *)
(***************************************************************************)
EXTENDS VracDB

VARIABLES
    blobs,        \* name -> the requests whose bytes may be in the blob
    open          \* the name each request's writer has; NULL if it has none,
                  \* its file is unlinked or its PUT has ended

storageVars == <<blobs, open>>

StorageTypeOK ==
    /\ DOMAIN blobs \subseteq BlobType
    /\ blobs \in [DOMAIN blobs -> SUBSET Requests]
    /\ open \in [Requests -> BlobType \cup {NULL}]

StorageInit ==
    /\ blobs = [b \in {} |-> {}]
    /\ open = [r \in Requests |-> NULL]

IsLocal(b) == b.backend_type = "local_fs"

-----------------------------------------------------------------------------

\* StorageBackend::initiate_upload.  The local file is opened with create
\* and write but not truncate: what it already holds stays.  Garage only
\* builds a request, which nothing sends yet.
OpenBlob(r, b) ==
    /\ open' = [open EXCEPT ![r] = b]
    /\ IF IsLocal(b) /\ b \notin DOMAIN blobs
       THEN blobs' = Insert(blobs, b, {})
       ELSE UNCHANGED blobs

\* The PUT of the request ends: the object is there, and the writer has no
\* more to do with it.
PutEnds(r) ==
    /\ open' = [open EXCEPT ![r] = NULL]
    /\ blobs' = Insert(blobs, open[r], {r})

\* copy_buf has moved a non-empty field into the writer and flushed it.  For
\* the bucket that closes the body of the PUT, which may end at once, in the
\* connection's own task, or only when finalize_upload waits for it.
WriteBlob(r) ==
    \/ /\ open[r] # NULL /\ IsLocal(open[r])
       /\ blobs' = [blobs EXCEPT ![open[r]] = @ \cup {r}]
       /\ UNCHANGED open
    \/ /\ open[r] # NULL /\ ~IsLocal(open[r])
       /\ PutEnds(r) \/ UNCHANGED storageVars
    \/ open[r] = NULL /\ UNCHANGED storageVars

\* finalize_upload: fsync for a local file, the end of the PUT for garage if
\* it has not ended yet.  The writer is consumed.
FinalizeBlob(r) ==
    IF open[r] # NULL /\ ~IsLocal(open[r])
    THEN PutEnds(r)
    ELSE open' = [open EXCEPT ![r] = NULL] /\ UNCHANGED blobs

\* delete_blob, for both stores: a missing blob is not an error.  The
\* writers of a local blob lose its name.
DeleteBlob(b) ==
    /\ blobs' = Delete(blobs, {b})
    /\ open' = [r \in Requests |->
                   IF IsLocal(b) /\ open[r] = b THEN NULL ELSE open[r]]

\* The writers of `rs` are dropped.  Once bytes were written (`sent`) to a
\* GarageWriteBlob its drop closes the body of the PUT and cancels it, in
\* that order, so the store may take what it got for the whole object.
DropWriters(rs, sent) ==
    /\ open' = [r \in Requests |-> IF r \in rs THEN NULL ELSE open[r]]
    /\ \E put \in SUBSET {r \in rs \cap sent :
                             open[r] # NULL /\ ~IsLocal(open[r])} :
          blobs' = [b \in DOMAIN blobs \cup {open[r] : r \in put} |->
                       IF \E r \in put : open[r] = b
                       THEN {r \in put : open[r] = b}
                       ELSE blobs[b]]
=============================================================================
