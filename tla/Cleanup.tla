------------------------------ MODULE Cleanup ------------------------------
(***************************************************************************)
(* cleanup (src/src/cleanup.rs), the pass that background_cleanup runs     *)
(* every five minutes: read the doomed files, delete their blobs, delete   *)
(* their rows, delete the expired tokens.  Uploads run between any two of  *)
(* these, and the pass works from the rows and the date it read first.     *)
(***************************************************************************)
EXTENDS UploadForm

VARIABLE cleaner  \* the locals of the cleanup task

(***************************************************************************)
(* sel is what get_files_to_delete returned, the rows as they were then;   *)
(* todo is the part of it whose blob is still to be deleted.               *)
(***************************************************************************)
CleanerType ==
    [pc : {"sleep", "blobs", "tokens"},
     now : Nat,
     sel : SUBSET [id : RowIds, data : BlobType],
     todo : SUBSET [id : RowIds, data : BlobType]]

Asleep == [pc |-> "sleep", now |-> 0, sel |-> {}, todo |-> {}]

CleanupTypeOK == cleaner \in CleanerType

CleanupInit == cleaner = Asleep

\* Mutant: only the files whose upload was completed are collected.
SelectCompletedFiles ==
    /\ cleaner.pc = "sleep"
    /\ FilesToDelete(clock) # {}
    /\ LET sel == {[id |-> f, data |-> files[f].data] :
                      f \in FilesToDelete(clock) \cap DOMAIN metadata}
       IN  cleaner' = [pc |-> "blobs", now |-> clock, sel |-> sel, todo |-> sel]
    /\ UNCHANGED <<dbVars, storageVars, req>>

\* get_files_to_delete
SelectFiles ==
    /\ cleaner.pc = "sleep"
    /\ FilesToDelete(clock) # {}
    /\ LET sel == {[id |-> f, data |-> files[f].data] : f \in FilesToDelete(clock)}
       IN  cleaner' = [pc |-> "blobs", now |-> clock, sel |-> sel, todo |-> sel]
    /\ UNCHANGED <<dbVars, storageVars, req>>

\* ... which found none: the pass is over, and the expired tokens stay.
NothingToDelete ==
    /\ cleaner.pc = "sleep"
    /\ FilesToDelete(clock) = {}
    /\ UNCHANGED <<dbVars, storageVars, req, cleaner>>

\* delete_file of one of them: try_join_all runs them all at once
DeleteOneBlob ==
    /\ cleaner.pc = "blobs"
    /\ \E file \in cleaner.todo :
          /\ DeleteBlob(file.data)
          /\ cleaner' = [cleaner EXCEPT !.todo = @ \ {file}]
    /\ UNCHANGED <<dbVars, req>>

\* Mutant: the rows go without waiting for the blobs.
DeleteFileRowsEarly ==
    /\ cleaner.pc = "blobs"
    /\ DeleteFiles({file.id : file \in cleaner.sel})
    /\ cleaner' = [cleaner EXCEPT !.pc = "tokens", !.sel = {}, !.todo = {}]
    /\ UNCHANGED <<storageVars, req>>

\* db.delete_files, once every blob is gone
DeleteFileRows ==
    /\ cleaner.pc = "blobs"
    /\ cleaner.todo = {}
    /\ DeleteFiles({file.id : file \in cleaner.sel})
    /\ cleaner' = [cleaner EXCEPT !.pc = "tokens", !.sel = {}]
    /\ UNCHANGED <<storageVars, req>>

\* db.delete_expired_tokens
DeleteTokens ==
    /\ cleaner.pc = "tokens"
    /\ DeleteExpiredTokens(cleaner.now)
    /\ cleaner' = Asleep
    /\ UNCHANGED <<storageVars, req>>

CleanupStep ==
    \/ SelectFiles
    \/ NothingToDelete
    \/ DeleteOneBlob
    \/ DeleteFileRows
    \/ DeleteTokens

\* A file of an expired token has appeared since get_files_to_delete: the
\* DELETE violates a foreign key and the pass returns an error.
DeleteTokensFails ==
    /\ cleaner.pc = "tokens"
    /\ \E t \in ExpiredTokens(cleaner.now) : HasFiles(t)
=============================================================================
