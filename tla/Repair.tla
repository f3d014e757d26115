------------------------------- MODULE Repair -------------------------------
(***************************************************************************)
(* fill_metadata (src/src/bin/fill_metadata.rs): a program that the admin  *)
(* runs beside the server, on its database and its stores, to give         *)
(* metadata to the files that were uploaded before file_metadata existed.  *)
(* It takes every file without metadata for such a file, those that an     *)
(* upload is still writing included.                                       *)
(***************************************************************************)
EXTENDS Vrac

VARIABLE repair

\* todo holds the rows of its query that are left, file the one at hand.
RepairType ==
    [pc : {"off", "next", "insert", "done", "failed"},
     todo : SUBSET [id : RowIds, data : BlobType],
     file_id : RowIds \cup {0},
     size : Nat]

RepairTypeOK == repair \in RepairType

RepairInit ==
    repair = [pc |-> "off", todo |-> {}, file_id |-> 0,
              size |-> 0]

RepairEnds(pc) ==
    repair' = [repair EXCEPT !.pc = pc, !.todo = {}, !.file_id = 0, !.size = 0]

-----------------------------------------------------------------------------

\* Mutant: the query leaves out the files that are completed.
SelectIncomplete ==
    /\ repair.pc = "off"
    /\ repair' = [repair EXCEPT
             !.pc = "next",
             !.todo = {[id |-> f, data |-> files[f].data] :
                          f \in {g \in DOMAIN files \ DOMAIN metadata :
                                    ~files[g].completed}}]
    /\ UNCHANGED metadata

\* The files without metadata
SelectMissing ==
    /\ repair.pc = "off"
    /\ repair' = [repair EXCEPT
             !.pc = "next",
             !.todo = {[id |-> f, data |-> files[f].data] :
                          f \in DOMAIN files \ DOMAIN metadata}]
    /\ UNCHANGED metadata

\* state.get_blob and the count of its bytes, whatever is there by now.
\* Without a blob the program ends with an error.
MeasureBlob ==
    /\ repair.pc = "next"
    /\ \E file \in repair.todo :
          \/ /\ file.data \in DOMAIN blobs
             /\ \E size \in IF blobs[file.data] = {} THEN {0} ELSE Sizes :
                   repair' = [repair EXCEPT !.pc = "insert",
                                            !.todo = @ \ {file},
                                            !.file_id = file.id,
                                            !.size = size]
          \/ /\ file.data \notin DOMAIN blobs
             /\ RepairEnds("failed")
    /\ UNCHANGED metadata

\* INSERT INTO file_metadata.  It fails when the row of the file is gone
\* (foreign key) or has metadata by now (primary key), and the program ends.
InsertMetadata ==
    /\ repair.pc = "insert"
    /\ LET f == repair.file_id
           next == [repair EXCEPT !.pc = "next", !.file_id = 0, !.size = 0] IN
       \/ /\ CanFinaliseFile(f)
          /\ metadata' = Insert(metadata, f, repair.size)
          /\ repair' = next
       \/ /\ ~CanFinaliseFile(f)
          /\ RepairEnds("failed")
          /\ UNCHANGED metadata

RepairDone ==
    /\ repair.pc = "next"
    /\ repair.todo = {}
    /\ RepairEnds("done")
    /\ UNCHANGED metadata

\* It is stopped, or the store or the database answers with an error.
RepairStops ==
    /\ repair.pc \in {"next", "insert"}
    /\ RepairEnds("failed")
    /\ UNCHANGED metadata

RunRepair ==
    /\ \/ SelectMissing
       \/ MeasureBlob
       \/ InsertMetadata
       \/ RepairDone
       \/ RepairStops
    /\ UNCHANGED <<clock, tokens, files, storageVars, req, cleaner,
                   serving, crashes, aliased>>

-----------------------------------------------------------------------------
(* The state that the program is for                                       *)

\* The name of the i-th file of the first attempt of the first link
OldBlob(o, i) ==
    [backend_type |-> o.backend_type, token_id |-> 1, attempt_counter |-> 1,
     file_index |-> i]

\* What an upload of the time before file_metadata has left: its n files,
\* stored and completed
OldUpload(path, o, r, n) ==
    /\ tokens = [t \in {1} |->
          [path |-> path, valid_until |-> o.valid_for,
           content_expires_after_hours |-> o.content_expires_after_hours,
           max_size |-> o.max_size, backend_type |-> o.backend_type,
           attempt_counter |-> 1, used |-> TRUE,
           content_expires_at |-> o.content_expires_after_hours,
           published |-> 1..n, by |-> r, late |-> FALSE]]
    /\ files = [f \in 1..n |-> [data |-> OldBlob(o, f), completed |-> TRUE]]
    /\ blobs = [b \in {OldBlob(o, f) : f \in 1..n} |-> {r}]
    /\ req = [q \in Requests |-> Blank(IF q = r THEN "done" ELSE "idle")]

\* One link was used by such an upload: its files have no metadata, and its
\* page lists nothing.
LegacyInit ==
    /\ clock = 0
    /\ \E path \in Paths, o \in Options, r \in Requests, n \in 1..MaxFiles :
          n <= MaxRowId /\ OldUpload(path, o, r, n)
    /\ metadata = [f \in {} |-> {}]
    /\ open = [r \in Requests |-> NULL]
    /\ CleanupInit
    /\ serving = TRUE
    /\ crashes = 0
    /\ aliased = FALSE

\* A new deployment, or one from before file_metadata
AnyDeployment == (Init \/ LegacyInit) /\ RepairInit

RepairNext == (Next /\ UNCHANGED repair) \/ RunRepair

RepairSpec == AnyDeployment /\ [][RepairNext]_<<vars, repair>>

-----------------------------------------------------------------------------
(* Properties                                                              *)

\* The files that an upload has published and that lack metadata, so that
\* the page does not list them
Unlisted(t) == {f \in tokens[t].published : f \in DOMAIN files \ DOMAIN metadata}

\* The repair only adds to what visitors see: the page of a shown link lists
\* what its upload has published, save what still lacks metadata, and
\* nothing that the repair has touched in an unfinished upload; the blobs
\* are as they were.  Once it has ended without an error no page misses
\* anything.
RepairHeals ==
    ~aliased =>
        \A t \in DOMAIN tokens :
            IsShown(t) /\ ~tokens[t].late =>
                /\ ListedFiles(t) = tokens[t].published \ Unlisted(t)
                /\ \A f \in tokens[t].published :
                      /\ f \in DOMAIN files
                      /\ files[f].data \in DOMAIN blobs
                      /\ blobs[files[f].data] = {tokens[t].by}
                /\ repair.pc = "done" => Unlisted(t) = {}
=============================================================================
