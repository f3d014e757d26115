---------------------------- MODULE RepairProofs ----------------------------
(***************************************************************************)
(* fill_metadata beside the server, for any number of requests and rows.   *)
(* It writes nothing but metadata, of which the invariants of PublishProofs *)
(* say nothing: so they hold beside it, too, and what a page lists is what *)
(* its upload has published, save what lacks metadata.  The program has    *)
(* every such file in its list or at hand, until it ends.                  *)
(***************************************************************************)
EXTENDS PublishProofs, Repair

\* The program is still to come to this row.
Ahead(f) ==
    \/ \E file \in repair.todo : file.id = f
    \/ repair.pc = "insert" /\ repair.file_id = f

\* A completed file without metadata is one of before the program's query, or
\* one that it has not come to yet.
Covered ==
    \A f \in DOMAIN files \ DOMAIN metadata :
        files[f].completed => repair.pc \in {"off", "failed"} \/ Ahead(f)

RepairInv ==
    /\ RepairTypeOK
    /\ repair.pc = "done" => repair.todo = {}
    /\ Covered

\* What holds of the server whatever metadata there is
FilesInv == TypeInv /\ AttemptInv /\ NameInv /\ RowInv /\ PublishInv

-----------------------------------------------------------------------------
(* The old deployment                                                      *)

\* What the proofs need of it
OldPage(r) ==
    /\ DOMAIN tokens = {1} /\ DOMAIN metadata = {}
    /\ tokens[1].used /\ ~tokens[1].late
    /\ tokens[1].attempt_counter = 1
    /\ tokens[1].published = DOMAIN files /\ tokens[1].by = r
    /\ DOMAIN blobs = {files[f].data : f \in DOMAIN files}
    /\ \A f \in DOMAIN files :
          /\ files[f].completed
          /\ files[f].data.token_id = 1 /\ files[f].data.attempt_counter = 1
          /\ blobs[files[f].data] = {r}
    /\ \A f, g \in DOMAIN files : files[f].data = files[g].data => f = g
    /\ \A q \in Requests : req[q].pc \in {"idle", "done"} /\ req[q].stored = {}
    /\ \A q \in Requests : open[q] = NULL
    /\ cleaner.sel = {} /\ cleaner.todo = {}

\* The link and the files of before file_metadata
LEMMA OldState ==
    ASSUME LegacyInit
    PROVE  \E r \in Requests : OldPage(r)
<1>1. PICK path \in Paths, o \in Options, r \in Requests, n \in 1..MaxFiles :
          OldUpload(path, o, r, n)
    BY DEF LegacyInit
<1>2. /\ DOMAIN tokens = {1}
      /\ tokens[1].used /\ ~tokens[1].late
      /\ tokens[1].attempt_counter = 1
      /\ tokens[1].published = 1..n /\ tokens[1].by = r
    BY <1>1 DEF OldUpload
<1>3. /\ DOMAIN files = 1..n
      /\ \A f \in 1..n : files[f].completed /\ files[f].data = OldBlob(o, f)
      /\ DOMAIN blobs = {OldBlob(o, f) : f \in 1..n}
      /\ \A f \in 1..n : blobs[OldBlob(o, f)] = {r}
    BY <1>1 DEF OldUpload
<1>4. \A f \in 1..n :
          /\ OldBlob(o, f).token_id = 1
          /\ OldBlob(o, f).attempt_counter = 1
          /\ OldBlob(o, f).file_index = f
    BY DEF OldBlob
<1>5. /\ DOMAIN blobs = {files[f].data : f \in DOMAIN files}
      /\ \A f, g \in DOMAIN files : files[f].data = files[g].data => f = g
  <2>1. DOMAIN blobs = {files[f].data : f \in DOMAIN files}
      BY <1>3, Zenon
  <2>2. ASSUME NEW f \in DOMAIN files, NEW g \in DOMAIN files,
               files[f].data = files[g].data
        PROVE  f = g
    <3>1. f \in 1..n /\ g \in 1..n
        BY <1>3
    <3>2. OldBlob(o, f) = OldBlob(o, g)
        BY <1>3, <2>2, <3>1
    <3>3. QED
        BY <1>4, <3>1, <3>2
  <2>3. QED
      BY <2>1, <2>2
<1>6. \A q \in Requests : req[q].pc \in {"idle", "done"} /\ req[q].stored = {}
    BY <1>1 DEF OldUpload, Blank
<1>7. /\ DOMAIN metadata = {}
      /\ \A q \in Requests : open[q] = NULL
      /\ cleaner.sel = {} /\ cleaner.todo = {}
    BY DEF LegacyInit, CleanupInit, Asleep
<1>8. ASSUME NEW f \in DOMAIN files
      PROVE  /\ files[f].completed
             /\ files[f].data.token_id = 1 /\ files[f].data.attempt_counter = 1
             /\ blobs[files[f].data] = {r}
  <2>1. f \in 1..n
      BY <1>3
  <2>2. files[f].completed /\ files[f].data = OldBlob(o, f)
      BY <1>3, <2>1
  <2>3. QED
      BY <1>3, <1>4, <2>1, <2>2
<1>9. QED
    BY <1>2, <1>3, <1>5, <1>6, <1>7, <1>8 DEF OldPage

\* It is one that the server could be in.
LEMMA OldTypes == LegacyInit => TypeInv
<1> SUFFICES ASSUME LegacyInit PROVE TypeInv
    OBVIOUS
<1>1. PICK path \in Paths, o \in Options, r \in Requests, n \in 1..MaxFiles :
          n <= MaxRowId /\ OldUpload(path, o, r, n)
    BY DEF LegacyInit
<1>2. /\ MaxFiles \in Nat /\ MaxRowId \in Nat
      /\ 1..n \subseteq RowIds /\ 1..n \subseteq 1..MaxFiles /\ 1 \in RowIds
    BY <1>1, ConstantsOK DEF RowIds
<1>3. /\ o.valid_for \in Nat
      /\ o.content_expires_after_hours \in Nat \cup {NULL}
      /\ o.max_size \in Nat \cup {NULL}
      /\ o.backend_type \in Backends
    BY ConstantsOK DEF OptionType
<1>4. \A f \in 1..n : OldBlob(o, f) \in BlobType
    BY <1>2, <1>3 DEF OldBlob, BlobType
<1>5. tokens \in [{1} -> TokenType]
    BY <1>1, <1>2, <1>3 DEF OldUpload, TokenType
<1>6. files \in [1..n -> FileType]
    BY <1>1, <1>4 DEF OldUpload, FileType
<1>7. TablesOK
    BY <1>2, <1>5, <1>6 DEF LegacyInit, TablesOK
<1>8. StorageTypeOK
    BY <1>1, <1>4 DEF OldUpload, LegacyInit, StorageTypeOK
<1>9. LocalsSet
    BY <1>1, BlankIsGood DEF OldUpload, LocalsSet
<1>10. CleanupTypeOK
    BY DEF LegacyInit, CleanupInit, CleanupTypeOK, Asleep, CleanerType
<1>11. clock \in Nat /\ crashes \in 0..MaxCrashes
  <2>1. clock = 0 /\ crashes = 0
      BY DEF LegacyInit
  <2>2. QED
      BY <2>1, MaxCrashesOK
<1>12. serving \in BOOLEAN /\ aliased \in BOOLEAN
    BY Zenon DEF LegacyInit
<1>13. UploadTypeOK
    BY <1>9 DEF LocalsSet, GoodRequest, UploadTypeOK
<1>14. QED
    BY <1>7, <1>8, <1>9, <1>10, <1>11, <1>12, <1>13 DEF TypeInv, TypeOK, DBTypeOK

\* No request is at work there, and the page of its link would show its files.
LEMMA OldFiles == LegacyInit => FilesInv
<1> SUFFICES ASSUME LegacyInit PROVE FilesInv
    OBVIOUS
<1>1. PICK r \in Requests : OldPage(r)
    BY OldState
<1> USE <1>1 DEF OldPage
<1>2. \A q \in Requests : ~Attempting(q)
    BY <1>1 DEF Attempting
<1>3. AttemptInv
    BY <1>2 DEF AttemptInv, AttemptsBelowCounter, AttemptsDistinct, UsedAttemptOver
<1>4. NameInv
  <2>1. Names = {files[f].data : f \in DOMAIN files}
      BY <1>1 DEF Names
  <2>2. NamesBelowCounter /\ NamesBehind
      BY <1>1, <1>2, <2>1 DEF NamesBelowCounter, NamesBehind, OwnName
  <2>3. WritersOwn /\ FilesHaveTokens
      BY <1>1 DEF WritersOwn, FilesHaveTokens
  <2>4. QED
      BY <2>2, <2>3 DEF NameInv
<1>5. RowInv
  <2>1. Deleted = {}
      BY <1>1 DEF Deleted
  <2>2. QED
      BY <1>1, <2>1 DEF RowInv, RequestsMatch, Recorded, SelectionMatches, DeletedGone
<1>6. PublishInv
  <2>1. UnusedUndated /\ TodoSelected /\ NothingStoredYet /\ SelectionDoomed
      BY <1>1 DEF UnusedUndated, TodoSelected, NothingStoredYet, SelectionDoomed
  <2>2. HeldIntact
      BY <1>2 DEF HeldIntact, Held
  <2>3. RowsOf(1, 1) = DOMAIN files
      BY <1>1 DEF RowsOf
  <2>4. RowsIntact(1)
      BY <1>1, <2>3 DEF RowsIntact, Holds
  <2>5. ShownStored
      BY <1>1, <2>4 DEF ShownStored
  <2>6. QED
      BY <2>1, <2>2, <2>5 DEF PublishInv
<1>7. QED
    BY <1>3, <1>4, <1>5, <1>6, OldTypes DEF FilesInv

-----------------------------------------------------------------------------
(* The steps                                                               *)

\* The program keeps its own types, and those of the metadata.
LEMMA RepairTypes ==
    ASSUME TypeInv, RepairTypeOK, RunRepair
    PROVE  TypeInv' /\ RepairTypeOK'
<1>1. /\ DOMAIN files \subseteq RowIds /\ files \in [DOMAIN files -> FileType]
      /\ DOMAIN metadata \subseteq RowIds /\ metadata \in [DOMAIN metadata -> Nat]
      /\ Sizes \subseteq Nat
    BY ConstantsOK DEF TypeInv, TypeOK, DBTypeOK, TablesOK
<1>2. ASSUME NEW pc \in {"done", "failed"}, RepairEnds(pc) PROVE RepairTypeOK'
  <2>1. repair' = [repair EXCEPT !.pc = pc, !.todo = {}, !.file_id = 0, !.size = 0]
      BY <1>2 DEF RepairEnds
  <2>2. QED
      BY <2>1 DEF RepairTypeOK, RepairType
<1>3. ASSUME DOMAIN metadata' \subseteq RowIds, metadata' \in [DOMAIN metadata' -> Nat]
      PROVE  TypeInv'
    BY <1>3 DEF RunRepair, storageVars, TypeInv, TypeOK, DBTypeOK, TablesOK, StorageTypeOK,
                UploadTypeOK, CleanupTypeOK, LocalsSet
<1>4. UNCHANGED metadata => TypeInv'
    BY <1>1, <1>3
<1>5. CASE SelectMissing
  <2>1. {[id |-> f, data |-> files[f].data] : f \in DOMAIN files \ DOMAIN metadata}
            \in SUBSET [id : RowIds, data : BlobType]
      BY <1>1 DEF FileType
  <2>2. RepairTypeOK'
      BY <1>5, <2>1 DEF SelectMissing, RepairTypeOK, RepairType
  <2>3. QED
      BY <1>4, <1>5, <2>2 DEF SelectMissing
<1>6. CASE MeasureBlob
  <2>1. PICK file \in repair.todo :
            \/ \E size \in IF blobs[file.data] = {} THEN {0} ELSE Sizes :
                  repair' = [repair EXCEPT !.pc = "insert", !.todo = @ \ {file},
                                           !.file_id = file.id, !.size = size]
            \/ RepairEnds("failed")
      BY <1>6 DEF MeasureBlob
  <2>2. ASSUME NEW size \in Nat,
               repair' = [repair EXCEPT !.pc = "insert", !.todo = @ \ {file},
                                        !.file_id = file.id, !.size = size]
        PROVE  RepairTypeOK'
      BY <2>2 DEF RepairTypeOK, RepairType
  <2>3. RepairTypeOK'
      BY <1>1, <1>2, <2>1, <2>2
  <2>4. QED
      BY <1>4, <1>6, <2>3 DEF MeasureBlob
<1>7. CASE InsertMetadata
  <2>1. CASE CanFinaliseFile(repair.file_id) /\ metadata' = Insert(metadata, repair.file_id, repair.size)
    <3>1. repair.file_id \in RowIds /\ repair.size \in Nat
        BY <1>1, <2>1 DEF CanFinaliseFile, RepairTypeOK, RepairType
    <3>2. DOMAIN metadata' \subseteq RowIds /\ metadata' \in [DOMAIN metadata' -> Nat]
        BY <1>1, <2>1, <3>1, InsertTable DEF IsTable
    <3>3. repair' = [repair EXCEPT !.pc = "next", !.file_id = 0, !.size = 0]
        BY <1>7, <2>1 DEF InsertMetadata
    <3>4. RepairTypeOK'
        BY <3>3 DEF RepairTypeOK, RepairType
    <3>5. QED
        BY <1>3, <3>2, <3>4
  <2>2. CASE RepairEnds("failed") /\ UNCHANGED metadata
      BY <1>2, <1>4, <2>2
  <2>3. QED
      BY <1>7, <2>1, <2>2 DEF InsertMetadata
<1>8. CASE RepairDone \/ RepairStops
    BY <1>2, <1>4, <1>8 DEF RepairDone, RepairStops
<1>9. QED
    BY <1>5, <1>6, <1>7, <1>8 DEF RunRepair

\* It leaves everything but the metadata alone.
LEMMA RepairKeepsFiles ==
    ASSUME FilesInv, RepairTypeOK, RunRepair
    PROVE  FilesInv'
<1>1. UNCHANGED <<clock, tokens, files, blobs, open, req, cleaner, aliased>>
    BY DEF RunRepair, storageVars
<1>2. TypeInv'
    BY RepairTypes DEF FilesInv
<1>3. AttemptInv => AttemptInv'
    BY <1>1 DEF AttemptInv, AttemptsBelowCounter, AttemptsDistinct, UsedAttemptOver, Attempting
<1>4. NameInv => NameInv'
  <2>1. Names' = Names
      BY <1>1 DEF Names
  <2>2. WritersOwn /\ FilesHaveTokens => (WritersOwn /\ FilesHaveTokens)'
      BY <1>1 DEF WritersOwn, FilesHaveTokens, BlobOf
  <2>3. NamesBelowCounter /\ NamesBehind => (NamesBelowCounter /\ NamesBehind)'
      BY <1>1, <2>1 DEF NamesBelowCounter, NamesBehind, OwnName, Attempting
  <2>4. QED
      BY <1>1, <2>2, <2>3 DEF NameInv
<1>5. RowInv => RowInv'
  <2>1. Deleted' = Deleted
      BY <1>1 DEF Deleted, BlobOf
  <2>2. RequestsMatch /\ SelectionMatches => (RequestsMatch /\ SelectionMatches)'
      BY <1>1 DEF RequestsMatch, SelectionMatches, Recorded, BlobOf
  <2>3. DeletedGone => DeletedGone'
      BY <1>1, <2>1 DEF DeletedGone, Vanished
  <2>4. QED
      BY <1>1, <2>2, <2>3 DEF RowInv
<1>6. PublishInv => PublishInv'
  <2>1. UnusedUndated /\ TodoSelected /\ NothingStoredYet
            => (UnusedUndated /\ TodoSelected /\ NothingStoredYet)'
      BY <1>1 DEF UnusedUndated, TodoSelected, NothingStoredYet, Attempting
  <2>2. SelectionDoomed => SelectionDoomed'
      BY <1>1 DEF SelectionDoomed, Lost
  <2>3. HeldIntact => HeldIntact'
      BY <1>1 DEF HeldIntact, Held, Attempting, StoredIntact, FieldIntact, RowsOf, AtHand,
                  Recorded, Holds, BlobOf
  <2>4. ShownStored => ShownStored'
      BY <1>1 DEF ShownStored, RowsIntact, IsShown, RowsOf, Holds
  <2>5. QED
      BY <1>1, <2>1, <2>2, <2>3, <2>4 DEF PublishInv
<1>7. QED
    BY <1>2, <1>3, <1>4, <1>5, <1>6 DEF FilesInv

\* An upload completes a file in the transaction that gives it metadata.
LEMMA NoNewMissing ==
    ASSUME TypeInv, [Next]_vars, NEW f \in DOMAIN files' \ DOMAIN metadata',
           files'[f].completed
    PROVE  f \in DOMAIN files \ DOMAIN metadata /\ files[f].completed
<1>1. files \in [DOMAIN files -> FileType]
    BY DEF TypeInv, TypeOK, DBTypeOK, TablesOK
<1>2. CASE UNCHANGED <<files, metadata>>
    BY <1>2
<1>3. ASSUME NEW g \in RowIds, NEW data, CreateFile(g, data)
      PROVE  f \in DOMAIN files \ DOMAIN metadata /\ files[f].completed
    BY <1>3 DEF CreateFile, Insert
<1>4. ASSUME NEW g, NEW size, FinaliseFileUpload(g, size)
      PROVE  f \in DOMAIN files \ DOMAIN metadata /\ files[f].completed
    BY <1>1, <1>4 DEF FinaliseFileUpload, CanFinaliseFile, Insert, FileType
<1>5. ASSUME NEW ids, DeleteFiles(ids)
      PROVE  f \in DOMAIN files \ DOMAIN metadata /\ files[f].completed
    BY <1>5 DEF DeleteFiles, Delete, Restrict
<1>6. QED
    BY <1>2, <1>3, <1>4, <1>5, StepIsStatement DEF FileStatement

\* The program passes over no file.
LEMMA RepairCovers ==
    ASSUME TypeInv, RepairInv, RunRepair
    PROVE  (repair.pc = "done" => repair.todo = {})' /\ Covered'
<1>1. repair \in RepairType
    BY DEF RepairInv, RepairTypeOK
<1>2. UNCHANGED files
    BY DEF RunRepair
<1>3. RepairEnds("failed") => repair'.pc = "failed"
    BY <1>1 DEF RepairEnds, RepairType
<1>4. RepairEnds("failed") => (repair.pc = "done" => repair.todo = {})' /\ Covered'
    BY <1>3 DEF Covered
<1>5. CASE SelectMissing
  <2>1. /\ repair'.pc = "next"
        /\ repair'.todo = {[id |-> f, data |-> files[f].data] :
                              f \in DOMAIN files \ DOMAIN metadata}
        /\ UNCHANGED metadata
      BY <1>1, <1>5 DEF SelectMissing, RepairType
  <2>2. ASSUME NEW f \in DOMAIN files \ DOMAIN metadata
        PROVE  \E file \in repair'.todo : file.id = f
    <3>1. [id |-> f, data |-> files[f].data] \in repair'.todo
        BY <2>1
    <3>2. QED
        BY <3>1
  <2>3. QED
      BY <1>2, <2>1, <2>2 DEF Covered, Ahead
<1>6. CASE MeasureBlob
  <2>1. PICK file \in repair.todo :
            \/ \E size :
                  repair' = [repair EXCEPT !.pc = "insert", !.todo = @ \ {file},
                                           !.file_id = file.id, !.size = size]
            \/ RepairEnds("failed")
      BY <1>6 DEF MeasureBlob
  <2>2. CASE RepairEnds("failed")
      BY <1>4, <2>2
  <2>3. CASE ~RepairEnds("failed")
    <3>1. /\ repair'.pc = "insert"
          /\ repair'.todo = repair.todo \ {file}
          /\ repair'.file_id = file.id
        BY <1>1, <2>1, <2>3 DEF RepairType
    <3>2. repair.pc = "next" /\ UNCHANGED metadata
        BY <1>6 DEF MeasureBlob
    <3>3. QED
        BY <1>2, <3>1, <3>2 DEF RepairInv, Covered, Ahead
  <2>4. QED
      BY <2>2, <2>3
<1>7. CASE InsertMetadata
  <2>1. CASE RepairEnds("failed")
      BY <1>4, <2>1
  <2>2. CASE ~RepairEnds("failed")
    <3>1. /\ metadata' = Insert(metadata, repair.file_id, repair.size)
          /\ repair' = [repair EXCEPT !.pc = "next", !.file_id = 0, !.size = 0]
          /\ repair.pc = "insert"
        BY <1>7, <2>2 DEF InsertMetadata
    <3>2. repair'.pc = "next" /\ repair'.todo = repair.todo
        BY <1>1, <3>1 DEF RepairType
    <3>3. DOMAIN metadata' = DOMAIN metadata \cup {repair.file_id}
        BY <3>1 DEF Insert
    <3>4. QED
        BY <1>2, <3>1, <3>2, <3>3 DEF RepairInv, Covered, Ahead
  <2>3. QED
      BY <2>1, <2>2
<1>8. CASE RepairDone
  <2>1. repair'.pc = "done" /\ repair'.todo = {}
      BY <1>1, <1>8 DEF RepairDone, RepairEnds, RepairType
  <2>2. \A f : ~Ahead(f)
      BY <1>8 DEF RepairDone, Ahead
  <2>3. UNCHANGED metadata /\ repair.pc = "next"
      BY <1>8 DEF RepairDone
  <2>4. QED
      BY <1>2, <2>1, <2>2, <2>3 DEF RepairInv, Covered
<1>9. CASE RepairStops
    BY <1>4, <1>9 DEF RepairStops
<1>10. QED
    BY <1>5, <1>6, <1>7, <1>8, <1>9 DEF RunRepair

\* Every step of the server or of the program keeps all of it.
LEMMA RepairInvStep ==
    FilesInv /\ RepairInv /\ [RepairNext]_<<vars, repair>> => (FilesInv /\ RepairInv)'
<1> SUFFICES ASSUME FilesInv, RepairInv, [RepairNext]_<<vars, repair>>
             PROVE  FilesInv' /\ RepairInv'
    OBVIOUS
<1>1. TypeInv
    BY DEF FilesInv
<1>2. CASE [Next]_vars /\ UNCHANGED repair
  <2>1. FilesInv'
      BY <1>2, TypeNext, AttemptStep, NameStep, RowStep, PublishStep DEF FilesInv
  <2>2. Covered'
      BY <1>1, <1>2, NoNewMissing DEF RepairInv, Covered, Ahead
  <2>3. QED
      BY <1>2, <2>1, <2>2 DEF RepairInv, RepairTypeOK
<1>3. CASE RunRepair
    BY <1>1, <1>3, RepairTypes, RepairKeepsFiles, RepairCovers DEF RepairInv
<1>4. QED
    BY <1>2, <1>3 DEF RepairNext

\* Whatever lacks metadata is all that a page lacks.
LEMMA PagesHeal ==
    ASSUME FilesInv, RepairInv
    PROVE  RepairHeals
<1> SUFFICES ASSUME ~aliased, NEW t \in DOMAIN tokens, IsShown(t), ~tokens[t].late
             PROVE  /\ ListedFiles(t) = tokens[t].published \ Unlisted(t)
                    /\ \A f \in tokens[t].published :
                          /\ f \in DOMAIN files
                          /\ files[f].data \in DOMAIN blobs
                          /\ blobs[files[f].data] = {tokens[t].by}
                    /\ repair.pc = "done" => Unlisted(t) = {}
    BY DEF RepairHeals
<1>1. RowsOf(t, tokens[t].attempt_counter) = tokens[t].published
    BY DEF FilesInv, PublishInv, ShownStored, RowsIntact
<1>2. \A f \in tokens[t].published :
          f \in DOMAIN files /\ files[f].completed /\ Holds(files[f].data, tokens[t].by)
    BY <1>1 DEF FilesInv, PublishInv, ShownStored, RowsIntact, RowsOf
<1>3. ListedFiles(t) = tokens[t].published \ Unlisted(t)
    BY <1>1 DEF ListedFiles, RowsOf, Unlisted
<1>4. repair.pc = "done" => Unlisted(t) = {}
    BY <1>2 DEF Unlisted, RepairInv, Covered, Ahead
<1>5. QED
    BY <1>2, <1>3, <1>4 DEF Holds

\* fill_metadata, run beside a server of any age while uploads, the cleanup
\* and crashes go on, takes nothing from the pages and adds to them only what
\* their uploads have published; once it has ended without an error no page
\* that is to be shown lacks a file.
THEOREM RepairHolds == RepairSpec => []RepairHeals
<1>1. RepairInit => RepairTypeOK /\ repair.pc = "off" /\ repair.todo = {}
    BY DEF RepairInit, RepairTypeOK, RepairType
<1>2. Init => FilesInv
    BY TypeInit, AttemptInit, NameInit, PublishInit DEF FilesInv
<1>3. AnyDeployment => FilesInv /\ RepairInv
    BY <1>1, <1>2, OldFiles DEF AnyDeployment, RepairInv, Covered
<1>4. QED
    BY <1>3, RepairInvStep, PagesHeal, PTL DEF RepairSpec
=============================================================================
