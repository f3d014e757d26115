----------------------------- MODULE BlobProofs -----------------------------
(***************************************************************************)
(* Whose name each blob is, for any number of requests and rows: a writer  *)
(* has the name of its own request, no name is ahead of the counter of its *)
(* token or of the field at hand of its request, and a local blob that was *)
(* deleted does not come back.  So the row of a local file goes only after *)
(* its blob.                                                               *)
(***************************************************************************)
EXTENDS LinkProofs

\* The names of blobs that the tables, the stores and the cleanup know
Names ==
    {files[f].data : f \in DOMAIN files}
        \cup DOMAIN blobs
        \cup {file.data : file \in cleaner.sel}

\* A name that the request's attempt has made, or could have.
OwnName(r, b) ==
    /\ Attempting(r)
    /\ b.token_id = req[r].token_id
    /\ b.attempt_counter = req[r].attempt_counter

\* A writer has the name of the field that its request is at.
WritersOwn ==
    \A r \in Requests :
        open[r] # NULL =>
            /\ req[r].pc \in {"opened", "copying", "copied", "empty", "emptied"}
            /\ open[r] = BlobOf(r)

\* The foreign key of table file
FilesHaveTokens ==
    \A f \in DOMAIN files : files[f].data.token_id \in DOMAIN tokens

\* No name is ahead of the counter of its token,
NamesBelowCounter ==
    \A b \in Names :
        b.token_id \in DOMAIN tokens =>
            b.attempt_counter <= tokens[b.token_id].attempt_counter

\* ... nor of the field that its request is at.
NamesBehind ==
    \A r \in Requests, b \in Names :
        OwnName(r, b) => b.file_index <= req[r].file_index

NameInv ==
    /\ WritersOwn
    /\ FilesHaveTokens
    /\ ~aliased => NamesBelowCounter /\ NamesBehind

\* The pcs between create_file and the end of the field
Recorded(r) == req[r].pc \in {"copying", "copied", "stored", "empty", "emptied"}

\* The row at the id that a request holds is the one it has created,
RequestsMatch ==
    \A r \in Requests :
        Recorded(r) /\ req[r].file_id \in DOMAIN files =>
            files[req[r].file_id].data = BlobOf(r)

\* ... and so is the row at an id that the cleanup has selected.
SelectionMatches ==
    \A file \in cleaner.sel :
        file.id \in DOMAIN files => files[file.id].data = file.data

\* The names whose blob was deleted, and whose row is still to go
Deleted ==
    {BlobOf(r) : r \in {q \in Requests : req[q].pc = "emptied"}}
        \cup {file.data : file \in cleaner.sel \ cleaner.todo}

\* No store has the blob, and there is no writer that could make it.
Vanished(b) ==
    /\ b \notin DOMAIN blobs
    /\ \A r \in Requests : open[r] = NULL \/ open[r] # b

\* A local blob that was deleted is gone, and nobody can write it again.
DeletedGone == \A b \in Deleted : IsLocal(b) => Vanished(b)

RowInv == ~aliased => RequestsMatch /\ SelectionMatches /\ DeletedGone

-----------------------------------------------------------------------------
(* What the operations of the stores leave alone                           *)

Untouched(b) ==
    /\ b \in DOMAIN blobs' <=> b \in DOMAIN blobs
    /\ b \in DOMAIN blobs => blobs'[b] = blobs[b]

\* Opening touches no other blob.
LEMMA OpenTouches ==
    ASSUME NEW r, NEW b, OpenBlob(r, b), NEW c, c # b
    PROVE  Untouched(c)
BY DEF OpenBlob, Insert, Untouched

\* Neither does the end of a PUT,
LEMMA PutTouches ==
    ASSUME NEW r, PutEnds(r), NEW c, c # open[r]
    PROVE  Untouched(c)
BY DEF PutEnds, Insert, Untouched

\* ... nor writing,
LEMMA WriteTouches ==
    ASSUME NEW r, WriteBlob(r), NEW c, c # open[r] \/ open[r] = NULL
    PROVE  Untouched(c)
BY PutTouches DEF WriteBlob, storageVars, Untouched

\* ... nor the end of a writer,
LEMMA FinalizeTouches ==
    ASSUME NEW r, FinalizeBlob(r), NEW c, c # open[r] \/ open[r] = NULL
    PROVE  Untouched(c)
BY PutTouches DEF FinalizeBlob, Untouched

\* ... nor deletion.
LEMMA DeleteTouches ==
    ASSUME NEW b, DeleteBlob(b), NEW c, c # b
    PROVE  Untouched(c)
BY DEF DeleteBlob, Delete, Restrict, Untouched

\* Dropped writers may complete their own PUTs.
LEMMA DropTouches ==
    ASSUME NEW rs, NEW sent, DropWriters(rs, sent), NEW c,
           \A r \in rs : open[r] = NULL \/ c # open[r]
    PROVE  Untouched(c)
<1>1. PICK put \in SUBSET {r \in rs \cap sent : open[r] # NULL /\ ~IsLocal(open[r])} :
          blobs' = [b \in DOMAIN blobs \cup {open[r] : r \in put} |->
                       IF \E r \in put : open[r] = b
                       THEN {r \in put : open[r] = b}
                       ELSE blobs[b]]
    BY DEF DropWriters
<1>2. \A r \in put : open[r] # c
    BY <1>1
<1>3. QED
    BY <1>1, <1>2 DEF Untouched

-----------------------------------------------------------------------------
(* What a step does to the requests, the names and the counters            *)

\* The request takes the attempt after the last one of its token.
Takes(r) ==
    /\ ~Attempting(r)
    /\ req[r].token_id \in DOMAIN tokens
    /\ req'[r].token_id = req[r].token_id
    /\ req'[r].attempt_counter = tokens[req[r].token_id].attempt_counter + 1

\* The request goes on with its attempt, and never to an earlier field.
GoesOn(r) ==
    /\ Attempting(r)
    /\ req'[r].token_id = req[r].token_id
    /\ req'[r].attempt_counter = req[r].attempt_counter
    /\ req'[r].backend_type = req[r].backend_type
    /\ req[r].file_index <= req'[r].file_index

Advances(r) == Attempting(r)' => Takes(r) \/ GoesOn(r)

\* An upload takes an attempt or goes on with its own.
LEMMA UploadAdvances ==
    ASSUME TypeInv, NEW r \in Requests, UploadStep(r)
    PROVE  OthersKeep(r) /\ Advances(r)
<1>1. /\ req \in [Requests -> RequestType]
      /\ req[r].file_index \in Nat
    BY ConstantsOK DEF TypeInv, TypeOK, UploadTypeOK, RequestType
<1> USE DEF OthersKeep, Advances, Attempting, GoesOn
<1>2. CASE Return(r)
    BY <1>1, <1>2 DEF Return, Blank
<1>3. CASE StartAttempt(r)
    BY <1>1, <1>2, <1>3 DEF StartAttempt, InitiateUpload, CanInitiate, Takes, RequestType
<1>4. CASE LookUpToken(r)
  <2>1. ASSUME NEW t, req' = [req EXCEPT ![r].pc = "valid", ![r].token_id = t,
                                         ![r].backend_type = tokens[t].backend_type]
        PROVE  OthersKeep(r) /\ Advances(r)
    <3>1. req'[r].pc = "valid" /\ \A q \in Requests \ {r} : req'[q] = req[q]
        BY <1>1, <2>1 DEF RequestType
    <3>2. QED
        BY <3>1
  <2>2. QED
      BY <1>2, <1>4, <2>1 DEF LookUpToken, LookUpTokenAt, RefusePath
<1>5. CASE NextField(r)
    BY <1>1, <1>5 DEF NextField, RequestType
<1>6. CASE RecordFile(r)
    BY <1>1, <1>2, <1>6 DEF RecordFile, RequestType
<1>7. CASE CopyBytes(r)
    BY <1>1, <1>7 DEF CopyBytes, Goto, RequestType
<1>8. CASE DeleteEmptyBlob(r) \/ DeleteEmptyFile(r)
    BY <1>1, <1>8 DEF DeleteEmptyBlob, DeleteEmptyFile, Goto, RequestType
<1>9. CASE StoreBlob(r) \/ CompleteFile(r)
    BY <1>1, <1>2, <1>9 DEF StoreBlob, CompleteFile, Goto, RequestType
<1>10. CASE EndOfBody(r)
    BY <1>1, <1>2, <1>10 DEF EndOfBody, RequestType
<1>11. CASE MarkTokenUsed(r) \/ Abort(r)
    BY <1>2, <1>11 DEF MarkTokenUsed, Abort
<1>12. QED
    BY <1>3, <1>4, <1>5, <1>6, <1>7, <1>8, <1>9, <1>10, <1>11 DEF UploadStep

\* So does every request in a step of the server.
LEMMA RequestsAdvance ==
    ASSUME TypeInv, Next
    PROVE  \A r \in Requests : Advances(r)
<1>1. /\ req \in [Requests -> RequestType]
      /\ \A r \in Requests : req[r].file_index \in Nat
    BY ConstantsOK DEF TypeInv, TypeOK, UploadTypeOK, RequestType
<1>2. ASSUME UNCHANGED req PROVE \A r \in Requests : Advances(r)
    BY <1>1, <1>2 DEF Advances, Attempting, GoesOn
<1>3. ASSUME ProcessEnds PROVE \A r \in Requests : Advances(r)
    BY <1>1, <1>3 DEF ProcessEnds, Active, Blank, Advances, Attempting, GoesOn
<1>4. ASSUME NEW r \in Requests, UploadStep(r) PROVE \A q \in Requests : Advances(q)
  <2>1. OthersKeep(r) /\ Advances(r)
      BY <1>4, UploadAdvances
  <2>2. \A q \in Requests \ {r} : Advances(q)
      BY <1>1, <2>1 DEF OthersKeep, Advances, Attempting, GoesOn
  <2>3. QED
      BY <2>1, <2>2
<1>5. CASE Serve
    BY <1>2, <1>4, <1>5 DEF Serve, GenerateToken, HandleUpload
<1>6. CASE BackgroundCleanup
    BY <1>2, <1>3, <1>6
       DEF BackgroundCleanup, CleanupFails, CleanupStep, SelectFiles, NothingToDelete,
           DeleteOneBlob, DeleteFileRows, DeleteTokens
<1>7. CASE Tick \/ Crash \/ Restart
    BY <1>2, <1>3, <1>7 DEF Tick, Crash, Restart
<1>8. QED
    BY <1>5, <1>6, <1>7 DEF Next

\* The counter of a token never goes back.
LEMMA CountersGrow ==
    ASSUME TypeInv, Next
    PROVE  \A t \in DOMAIN tokens \cap DOMAIN tokens' :
               tokens[t].attempt_counter <= tokens'[t].attempt_counter
<1>1. /\ tokens \in [DOMAIN tokens -> TokenType]
      /\ \A t \in DOMAIN tokens : tokens[t].attempt_counter \in Nat
    BY DEF TypeInv, TypeOK, DBTypeOK, TablesOK, TokenType
<1>2. CASE Creates
    BY <1>1, <1>2, CreateKeeps DEF Creates
<1>3. CASE \E r \in Requests : Starts(r)
    BY <1>1, <1>3 DEF Starts, InitiateUpload, TokenType
<1>4. CASE \E r \in Requests : Dates(r)
    BY <1>1, <1>4 DEF Dates
<1>5. CASE \E r \in Requests : Marks(r)
    BY <1>1, <1>5 DEF Marks, MarkUsed, TokenType
<1>6. CASE Deletes
    BY <1>1, <1>6 DEF Deletes, Delete, Restrict
<1>7. CASE Waits
    BY <1>1, <1>7 DEF Waits
<1>8. QED
    BY <1>2, <1>3, <1>4, <1>5, <1>6, <1>7, StepKind

-----------------------------------------------------------------------------
(* The names                                                               *)

\* Dropped writers make no blob but the objects of their own PUTs.
LEMMA DropAdds ==
    ASSUME NEW rs, NEW sent, DropWriters(rs, sent),
           NEW b \in DOMAIN blobs' \ DOMAIN blobs
    PROVE  \E r \in rs : open[r] # NULL /\ open[r] = b /\ ~IsLocal(b)
BY DEF DropWriters

\* Neither does a copy or the end of a writer.
LEMMA WriteAdds ==
    ASSUME NEW r, WriteBlob(r) \/ FinalizeBlob(r),
           NEW b \in DOMAIN blobs' \ DOMAIN blobs
    PROVE  open[r] # NULL /\ open[r] = b /\ ~IsLocal(b)
BY DEF WriteBlob, FinalizeBlob, PutEnds, Insert, storageVars

\* A name that was not known is of an attempt under way, and at its field.
NewName(b) ==
    \E r \in Requests :
        /\ OwnName(r, b)
        /\ Attempting(r)' => b.file_index <= req'[r].file_index

\* The step of an upload makes names of its own only.
LEMMA UploadNames ==
    ASSUME TypeInv, WritersOwn, NEW r \in Requests, UploadStep(r), UNCHANGED cleaner,
           NEW b \in Names', b \notin Names
    PROVE  NewName(b)
<1>1. /\ req \in [Requests -> RequestType]
      /\ files \in [DOMAIN files -> FileType]
      /\ req[r].file_index \in Nat
    BY ConstantsOK
       DEF TypeInv, TypeOK, DBTypeOK, TablesOK, UploadTypeOK, RequestType
<1>2. \/ b \in {files'[f].data : f \in DOMAIN files'} /\ b \notin {files[f].data : f \in DOMAIN files}
      \/ b \in DOMAIN blobs' \ DOMAIN blobs
    BY DEF Names
<1>3. ASSUME req[r].pc \in {"opened", "copying", "copied", "empty", "emptied"}, b = BlobOf(r)
      PROVE  NewName(b)
  <2>1. Attempting(r)
      BY <1>3 DEF Attempting
  <2>2. /\ b.token_id = req[r].token_id
        /\ b.attempt_counter = req[r].attempt_counter
        /\ b.file_index = req[r].file_index
      BY <1>3 DEF BlobOf
  <2>3. Attempting(r)' => req[r].file_index <= req'[r].file_index
      BY <2>1, UploadAdvances DEF Advances, Takes, GoesOn
  <2>4. QED
      BY <2>1, <2>2, <2>3 DEF NewName, OwnName
<1>4. ASSUME open[r] # NULL, b = open[r] PROVE NewName(b)
    BY <1>3, <1>4 DEF WritersOwn
<1>5. CASE NextField(r)
  <2> DEFINE c == [BlobOf(r) EXCEPT !.file_index = @ + 1]
  <2>1. OpenBlob(r, c) /\ UNCHANGED files
      BY <1>5 DEF NextField, dbVars
  <2> HIDE DEF c
  <2>2. b = c
      BY <1>2, <2>1 DEF OpenBlob, Insert
  <2>3. /\ c.token_id = req[r].token_id
        /\ c.attempt_counter = req[r].attempt_counter
        /\ c.file_index = req[r].file_index + 1
      BY DEF c, BlobOf
  <2>4. Attempting(r) /\ req'[r].file_index = req[r].file_index + 1
      BY <1>1, <1>5 DEF NextField, Attempting, RequestType
  <2>5. QED
      BY <1>1, <2>2, <2>3, <2>4 DEF NewName, OwnName
<1>6. CASE RecordFile(r)
  <2>1. CASE DropWriters({r}, {}) /\ UNCHANGED files
      BY <1>2, <1>4, <2>1, DropAdds
  <2>2. ASSUME NEW f, CreateFile(f, BlobOf(r)), UNCHANGED storageVars
        PROVE  NewName(b)
    <3>1. b = BlobOf(r)
        BY <1>2, <2>2 DEF CreateFile, Insert, storageVars
    <3>2. QED
        BY <1>3, <1>6, <3>1 DEF RecordFile
  <2>3. QED
      BY <1>6, <2>1, <2>2 DEF RecordFile, dbVars
<1>7. CASE CopyBytes(r)
    BY <1>2, <1>4, <1>7, WriteAdds DEF CopyBytes, dbVars, storageVars
<1>8. CASE StoreBlob(r)
    BY <1>2, <1>4, <1>8, WriteAdds DEF StoreBlob, dbVars
<1>9. CASE DeleteEmptyBlob(r)
    BY <1>2, <1>9 DEF DeleteEmptyBlob, DeleteBlob, Delete, Restrict, dbVars
<1>10. CASE DeleteEmptyFile(r)
  <2>1. DropWriters({r}, {}) /\ DeleteFiles({req[r].file_id})
      BY <1>10 DEF DeleteEmptyFile
  <2>2. b \in DOMAIN blobs' \ DOMAIN blobs
      BY <1>2, <2>1 DEF DeleteFiles, Delete, Restrict
  <2>3. QED
      BY <1>4, <2>1, <2>2, DropAdds
<1>11. CASE CompleteFile(r)
  <2>1. UNCHANGED storageVars
      BY <1>11 DEF CompleteFile
  <2>2. \A f \in DOMAIN files' : f \in DOMAIN files /\ files'[f].data = files[f].data
      BY <1>1, <1>11 DEF CompleteFile, FinaliseFileUpload, dbVars, FileType
  <2>3. QED
      BY <1>2, <2>1, <2>2 DEF storageVars
<1>12. CASE Abort(r)
    BY <1>2, <1>4, <1>12, DropAdds DEF Abort, dbVars
<1>13. CASE LookUpToken(r) \/ StartAttempt(r) \/ EndOfBody(r) \/ MarkTokenUsed(r)
    BY <1>2, <1>13
       DEF LookUpToken, LookUpTokenAt, RefusePath, StartAttempt, InitiateUpload, EndOfBody,
           MarkTokenUsed, MarkUsed, dbVars, storageVars
<1>14. QED
    BY <1>5, <1>6, <1>7, <1>8, <1>9, <1>10, <1>11, <1>12, <1>13 DEF UploadStep

\* So does every step of the server.
LEMMA NamesStep ==
    ASSUME TypeInv, WritersOwn, Next, NEW b \in Names', b \notin Names
    PROVE  NewName(b)
<1>1. ASSUME ProcessEnds PROVE NewName(b)
  <2>1. /\ DropWriters(Requests, {q \in Requests : req[q].pc \in {"copying", "copied"}})
        /\ UNCHANGED files
        /\ cleaner'.sel = {}
        /\ \A r \in Requests : ~Attempting(r)'
      BY <1>1 DEF ProcessEnds, dbVars, Asleep, Active, Attempting, Blank
  <2>2. b \in DOMAIN blobs' \ DOMAIN blobs
      BY <2>1 DEF Names
  <2>3. PICK r \in Requests : open[r] # NULL /\ open[r] = b
      BY <2>1, <2>2, DropAdds
  <2>4. Attempting(r) /\ b = BlobOf(r)
      BY <2>3 DEF WritersOwn, Attempting
  <2>5. QED
      BY <2>1, <2>4 DEF NewName, OwnName, BlobOf
<1>2. CASE UNCHANGED <<files, storageVars, cleaner>>
    BY <1>2 DEF Names, storageVars
<1>3. CASE Serve
    BY <1>2, <1>3, UploadNames DEF Serve, GenerateToken, CreateToken, HandleUpload
<1>4. CASE CleanupStep
  <2>1. CASE SelectFiles
      BY <2>1 DEF SelectFiles, FilesToDelete, dbVars, storageVars, Names
  <2>2. CASE NothingToDelete
      BY <1>2, <2>2 DEF NothingToDelete, dbVars
  <2>3. CASE DeleteOneBlob
    <3>1. DOMAIN blobs' \subseteq DOMAIN blobs /\ UNCHANGED files /\ cleaner'.sel = cleaner.sel
        BY <2>3 DEF DeleteOneBlob, DeleteBlob, Delete, Restrict, dbVars,
                    TypeInv, TypeOK, CleanupTypeOK, CleanerType
    <3>2. QED
        BY <3>1 DEF Names
  <2>4. CASE DeleteFileRows
    <3>1. /\ \A f \in DOMAIN files' : f \in DOMAIN files /\ files'[f] = files[f]
          /\ UNCHANGED blobs
          /\ cleaner'.sel = {}
        BY <2>4 DEF DeleteFileRows, DeleteFiles, Delete, Restrict, storageVars,
                    TypeInv, TypeOK, CleanupTypeOK, CleanerType
    <3>2. QED
        BY <3>1 DEF Names
  <2>5. CASE DeleteTokens
      BY <2>5 DEF DeleteTokens, DeleteExpiredTokens, Asleep, storageVars, Names
  <2>6. QED
      BY <1>4, <2>1, <2>2, <2>3, <2>4, <2>5 DEF CleanupStep
<1>5. CASE BackgroundCleanup
    BY <1>1, <1>4, <1>5 DEF BackgroundCleanup, CleanupFails
<1>6. CASE Tick \/ Crash \/ Restart
    BY <1>1, <1>2, <1>6 DEF Tick, Crash, Restart, dbVars
<1>7. QED
    BY <1>3, <1>5, <1>6 DEF Next

\* An upload moves no other writer but to take its name away,
LEMMA OthersWriters ==
    ASSUME TypeInv, NEW r \in Requests, UploadStep(r), NEW q \in Requests \ {r}
    PROVE  open'[q] \in {open[q], NULL}
<1>1. open \in [Requests -> BlobType \cup {NULL}]
    BY DEF TypeInv, TypeOK, StorageTypeOK
<1> USE DEF dbVars, storageVars
<1>2. CASE NextField(r)
    BY <1>1, <1>2 DEF NextField, OpenBlob
<1>3. CASE RecordFile(r) \/ DeleteEmptyFile(r) \/ Abort(r)
    BY <1>1, <1>3 DEF RecordFile, DeleteEmptyFile, Abort, DropWriters
<1>4. CASE CopyBytes(r)
    BY <1>1, <1>4 DEF CopyBytes, WriteBlob, PutEnds
<1>5. CASE StoreBlob(r)
    BY <1>1, <1>5 DEF StoreBlob, FinalizeBlob, PutEnds
<1>6. CASE DeleteEmptyBlob(r)
    BY <1>1, <1>6 DEF DeleteEmptyBlob, DeleteBlob
<1>7. CASE \/ LookUpToken(r) \/ StartAttempt(r) \/ CompleteFile(r) \/ EndOfBody(r)
           \/ MarkTokenUsed(r)
    BY <1>1, <1>7 DEF LookUpToken, LookUpTokenAt, RefusePath, StartAttempt, CompleteFile, EndOfBody,
                      MarkTokenUsed
<1>8. QED
    BY <1>2, <1>3, <1>4, <1>5, <1>6, <1>7 DEF UploadStep

\* ... and its own has the name of the field at hand.
LEMMA OwnWriter ==
    ASSUME TypeInv, WritersOwn, NEW r \in Requests, UploadStep(r), open'[r] # NULL
    PROVE  /\ req'[r].pc \in {"opened", "copying", "copied", "empty", "emptied"}
           /\ open'[r] = BlobOf(r)'
<1>1. /\ open \in [Requests -> BlobType \cup {NULL}]
      /\ req \in [Requests -> RequestType]
    BY DEF TypeInv, TypeOK, StorageTypeOK, UploadTypeOK
<1>2. open[r] # NULL =>
          /\ req[r].pc \in {"opened", "copying", "copied", "empty", "emptied"}
          /\ open[r] = BlobOf(r)
    BY DEF WritersOwn
<1> USE DEF dbVars, storageVars
<1>3. CASE NextField(r)
  <2>1. open'[r] = [BlobOf(r) EXCEPT !.file_index = @ + 1]
      BY <1>1, <1>3 DEF NextField, OpenBlob
  <2>2. /\ req'[r].pc = "opened"
        /\ req'[r].file_index = req[r].file_index + 1
        /\ req'[r].token_id = req[r].token_id
        /\ req'[r].attempt_counter = req[r].attempt_counter
        /\ req'[r].backend_type = req[r].backend_type
      BY <1>1, <1>3 DEF NextField, RequestType
  <2>3. QED
      BY <2>1, <2>2 DEF BlobOf
<1>4. CASE DeleteEmptyFile(r) \/ Abort(r) \/ StoreBlob(r)
    BY <1>1, <1>4 DEF DeleteEmptyFile, Abort, DropWriters, StoreBlob, FinalizeBlob, PutEnds
<1>5. CASE RecordFile(r)
  <2>1. ~DropWriters({r}, {})
      BY <1>1 DEF DropWriters
  <2>2. PICK f \in RowIds :
            req' = [req EXCEPT ![r].pc = "copying", ![r].file_id = f] /\ UNCHANGED open
      BY <1>5, <2>1 DEF RecordFile
  <2>3. req'[r].pc = "copying" /\ BlobOf(r)' = BlobOf(r)
      BY <1>1, <2>2 DEF RequestType, BlobOf
  <2>4. QED
      BY <1>2, <2>2, <2>3
<1>6. CASE CopyBytes(r)
  <2>1. open'[r] = open[r]
      BY <1>1, <1>6 DEF CopyBytes, WriteBlob, PutEnds
  <2>2. /\ req'[r].pc \in {"copied", "empty"}
        /\ BlobOf(r)' = BlobOf(r)
      BY <1>1, <1>6 DEF CopyBytes, Goto, RequestType, BlobOf
  <2>3. QED
      BY <1>2, <2>1, <2>2
<1>7. CASE DeleteEmptyBlob(r)
    BY <1>1, <1>2, <1>7 DEF DeleteEmptyBlob, DeleteBlob, Goto, RequestType, BlobOf
<1>8. CASE \/ LookUpToken(r) \/ StartAttempt(r) \/ CompleteFile(r) \/ EndOfBody(r)
           \/ MarkTokenUsed(r)
    BY <1>1, <1>2, <1>8
       DEF LookUpToken, LookUpTokenAt, RefusePath, StartAttempt, CompleteFile, EndOfBody, MarkTokenUsed
<1>9. QED
    BY <1>3, <1>4, <1>5, <1>6, <1>7, <1>8 DEF UploadStep

\* Every step keeps each writer at the name of its own field.
LEMMA WritersStep ==
    ASSUME TypeInv, WritersOwn, Next
    PROVE  WritersOwn'
<1>1. ASSUME UNCHANGED <<open, req>> PROVE WritersOwn'
    BY <1>1 DEF WritersOwn, BlobOf
<1>2. ASSUME ProcessEnds PROVE WritersOwn'
    BY <1>2 DEF ProcessEnds, DropWriters, WritersOwn
<1>3. ASSUME NEW r \in Requests, UploadStep(r) PROVE WritersOwn'
  <2>1. ASSUME NEW q \in Requests \ {r}, open'[q] # NULL
        PROVE  /\ req'[q].pc \in {"opened", "copying", "copied", "empty", "emptied"}
               /\ open'[q] = BlobOf(q)'
    <3>1. open'[q] = open[q] /\ req'[q] = req[q]
        BY <1>3, <2>1, OthersWriters, UploadAdvances DEF OthersKeep
    <3>2. QED
        BY <2>1, <3>1 DEF WritersOwn, BlobOf
  <2>2. QED
      BY <1>3, <2>1, OwnWriter DEF WritersOwn
<1>4. CASE Serve
    BY <1>1, <1>3, <1>4 DEF Serve, GenerateToken, HandleUpload, storageVars
<1>5. CASE BackgroundCleanup
  <2>1. CASE DeleteOneBlob
      BY <2>1 DEF DeleteOneBlob, DeleteBlob, WritersOwn, BlobOf
  <2>2. CASE SelectFiles \/ NothingToDelete \/ DeleteFileRows \/ DeleteTokens
      BY <1>1, <2>2 DEF SelectFiles, NothingToDelete, DeleteFileRows, DeleteTokens, storageVars
  <2>3. QED
      BY <1>2, <1>5, <2>1, <2>2 DEF BackgroundCleanup, CleanupFails, CleanupStep
<1>6. CASE Tick \/ Crash \/ Restart
    BY <1>1, <1>2, <1>6 DEF Tick, Crash, Restart, storageVars
<1>7. QED
    BY <1>4, <1>5, <1>6 DEF Next

\* Every file keeps the token that its foreign key needs.
LEMMA FilesHaveTokensStep ==
    ASSUME TypeInv, FilesHaveTokens, Next
    PROVE  FilesHaveTokens'
<1>1. /\ files \in [DOMAIN files -> FileType]
      /\ tokens \in [DOMAIN tokens -> TokenType]
    BY DEF TypeInv, TypeOK, DBTypeOK, TablesOK
<1>2. ASSUME DOMAIN tokens \subseteq DOMAIN tokens',
             \A f \in DOMAIN files' :
                 \/ f \in DOMAIN files /\ files'[f].data = files[f].data
                 \/ files'[f].data.token_id \in DOMAIN tokens
      PROVE  FilesHaveTokens'
    BY <1>2 DEF FilesHaveTokens
<1>3. ASSUME UNCHANGED dbVars PROVE FilesHaveTokens'
    BY <1>2, <1>3 DEF dbVars
<1>4. ASSUME NEW ids, DeleteFiles(ids) PROVE FilesHaveTokens'
    BY <1>2, <1>4 DEF DeleteFiles, Delete, Restrict
<1>5. ASSUME NEW r \in Requests, UploadStep(r) PROVE FilesHaveTokens'
  <2>1. CASE RecordFile(r)
    <3>1. ASSUME NEW f, CreateFile(f, BlobOf(r)) PROVE FilesHaveTokens'
        BY <1>2, <3>1 DEF CreateFile, Insert
    <3>2. QED
        BY <1>3, <2>1, <3>1 DEF RecordFile
  <2>2. CASE DeleteEmptyFile(r)
      BY <1>4, <2>2 DEF DeleteEmptyFile
  <2>3. CASE CompleteFile(r)
      BY <1>1, <1>2, <1>3, <2>3 DEF CompleteFile, FinaliseFileUpload, FileType
  <2>4. CASE StartAttempt(r) \/ MarkTokenUsed(r)
      BY <1>1, <1>2, <1>3, <2>4 DEF StartAttempt, InitiateUpload, MarkTokenUsed, MarkUsed
  <2>5. CASE \/ LookUpToken(r) \/ NextField(r) \/ CopyBytes(r) \/ DeleteEmptyBlob(r)
             \/ StoreBlob(r) \/ EndOfBody(r) \/ Abort(r)
      BY <1>3, <2>5
         DEF LookUpToken, LookUpTokenAt, RefusePath, NextField, CopyBytes, DeleteEmptyBlob, StoreBlob,
             EndOfBody, Abort, dbVars
  <2>6. QED
      BY <1>5, <2>1, <2>2, <2>3, <2>4, <2>5 DEF UploadStep
<1>6. CASE Serve
    BY <1>2, <1>5, <1>6, CreateKeeps DEF Serve, GenerateToken, CreateToken, HandleUpload
<1>7. CASE CleanupStep
  <2>1. CASE DeleteTokens
      BY <2>1 DEF DeleteTokens, DeleteExpiredTokens, HasFiles, Delete, Restrict, FilesHaveTokens
  <2>2. CASE SelectFiles \/ NothingToDelete \/ DeleteOneBlob \/ DeleteFileRows
      BY <1>3, <1>4, <2>2 DEF SelectFiles, NothingToDelete, DeleteOneBlob, DeleteFileRows
  <2>3. QED
      BY <1>7, <2>1, <2>2 DEF CleanupStep
<1>8. CASE CleanupFails \/ Tick \/ Crash \/ Restart
    BY <1>3, <1>8 DEF CleanupFails, Tick, Crash, ProcessEnds, Restart
<1>9. QED
    BY <1>6, <1>7, <1>8 DEF Next, BackgroundCleanup

\* The id of a new token is in no name.
LEMMA NewIdsAreNoNames ==
    ASSUME Next, ~aliased', FilesHaveTokens, NEW b \in Names,
           b.token_id \in DOMAIN tokens'
    PROVE  b.token_id \in DOMAIN tokens
BY DEF Next, RecordReuse, ReusesId, TokenIdInUse, FilesHaveTokens, Names

\* Every step keeps the names behind the counters and the fields.
LEMMA NameStep == TypeInv /\ AttemptInv /\ NameInv /\ [Next]_vars => NameInv'
<1> SUFFICES ASSUME TypeInv, AttemptInv, NameInv, [Next]_vars PROVE NameInv'
    OBVIOUS
<1>1. CASE UNCHANGED vars
    BY <1>1 DEF vars, NameInv, WritersOwn, BlobOf, FilesHaveTokens, NamesBelowCounter,
                NamesBehind, OwnName, Names, Attempting
<1>2. CASE Next
  <2>1. WritersOwn' /\ FilesHaveTokens'
      BY <1>2, WritersStep, FilesHaveTokensStep DEF NameInv
  <2>2. SUFFICES ASSUME ~aliased' PROVE NamesBelowCounter' /\ NamesBehind'
      BY <2>1 DEF NameInv
  <2>3. /\ WritersOwn /\ FilesHaveTokens /\ NamesBelowCounter /\ NamesBehind
        /\ AttemptsBelowCounter /\ AttemptsDistinct
        /\ \A t \in DOMAIN tokens' \ DOMAIN tokens : \A r \in Requests : req[r].token_id # t
      BY <1>2, <2>2, NewIdsAreFree DEF NameInv, AttemptInv
  <2>4. /\ \A t \in DOMAIN tokens : tokens[t].attempt_counter \in Nat
        /\ \A t \in DOMAIN tokens' : tokens'[t].attempt_counter \in Nat
        /\ \A r \in Requests : req[r].attempt_counter \in Nat /\ req[r].file_index \in Nat
        /\ \A r \in Requests : req'[r].attempt_counter \in Nat /\ req'[r].file_index \in Nat
    <3>1. TypeInv'
        BY TypeNext
    <3>2. QED
        BY <3>1, ConstantsOK
           DEF TypeInv, TypeOK, DBTypeOK, TablesOK, TokenType, UploadTypeOK, RequestType
  <2>5. \A b \in Names : b.attempt_counter \in Nat /\ b.file_index \in Nat
      BY ConstantsOK
         DEF TypeInv, TypeOK, DBTypeOK, TablesOK, FileType, StorageTypeOK, CleanupTypeOK,
             CleanerType, BlobType, Names
  <2>6. ASSUME NEW b \in Names', b.token_id \in DOMAIN tokens'
        PROVE  /\ b.token_id \in DOMAIN tokens
               /\ b.attempt_counter <= tokens[b.token_id].attempt_counter
               /\ b.attempt_counter \in Nat
    <3>1. CASE b \in Names
        BY <1>2, <2>2, <2>3, <2>5, <2>6, <3>1, NewIdsAreNoNames DEF NamesBelowCounter
    <3>2. CASE b \notin Names
      <4>1. PICK r \in Requests : OwnName(r, b)
          BY <1>2, <2>3, <2>6, <3>2, NamesStep DEF NewName
      <4>2. QED
          BY <2>3, <2>4, <2>6, <4>1 DEF OwnName, AttemptsBelowCounter
    <3>3. QED
        BY <3>1, <3>2
  <2>7. NamesBelowCounter'
    <3> SUFFICES ASSUME NEW b \in Names', b.token_id \in DOMAIN tokens'
                 PROVE  b.attempt_counter <= tokens'[b.token_id].attempt_counter
        BY DEF NamesBelowCounter
    <3>1. tokens[b.token_id].attempt_counter <= tokens'[b.token_id].attempt_counter
        BY <1>2, <2>6, CountersGrow
    <3>2. QED
        BY <2>4, <2>6, <3>1
  <2>8. NamesBehind'
    <3> SUFFICES ASSUME NEW q \in Requests, NEW b \in Names', OwnName(q, b)'
                 PROVE  b.file_index <= req'[q].file_index
        BY DEF NamesBehind
    <3>1. /\ Attempting(q)'
          /\ b.token_id = req'[q].token_id
          /\ b.attempt_counter = req'[q].attempt_counter
        BY DEF OwnName
    <3>2. Takes(q) \/ GoesOn(q)
        BY <1>2, <3>1, RequestsAdvance DEF Advances
    <3>3. CASE Takes(q)
      <4>1. /\ b.token_id \in DOMAIN tokens
            /\ b.attempt_counter = tokens[b.token_id].attempt_counter + 1
          BY <3>1, <3>3 DEF Takes
      <4>2. CASE b \in Names
          BY <2>3, <2>4, <4>1, <4>2 DEF NamesBelowCounter
      <4>3. CASE b \notin Names
        <5>1. PICK r \in Requests : OwnName(r, b)
            BY <1>2, <2>3, <4>3, NamesStep DEF NewName
        <5>2. QED
            BY <2>3, <2>4, <4>1, <5>1 DEF OwnName, AttemptsBelowCounter
      <4>4. QED
          BY <4>2, <4>3
    <3>4. CASE GoesOn(q)
      <4>1. OwnName(q, b) /\ req[q].file_index <= req'[q].file_index
          BY <3>1, <3>4 DEF GoesOn, OwnName
      <4>2. CASE b \in Names
          BY <2>3, <2>4, <2>5, <4>1, <4>2 DEF NamesBehind
      <4>3. CASE b \notin Names
        <5>1. PICK r \in Requests :
                  OwnName(r, b) /\ (Attempting(r)' => b.file_index <= req'[r].file_index)
            BY <1>2, <2>3, <4>3, NamesStep DEF NewName
        <5>2. r = q
            BY <2>3, <4>1, <5>1 DEF AttemptsDistinct, OwnName
        <5>3. QED
            BY <3>1, <5>1, <5>2
      <4>4. QED
          BY <4>2, <4>3
    <3>5. QED
        BY <3>2, <3>3, <3>4
  <2>9. QED
      BY <2>7, <2>8
<1>3. QED
    BY <1>1, <1>2

-----------------------------------------------------------------------------
(* The rows and the blobs that were deleted                                *)

\* The row of the request's field is there as it has created it.
HasRow(r) ==
    /\ Recorded(r)
    /\ req[r].file_id \in DOMAIN files
    /\ files[req[r].file_id].data = BlobOf(r)

\* A request keeps its row and its name until the field ends.
KeepsField(r) ==
    Recorded(r)' =>
        \/ HasRow(r)'
        \/ /\ Recorded(r)
           /\ BlobOf(r)' = BlobOf(r)
           /\ req'[r].file_id = req[r].file_id

\* An upload creates at most the row of its own field,
LEMMA UploadRows ==
    ASSUME TypeInv, NEW r \in Requests, UploadStep(r)
    PROVE  /\ KeepsField(r)
           /\ \A f \in DOMAIN files' :
                 \/ f \in DOMAIN files /\ files'[f].data = files[f].data
                 \/ f \notin DOMAIN files /\ HasRow(r)' /\ req'[r].file_id = f
<1> DEFINE Rows ==
        \A f \in DOMAIN files' :
            \/ f \in DOMAIN files /\ files'[f].data = files[f].data
            \/ f \notin DOMAIN files /\ HasRow(r)' /\ req'[r].file_id = f
<1>1. /\ files \in [DOMAIN files -> FileType]
      /\ req \in [Requests -> RequestType]
    BY DEF TypeInv, TypeOK, DBTypeOK, TablesOK, UploadTypeOK
<1>2. UNCHANGED dbVars => Rows
    BY DEF dbVars
<1>3. Return(r) => KeepsField(r)
    BY <1>1 DEF Return, Blank, KeepsField, Recorded
<1>4. CASE RecordFile(r)
  <2>1. CASE Return(r) /\ UNCHANGED dbVars
      BY <1>2, <1>3, <2>1
  <2>2. ASSUME NEW f \in RowIds, CreateFile(f, BlobOf(r)),
               req' = [req EXCEPT ![r].pc = "copying", ![r].file_id = f]
        PROVE  KeepsField(r) /\ Rows
    <3>1. /\ req'[r].pc = "copying"
          /\ req'[r].file_id = f
          /\ BlobOf(r)' = BlobOf(r)
        BY <1>1, <2>2 DEF RequestType, BlobOf
    <3>2. /\ f \notin DOMAIN files
          /\ DOMAIN files' = DOMAIN files \cup {f}
          /\ files'[f].data = BlobOf(r)
          /\ \A g \in DOMAIN files : files'[g] = files[g]
        BY <2>2 DEF CreateFile, IsNextRowId, Insert, RowIds
    <3>3. HasRow(r)'
        BY <3>1, <3>2 DEF HasRow, Recorded
    <3>4. QED
        BY <3>1, <3>2, <3>3 DEF KeepsField
  <2>3. QED
      BY <1>4, <2>1, <2>2 DEF RecordFile
<1>5. CASE CopyBytes(r)
    BY <1>1, <1>2, <1>5 DEF CopyBytes, Goto, KeepsField, Recorded, BlobOf, RequestType
<1>6. CASE DeleteEmptyBlob(r) \/ StoreBlob(r)
    BY <1>1, <1>2, <1>6 DEF DeleteEmptyBlob, StoreBlob, Goto, KeepsField, Recorded, BlobOf, RequestType
<1>7. CASE DeleteEmptyFile(r)
  <2>1. KeepsField(r)
      BY <1>1, <1>7 DEF DeleteEmptyFile, KeepsField, Recorded, RequestType
  <2>2. Rows
      BY <1>7 DEF DeleteEmptyFile, DeleteFiles, Delete, Restrict
  <2>3. QED
      BY <2>1, <2>2
<1>8. CASE CompleteFile(r)
  <2>1. KeepsField(r)
      BY <1>1, <1>3, <1>8 DEF CompleteFile, KeepsField, Recorded, RequestType
  <2>2. Rows
      BY <1>1, <1>2, <1>8 DEF CompleteFile, FinaliseFileUpload, FileType
  <2>3. QED
      BY <2>1, <2>2
<1>9. CASE NextField(r) \/ StartAttempt(r) \/ EndOfBody(r)
  <2>1. KeepsField(r)
      BY <1>1, <1>3, <1>9
         DEF NextField, StartAttempt, EndOfBody, KeepsField, Recorded, RequestType
  <2>2. Rows
      BY <1>2, <1>9 DEF NextField, StartAttempt, InitiateUpload, EndOfBody
  <2>3. QED
      BY <2>1, <2>2
<1>10. CASE LookUpToken(r)
  <2>1. ASSUME NEW t, req' = [req EXCEPT ![r].pc = "valid", ![r].token_id = t,
                                         ![r].backend_type = tokens[t].backend_type]
        PROVE  KeepsField(r)
    <3>1. req'[r].pc = "valid"
        BY <1>1, <2>1 DEF RequestType
    <3>2. QED
        BY <3>1 DEF KeepsField, Recorded
  <2>2. QED
      BY <1>2, <1>3, <1>10, <2>1 DEF LookUpToken, LookUpTokenAt, RefusePath
<1>11. CASE MarkTokenUsed(r) \/ Abort(r)
    BY <1>2, <1>3, <1>11 DEF MarkTokenUsed, MarkUsed, Abort
<1>12. QED
    BY <1>4, <1>5, <1>6, <1>7, <1>8, <1>9, <1>10, <1>11 DEF UploadStep

\* ... and so does every step of the server.
LEMMA RowsStep ==
    ASSUME TypeInv, Next
    PROVE  /\ \A r \in Requests : KeepsField(r)
           /\ \A f \in DOMAIN files' :
                 \/ f \in DOMAIN files /\ files'[f].data = files[f].data
                 \/ /\ f \notin DOMAIN files
                    /\ \E r \in Requests : HasRow(r)' /\ req'[r].file_id = f
<1> DEFINE Rows ==
        \A f \in DOMAIN files' :
            \/ f \in DOMAIN files /\ files'[f].data = files[f].data
            \/ /\ f \notin DOMAIN files
               /\ \E r \in Requests : HasRow(r)' /\ req'[r].file_id = f
<1>1. UNCHANGED req => \A r \in Requests : KeepsField(r)
    BY DEF KeepsField, Recorded, BlobOf
<1>2. UNCHANGED files => Rows
    OBVIOUS
<1>3. ASSUME NEW ids, DeleteFiles(ids) PROVE Rows
    BY <1>3 DEF DeleteFiles, Delete, Restrict
<1>4. ASSUME ProcessEnds PROVE Rows /\ \A r \in Requests : KeepsField(r)
    BY <1>2, <1>4 DEF ProcessEnds, dbVars, Active, Blank, KeepsField, Recorded
<1>5. ASSUME NEW r \in Requests, UploadStep(r)
      PROVE  Rows /\ \A q \in Requests : KeepsField(q)
  <2>1. \A q \in Requests \ {r} : req'[q] = req[q]
      BY <1>5, UploadAdvances DEF OthersKeep
  <2>2. \A q \in Requests \ {r} : KeepsField(q)
      BY <2>1 DEF KeepsField, Recorded, BlobOf
  <2>3. QED
      BY <1>5, <2>2, UploadRows
<1>6. CASE Serve
    BY <1>1, <1>2, <1>5, <1>6 DEF Serve, GenerateToken, CreateToken, HandleUpload
<1>7. CASE CleanupStep
    BY <1>1, <1>2, <1>3, <1>7
       DEF CleanupStep, SelectFiles, NothingToDelete, DeleteOneBlob, DeleteFileRows,
           DeleteTokens, DeleteExpiredTokens, dbVars
<1>8. CASE CleanupFails \/ Crash
    BY <1>4, <1>8 DEF CleanupFails, Crash
<1>9. CASE Tick \/ Restart
    BY <1>1, <1>2, <1>9 DEF Tick, Restart, dbVars
<1>10. QED
    BY <1>6, <1>7, <1>8, <1>9 DEF Next, BackgroundCleanup

\* The request opens this blob for its next field.
OpensNext(r, b) ==
    NextField(r) /\ b = [BlobOf(r) EXCEPT !.file_index = @ + 1]

\* A local blob that is gone comes back only when it is opened anew,
LEMMA UploadKeepsGone ==
    ASSUME TypeInv, NEW r \in Requests, UploadStep(r),
           NEW b, IsLocal(b), Vanished(b)
    PROVE  Vanished(b)' \/ OpensNext(r, b)
<1>1. open \in [Requests -> BlobType \cup {NULL}]
    BY DEF TypeInv, TypeOK, StorageTypeOK
<1>2. \A q \in Requests \ {r} : open'[q] = NULL \/ open'[q] # b
    BY OthersWriters DEF Vanished
<1>3. SUFFICES ASSUME ~OpensNext(r, b)
               PROVE  b \notin DOMAIN blobs' /\ (open'[r] = NULL \/ open'[r] # b)
    BY <1>2 DEF Vanished
<1>4. UNCHANGED storageVars => b \notin DOMAIN blobs' /\ (open'[r] = NULL \/ open'[r] # b)
    BY DEF Vanished, storageVars
<1>5. CASE NextField(r)
    BY <1>1, <1>3, <1>5 DEF NextField, OpensNext, OpenBlob, Insert, Vanished
<1>6. CASE RecordFile(r) \/ DeleteEmptyFile(r) \/ Abort(r)
  <2>1. CASE UNCHANGED storageVars
      BY <1>4, <2>1
  <2>2. ASSUME NEW sent, DropWriters({r}, sent)
        PROVE  b \notin DOMAIN blobs' /\ open'[r] = NULL
      BY <2>2, DropAdds DEF DropWriters, Vanished
  <2>3. QED
      BY <1>6, <2>1, <2>2 DEF RecordFile, DeleteEmptyFile, Abort
<1>7. CASE CopyBytes(r)
  <2>1. CASE WriteBlob(r)
    <3>1. b \notin DOMAIN blobs'
        BY <2>1, WriteAdds DEF Vanished
    <3>2. open'[r] \in {open[r], NULL}
        BY <1>1, <2>1 DEF WriteBlob, PutEnds, storageVars
    <3>3. QED
        BY <3>1, <3>2 DEF Vanished
  <2>2. QED
      BY <1>4, <1>7, <2>1 DEF CopyBytes
<1>8. CASE StoreBlob(r)
  <2>1. FinalizeBlob(r)
      BY <1>8 DEF StoreBlob
  <2>2. b \notin DOMAIN blobs'
      BY <2>1, WriteAdds DEF Vanished
  <2>3. open'[r] = NULL
      BY <1>1, <2>1 DEF FinalizeBlob, PutEnds
  <2>4. QED
      BY <2>2, <2>3
<1>9. CASE DeleteEmptyBlob(r)
    BY <1>1, <1>9 DEF DeleteEmptyBlob, DeleteBlob, Delete, Restrict, Vanished
<1>10. CASE \/ LookUpToken(r) \/ StartAttempt(r) \/ CompleteFile(r) \/ EndOfBody(r)
            \/ MarkTokenUsed(r)
    BY <1>4, <1>10
       DEF LookUpToken, LookUpTokenAt, RefusePath, StartAttempt, CompleteFile, EndOfBody, MarkTokenUsed
<1>11. QED
    BY <1>5, <1>6, <1>7, <1>8, <1>9, <1>10 DEF UploadStep

\* ... by the step of an upload.
LEMMA StepKeepsGone ==
    ASSUME TypeInv, Next, NEW b, IsLocal(b), Vanished(b)
    PROVE  Vanished(b)' \/ \E r \in Requests : OpensNext(r, b)
<1>1. UNCHANGED storageVars => Vanished(b)'
    BY DEF storageVars, Vanished
<1>2. ASSUME ProcessEnds PROVE Vanished(b)'
  <2>1. b \notin DOMAIN blobs'
      BY <1>2, DropAdds DEF ProcessEnds, Vanished
  <2>2. \A r \in Requests : open'[r] = NULL
      BY <1>2 DEF ProcessEnds, DropWriters
  <2>3. QED
      BY <2>1, <2>2 DEF Vanished
<1>3. CASE Serve
    BY <1>1, <1>3, UploadKeepsGone DEF Serve, GenerateToken, HandleUpload
<1>4. CASE BackgroundCleanup
  <2>1. CASE DeleteOneBlob
      BY <2>1 DEF DeleteOneBlob, DeleteBlob, Delete, Restrict, Vanished
  <2>2. QED
      BY <1>1, <1>2, <1>4, <2>1
         DEF BackgroundCleanup, CleanupFails, CleanupStep, SelectFiles, NothingToDelete,
             DeleteFileRows, DeleteTokens
<1>5. CASE Tick \/ Crash \/ Restart
    BY <1>1, <1>2, <1>5 DEF Tick, Crash, Restart
<1>6. QED
    BY <1>3, <1>4, <1>5 DEF Next

\* A local blob that a step deletes is gone.
LEMMA DeleteMakesGone ==
    ASSUME TypeInv, NEW b, IsLocal(b), DeleteBlob(b)
    PROVE  Vanished(b)'
BY DEF DeleteBlob, Delete, Restrict, Vanished

\* Whatever a step adds to Deleted it has deleted.
LEMMA DeletedStep ==
    ASSUME TypeInv, Next, NEW b \in Deleted', IsLocal(b), b \notin Deleted
    PROVE  Vanished(b)'
<1>1. /\ req \in [Requests -> RequestType]
      /\ cleaner \in CleanerType
    BY DEF TypeInv, TypeOK, UploadTypeOK, CleanupTypeOK
<1>2. ASSUME UNCHANGED <<req, cleaner>> PROVE FALSE
    BY <1>2 DEF Deleted, BlobOf
<1>3. ASSUME ProcessEnds PROVE FALSE
  <2>1. \A r \in Requests : req'[r].pc # "emptied"
      BY <1>3 DEF ProcessEnds, Active, Blank
  <2>2. cleaner'.sel = {}
      BY <1>3 DEF ProcessEnds, Asleep
  <2>3. QED
      BY <2>1, <2>2 DEF Deleted
<1>4. ASSUME NEW r \in Requests, UploadStep(r), UNCHANGED cleaner PROVE Vanished(b)'
  <2>1. PICK q \in Requests : req'[q].pc = "emptied" /\ b = BlobOf(q)'
      BY <1>4 DEF Deleted
  <2>2. q = r
    <3>1. SUFFICES ASSUME q # r PROVE FALSE
        OBVIOUS
    <3>2. req'[q] = req[q]
        BY <1>4, <3>1, UploadAdvances DEF OthersKeep
    <3>3. QED
        BY <2>1, <3>2 DEF Deleted, BlobOf
  <2>3. req'[r].pc = "emptied"
      BY <2>1, <2>2
  <2>4. DeleteEmptyBlob(r)
    <3>1. ASSUME NEW t, req' = [req EXCEPT ![r].pc = "valid", ![r].token_id = t,
                                           ![r].backend_type = tokens[t].backend_type]
          PROVE  FALSE
        BY <1>1, <2>3, <3>1 DEF RequestType
    <3>2. ~Return(r)
        BY <1>1, <2>3 DEF Return, Blank
    <3>3. ~LookUpToken(r)
        BY <3>1, <3>2 DEF LookUpToken, LookUpTokenAt, RefusePath
    <3>4. ~StartAttempt(r)
        BY <1>1, <2>3, <3>2 DEF StartAttempt, RequestType
    <3>5. ~NextField(r)
        BY <1>1, <2>3 DEF NextField, RequestType
    <3>6. ~RecordFile(r)
        BY <1>1, <2>3, <3>2 DEF RecordFile, RequestType
    <3>7. ~CopyBytes(r)
        BY <1>1, <2>3 DEF CopyBytes, Goto, RequestType
    <3>8. /\ ~DeleteEmptyFile(r) /\ ~StoreBlob(r) /\ ~CompleteFile(r) /\ ~EndOfBody(r)
          /\ ~MarkTokenUsed(r) /\ ~Abort(r)
        BY <1>1, <2>3, <3>2
           DEF DeleteEmptyFile, StoreBlob, CompleteFile, EndOfBody, MarkTokenUsed, Abort,
               Goto, RequestType
    <3>9. QED
        BY <1>4, <3>3, <3>4, <3>5, <3>6, <3>7, <3>8 DEF UploadStep
  <2>5. DeleteBlob(BlobOf(r)) /\ BlobOf(r)' = BlobOf(r)
      BY <1>1, <2>4 DEF DeleteEmptyBlob, Goto, BlobOf, RequestType
  <2>6. QED
      BY <2>1, <2>2, <2>5, DeleteMakesGone
<1>5. CASE Serve
    BY <1>2, <1>4, <1>5 DEF Serve, GenerateToken, HandleUpload
<1>6. CASE CleanupStep
  <2>1. CASE DeleteOneBlob
    <3>1. PICK file \in cleaner.todo :
              /\ DeleteBlob(file.data)
              /\ cleaner' = [cleaner EXCEPT !.todo = @ \ {file}]
              /\ UNCHANGED req
        BY <2>1 DEF DeleteOneBlob
    <3>2. cleaner'.sel = cleaner.sel /\ cleaner'.todo = cleaner.todo \ {file}
        BY <1>1, <3>1 DEF CleanerType
    <3>3. b = file.data
        BY <3>1, <3>2 DEF Deleted, BlobOf
    <3>4. QED
        BY <3>1, <3>3, DeleteMakesGone
  <2>2. CASE SelectFiles \/ DeleteFileRows \/ DeleteTokens
    <3>1. UNCHANGED req
        BY <2>2 DEF SelectFiles, DeleteFileRows, DeleteTokens
    <3>2. CASE SelectFiles
        BY <3>1, <3>2 DEF SelectFiles, Deleted, BlobOf
    <3>3. CASE DeleteFileRows \/ DeleteTokens
      <4>1. DeleteFileRows => cleaner'.sel = {}
          BY <1>1 DEF DeleteFileRows, CleanerType
      <4>2. DeleteTokens => cleaner'.sel = {}
          BY DEF DeleteTokens, Asleep
      <4>3. QED
          BY <3>1, <3>3, <4>1, <4>2 DEF Deleted, BlobOf
    <3>4. QED
        BY <2>2, <3>2, <3>3
  <2>3. CASE NothingToDelete
      BY <1>2, <2>3 DEF NothingToDelete
  <2>4. QED
      BY <1>6, <2>1, <2>2, <2>3 DEF CleanupStep
<1>7. CASE CleanupFails \/ Tick \/ Crash \/ Restart
    BY <1>2, <1>3, <1>7 DEF CleanupFails, Tick, Crash, Restart
<1>8. QED
    BY <1>5, <1>6, <1>7 DEF Next, BackgroundCleanup

\* A row keeps the name it had, unless its id was given out again while
\* somebody held it.
LEMMA HeldRowsKeepNames ==
    ASSUME TypeInv, Next, ~aliased', NEW f \in DOMAIN files', FileIdInUse(f)
    PROVE  f \in DOMAIN files /\ files'[f].data = files[f].data
BY RowsStep DEF Next, RecordReuse, ReusesId

\* The next field of an upload has a name that nobody deletes.
LEMMA OpensNoDeleted ==
    ASSUME TypeInv, AttemptInv, NameInv, ~aliased,
           NEW r \in Requests, NEW b \in Deleted
    PROVE  ~OpensNext(r, b)
<1> SUFFICES ASSUME OpensNext(r, b) PROVE FALSE
    OBVIOUS
<1>1. /\ AttemptsDistinct /\ NamesBehind
      /\ req[r].file_index \in Nat
    BY ConstantsOK
       DEF AttemptInv, NameInv, TypeInv, TypeOK, UploadTypeOK, RequestType
<1>2. /\ req[r].pc = "fields"
      /\ b.token_id = req[r].token_id
      /\ b.attempt_counter = req[r].attempt_counter
      /\ b.file_index = req[r].file_index + 1
    BY DEF OpensNext, NextField, BlobOf
<1>3. Attempting(r)
    BY <1>2 DEF Attempting
<1>4. CASE b \in {file.data : file \in cleaner.sel}
  <2>1. b \in Names
      BY <1>4 DEF Names
  <2>2. b.file_index <= req[r].file_index
      BY <1>1, <1>2, <1>3, <2>1 DEF NamesBehind, OwnName
  <2>3. QED
      BY <1>1, <1>2, <2>2
<1>5. ASSUME NEW q \in Requests, req[q].pc = "emptied", b = BlobOf(q) PROVE FALSE
  <2>1. Attempting(q) /\ b.token_id = req[q].token_id /\ b.attempt_counter = req[q].attempt_counter
      BY <1>5 DEF Attempting, BlobOf
  <2>2. q = r
      BY <1>1, <1>2, <1>3, <2>1 DEF AttemptsDistinct
  <2>3. QED
      BY <1>2, <1>5, <2>2
<1>6. QED
    BY <1>4, <1>5 DEF Deleted

\* Every step keeps the rows at their names and the deleted blobs away.
LEMMA RowStep == TypeInv /\ AttemptInv /\ NameInv /\ RowInv /\ [Next]_vars => RowInv'
<1> SUFFICES ASSUME TypeInv, AttemptInv, NameInv, RowInv, [Next]_vars, ~aliased'
             PROVE  RequestsMatch' /\ SelectionMatches' /\ DeletedGone'
    BY DEF RowInv
<1>1. CASE UNCHANGED vars
    BY <1>1 DEF vars, RowInv, RequestsMatch, SelectionMatches, DeletedGone, Deleted, Vanished,
                Recorded, BlobOf
<1>2. CASE Next
  <2>1. ~aliased /\ RequestsMatch /\ SelectionMatches /\ DeletedGone
      BY <1>2, NewIdsAreFree DEF RowInv
  <2>2. RequestsMatch'
    <3> SUFFICES ASSUME NEW q \in Requests, Recorded(q)', req'[q].file_id \in DOMAIN files'
                 PROVE  files'[req'[q].file_id].data = BlobOf(q)'
        BY DEF RequestsMatch
    <3>1. KeepsField(q)
        BY <1>2, RowsStep
    <3>2. CASE HasRow(q)'
        BY <3>2 DEF HasRow
    <3>3. CASE /\ Recorded(q)
               /\ BlobOf(q)' = BlobOf(q)
               /\ req'[q].file_id = req[q].file_id
      <4>1. FileIdInUse(req[q].file_id)
          BY DEF FileIdInUse
      <4>2. QED
          BY <1>2, <2>1, <3>3, <4>1, HeldRowsKeepNames DEF RequestsMatch
    <3>4. QED
        BY <3>1, <3>2, <3>3 DEF KeepsField
  <2>3. SelectionMatches'
    <3>1. CASE cleaner'.sel \subseteq cleaner.sel
      <4> SUFFICES ASSUME NEW file \in cleaner'.sel, file.id \in DOMAIN files'
                   PROVE  files'[file.id].data = file.data
          BY DEF SelectionMatches
      <4>1. FileIdInUse(file.id)
          BY <3>1 DEF FileIdInUse
      <4>2. QED
          BY <1>2, <2>1, <3>1, <4>1, HeldRowsKeepNames DEF SelectionMatches
    <3>2. CASE SelectFiles
        BY <3>2 DEF SelectFiles, SelectionMatches, dbVars
    <3>3. SelectFiles \/ cleaner'.sel \subseteq cleaner.sel
      <4>1. cleaner \in CleanerType
          BY DEF TypeInv, TypeOK, CleanupTypeOK
      <4>2. DeleteOneBlob => cleaner'.sel = cleaner.sel
          BY <4>1 DEF DeleteOneBlob, CleanerType
      <4>3. DeleteFileRows => cleaner'.sel = {}
          BY <4>1 DEF DeleteFileRows, CleanerType
      <4>4. DeleteTokens \/ ProcessEnds => cleaner'.sel = {}
          BY DEF DeleteTokens, ProcessEnds, Asleep
      <4>5. QED
          BY <1>2, <4>2, <4>3, <4>4
             DEF Next, Serve, GenerateToken, HandleUpload, BackgroundCleanup, CleanupStep,
                 NothingToDelete, CleanupFails, Tick, Crash, Restart
    <3>4. QED
        BY <3>1, <3>2, <3>3
  <2>4. DeletedGone'
    <3> SUFFICES ASSUME NEW b \in Deleted', IsLocal(b) PROVE Vanished(b)'
        BY DEF DeletedGone
    <3>1. CASE b \in Deleted
        BY <1>2, <2>1, <3>1, StepKeepsGone, OpensNoDeleted DEF DeletedGone
    <3>2. CASE b \notin Deleted
        BY <1>2, <3>2, DeletedStep
    <3>3. QED
        BY <3>1, <3>2
  <2>5. QED
      BY <2>2, <2>3, <2>4
<1>3. QED
    BY <1>1, <1>2

\* At first there is no name and no row.
LEMMA NameInit == Init => NameInv /\ RowInv
BY DEF Init, DBInit, StorageInit, UploadInit, CleanupInit, Asleep, Blank, NameInv,
       WritersOwn, FilesHaveTokens, NamesBelowCounter, NamesBehind, OwnName, Names,
       Attempting, RowInv, RequestsMatch, SelectionMatches, DeletedGone, Deleted, Recorded

\* The names and the rows agree, whatever uploads, cleanups and crashes do.
THEOREM NamesHold == Spec => [](TypeInv /\ AttemptInv /\ NameInv /\ RowInv)
<1>1. Init => TypeInv /\ AttemptInv /\ NameInv /\ RowInv
    BY TypeInit, AttemptInit, NameInit
<1>2. TypeInv /\ AttemptInv /\ NameInv /\ RowInv /\ [Next]_vars
          => (TypeInv /\ AttemptInv /\ NameInv /\ RowInv)'
    BY TypeNext, AttemptStep, NameStep, RowStep
<1>3. QED
    BY <1>1, <1>2, PTL DEF Spec

\* A row that goes leaves no local blob.
LEMMA RowGoesLast ==
    ASSUME TypeInv, RowInv, Next, ~aliased',
           NEW f \in DOMAIN files \ DOMAIN files', IsLocal(files[f].data)
    PROVE  files[f].data \notin DOMAIN blobs'
<1>1. RequestsMatch /\ SelectionMatches /\ DeletedGone
    BY NewIdsAreFree DEF RowInv
<1>2. ASSUME NEW r \in Requests, DeleteEmptyFile(r)
      PROVE  files[f].data \notin DOMAIN blobs'
  <2>1. /\ req[r].pc = "emptied"
        /\ f = req[r].file_id
        /\ DropWriters({r}, {})
      BY <1>2 DEF DeleteEmptyFile, DeleteFiles, Delete, Restrict
  <2>2. files[f].data = BlobOf(r)
      BY <1>1, <2>1 DEF RequestsMatch, Recorded
  <2>3. Vanished(files[f].data)
      BY <1>1, <2>1, <2>2 DEF DeletedGone, Deleted
  <2>4. QED
      BY <2>1, <2>3, DropAdds DEF Vanished
<1>3. ASSUME DeleteFileRows PROVE files[f].data \notin DOMAIN blobs'
  <2>1. PICK file \in cleaner.sel : f = file.id
      BY <1>3 DEF DeleteFileRows, DeleteFiles, Delete, Restrict
  <2>2. files[f].data = file.data
      BY <1>1, <2>1 DEF SelectionMatches
  <2>3. Vanished(files[f].data)
      BY <1>1, <1>3, <2>1, <2>2 DEF DeleteFileRows, DeletedGone, Deleted
  <2>4. QED
      BY <1>3, <2>3 DEF DeleteFileRows, storageVars, Vanished
<1>4. (\E r \in Requests : DeleteEmptyFile(r)) \/ DeleteFileRows
  <2>1. ASSUME NEW r \in Requests, UploadStep(r), ~DeleteEmptyFile(r)
        PROVE  DOMAIN files \subseteq DOMAIN files'
    <3>1. CASE RecordFile(r) \/ CompleteFile(r)
        BY <3>1 DEF RecordFile, CreateFile, Insert, CompleteFile, FinaliseFileUpload, dbVars
    <3>2. CASE \/ LookUpToken(r) \/ StartAttempt(r) \/ NextField(r) \/ CopyBytes(r)
               \/ DeleteEmptyBlob(r) \/ StoreBlob(r) \/ EndOfBody(r)
               \/ MarkTokenUsed(r) \/ Abort(r)
        BY <3>2
           DEF LookUpToken, LookUpTokenAt, RefusePath, StartAttempt, InitiateUpload, NextField,
               CopyBytes, DeleteEmptyBlob, StoreBlob, EndOfBody, MarkTokenUsed, MarkUsed,
               Abort, dbVars
    <3>3. QED
        BY <2>1, <3>1, <3>2 DEF UploadStep
  <2>2. QED
      BY <2>1
         DEF Next, Serve, GenerateToken, CreateToken, HandleUpload, BackgroundCleanup,
             CleanupStep, SelectFiles, NothingToDelete, DeleteOneBlob, DeleteTokens,
             DeleteExpiredTokens, CleanupFails, ProcessEnds, Tick, Crash, Restart, dbVars
<1>5. QED
    BY <1>2, <1>3, <1>4

\* The row of a local file outlives its blob: neither an empty field nor the
\* cleanup, at work on the rows as it read them before, ever deletes a row
\* whose blob is still there or could come back.
THEOREM RowsOutliveBlobs == Spec => RowOutlivesBlob
<1> DEFINE Last == \A f \in DOMAIN files \ DOMAIN files' :
                       ~aliased' /\ IsLocal(files[f].data) =>
                           files[f].data \notin DOMAIN blobs'
<1>1. TypeInv /\ RowInv /\ [Next]_vars => [Last]_vars
    BY RowGoesLast
<1>2. QED
    BY <1>1, NamesHold, PTL DEF Spec, RowOutlivesBlob
=============================================================================
