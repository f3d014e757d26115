--------------------------- MODULE PublishProofs ---------------------------
(***************************************************************************)
(* What a visitor gets is what one upload put there, for any number of     *)
(* requests and rows.  As long as an upload has the last attempt of a link *)
(* that has not expired, its rows and its blobs are its own: no other      *)
(* upload has their names, and the cleanup has selected none of them.  Once *)
(* it has marked the token used, that goes on until the content expires.   *)
(***************************************************************************)
EXTENDS BlobProofs

\* No date for the content of a token that is not used
UnusedUndated ==
    \A t \in DOMAIN tokens :
        ~tokens[t].used => tokens[t].content_expires_at = NULL

\* The cleanup deletes the blobs it has selected.
TodoSelected == cleaner.todo \subseteq cleaner.sel

\* An upload has stored nothing before its attempt.
NothingStoredYet ==
    \A r \in Requests : ~Attempting(r) => req[r].stored = {}

\* No upload may complete the link any more, or it was late, or its content
\* is due.
Lost(t) ==
    IF tokens[t].used
    THEN tokens[t].late \/ SqlLeq(tokens[t].content_expires_at, clock)
    ELSE tokens[t].valid_until <= clock

\* What the cleanup has selected is of an earlier attempt or of a lost link.
SelectionDoomed ==
    \A file \in cleaner.sel :
        LET t == file.data.token_id IN
        t \in DOMAIN tokens =>
            file.data.attempt_counter < tokens[t].attempt_counter \/ Lost(t)

\* The upload has the last attempt of a link that has not expired.
Held(r) ==
    /\ Attempting(r)
    /\ req[r].token_id \in DOMAIN tokens
    /\ tokens[req[r].token_id].attempt_counter = req[r].attempt_counter
    /\ clock < tokens[req[r].token_id].valid_until

\* The rows of an attempt, complete or not
RowsOf(t, attempt) ==
    {f \in DOMAIN files :
        files[f].data.token_id = t /\ files[f].data.attempt_counter = attempt}

\* The row of the field at hand
AtHand(r) == IF Recorded(r) THEN {req[r].file_id} ELSE {}

\* The blob is there, with the bytes of this request alone.
Holds(b, r) == b \in DOMAIN blobs /\ blobs[b] = {r}

\* The rows of its attempt, save the one of the field at hand, are those that
\* it has completed, each with its blob, and with another name than that
\* field.
StoredIntact(r) ==
    /\ RowsOf(req[r].token_id, req[r].attempt_counter) \ AtHand(r) = req[r].stored
    /\ \A f \in req[r].stored :
          /\ files[f].completed
          /\ Holds(files[f].data, r)
          /\ req[r].pc \notin {"fields", "mark"} => files[f].data # BlobOf(r)

\* The blob of the field at hand is only its own.
FieldIntact(r) ==
    /\ req[r].pc \in {"opened", "copying"} =>
          /\ open[r] # NULL
          /\ IsLocal(BlobOf(r)) => BlobOf(r) \in DOMAIN blobs /\ blobs[BlobOf(r)] = {}
    /\ req[r].pc = "copied" =>
          \/ Holds(BlobOf(r), r)
          \/ ~IsLocal(BlobOf(r)) /\ open[r] # NULL
    /\ req[r].pc = "stored" => Holds(BlobOf(r), r)

HeldIntact ==
    \A r \in Requests : Held(r) => StoredIntact(r) /\ FieldIntact(r)

\* The rows of the attempt of the token are those published, each completed
\* and with its blob.
RowsIntact(t) ==
    /\ RowsOf(t, tokens[t].attempt_counter) = tokens[t].published
    /\ \A f \in tokens[t].published :
          files[f].completed /\ Holds(files[f].data, tokens[t].by)

ShownStored ==
    \A t \in DOMAIN tokens : IsShown(t) /\ ~tokens[t].late => RowsIntact(t)

PublishInv ==
    /\ UnusedUndated
    /\ TodoSelected
    /\ NothingStoredYet
    /\ ~aliased => SelectionDoomed /\ HeldIntact /\ ShownStored

-----------------------------------------------------------------------------
(* The parts that concern one table or one task                            *)

\* Only MarkUsed dates the content, and it marks the token used.
LEMMA UndatedStep ==
    ASSUME TypeInv, UnusedUndated, Next
    PROVE  UnusedUndated'
<1>1. tokens \in [DOMAIN tokens -> TokenType]
    BY DEF TypeInv, TypeOK, DBTypeOK, TablesOK
<1>2. CASE Creates
  <2>1. PICK path \in Paths, o \in Options : CreateToken(path, o)
      BY <1>2 DEF Creates
  <2>2. \A t \in DOMAIN tokens : tokens'[t] = tokens[t]
      BY <2>1, CreateKeeps
  <2>3. PICK u \in RowIds :
            /\ DOMAIN tokens' = DOMAIN tokens \cup {u}
            /\ tokens'[u].content_expires_at = NULL
      BY <2>1, CreateKeeps DEF AddsRow
  <2>4. QED
      BY <2>2, <2>3 DEF UnusedUndated
<1>3. CASE \E r \in Requests : Starts(r)
    BY <1>1, <1>3 DEF Starts, InitiateUpload, TokenType, UnusedUndated
<1>4. CASE \E r \in Requests : Dates(r)
    BY <1>4 DEF Dates, UnusedUndated
<1>5. CASE \E r \in Requests : Marks(r)
    BY <1>1, <1>5 DEF Marks, MarkUsed, TokenType, UnusedUndated
<1>6. CASE Deletes
    BY <1>6 DEF Deletes, Delete, Restrict, UnusedUndated
<1>7. CASE Waits
    BY <1>7 DEF Waits, UnusedUndated
<1>8. QED
    BY <1>2, <1>3, <1>4, <1>5, <1>6, <1>7, StepKind

\* The cleanup selects anew, keeps its selection or drops it whole.
LEMMA SelectionStep ==
    ASSUME TypeInv, TodoSelected, Next
    PROVE  /\ TodoSelected'
           /\ \/ SelectFiles
              \/ UNCHANGED cleaner
              \/ DeleteOneBlob /\ cleaner'.sel = cleaner.sel
              \/ cleaner'.sel = {}
<1>1. cleaner \in CleanerType
    BY DEF TypeInv, TypeOK, CleanupTypeOK
<1>2. UNCHANGED cleaner => TodoSelected'
    BY DEF TodoSelected
<1>3. cleaner' = Asleep => TodoSelected' /\ cleaner'.sel = {}
    BY DEF TodoSelected, Asleep
<1>4. SelectFiles => TodoSelected'
    BY DEF SelectFiles, TodoSelected
<1>5. DeleteOneBlob => TodoSelected' /\ cleaner'.sel = cleaner.sel
    BY <1>1 DEF DeleteOneBlob, TodoSelected, CleanerType
<1>6. DeleteFileRows => cleaner'.sel = {} /\ cleaner'.todo = {}
    BY <1>1 DEF DeleteFileRows, CleanerType
<1>7. DeleteFileRows => TodoSelected'
    BY <1>6 DEF TodoSelected
<1>8. CASE Serve \/ Tick \/ Restart
    BY <1>2, <1>8 DEF Serve, GenerateToken, HandleUpload, Tick, Restart
<1>9. CASE BackgroundCleanup \/ Crash
    BY <1>2, <1>3, <1>4, <1>5, <1>6, <1>7, <1>9
       DEF BackgroundCleanup, CleanupStep, NothingToDelete, DeleteTokens, CleanupFails,
           Crash, ProcessEnds
<1>10. QED
    BY <1>8, <1>9 DEF Next

\* A request that returns forgets what it has stored.
LEMMA StoredStep ==
    ASSUME TypeInv, NothingStoredYet, Next
    PROVE  NothingStoredYet'
<1>1. req \in [Requests -> RequestType]
    BY DEF TypeInv, TypeOK, UploadTypeOK
<1>2. UNCHANGED req => NothingStoredYet'
    BY DEF NothingStoredYet, Attempting
<1>3. ASSUME ProcessEnds PROVE NothingStoredYet'
    BY <1>1, <1>3 DEF ProcessEnds, Active, Blank, NothingStoredYet, Attempting
<1>4. ASSUME NEW r \in Requests, UploadStep(r) PROVE NothingStoredYet'
  <2>1. \A q \in Requests \ {r} : req'[q] = req[q]
      BY <1>4, UploadAdvances DEF OthersKeep
  <2>2. SUFFICES Attempting(r)' \/ req'[r].stored = {}
      BY <2>1 DEF NothingStoredYet, Attempting
  <2>3. Return(r) => req'[r].stored = {}
      BY <1>1 DEF Return, Blank
  <2>4. ASSUME NEW t, LookUpToken(r),
               req' = [req EXCEPT ![r].pc = "valid", ![r].token_id = t,
                                  ![r].backend_type = tokens[t].backend_type]
        PROVE  req'[r].stored = {}
    <3>1. req'[r].stored = req[r].stored
        BY <1>1, <2>4 DEF RequestType
    <3>2. QED
        BY <2>4, <3>1 DEF LookUpToken, LookUpTokenAt, RefusePath, NothingStoredYet, Attempting
  <2>5. CASE LookUpToken(r)
      BY <2>3, <2>4, <2>5 DEF LookUpToken, LookUpTokenAt, RefusePath
  <2>6. CASE StartAttempt(r) \/ NextField(r) \/ CopyBytes(r)
    <3>1. StartAttempt(r) => Attempting(r)' \/ Return(r)
        BY <1>1 DEF StartAttempt, Attempting, RequestType
    <3>2. NextField(r) => Attempting(r)'
        BY <1>1 DEF NextField, Attempting, RequestType
    <3>3. CopyBytes(r) => Attempting(r)'
        BY <1>1 DEF CopyBytes, Goto, Attempting, RequestType
    <3>4. QED
        BY <2>3, <2>6, <3>1, <3>2, <3>3
  <2>7. CASE RecordFile(r)
      BY <1>1, <2>3, <2>7 DEF RecordFile, Attempting, RequestType
  <2>8. CASE DeleteEmptyBlob(r) \/ DeleteEmptyFile(r) \/ StoreBlob(r)
      BY <1>1, <2>8 DEF DeleteEmptyBlob, DeleteEmptyFile, StoreBlob, Goto, Attempting, RequestType
  <2>9. CASE CompleteFile(r) \/ EndOfBody(r)
      BY <1>1, <2>3, <2>9 DEF CompleteFile, EndOfBody, Attempting, RequestType
  <2>10. CASE MarkTokenUsed(r) \/ Abort(r)
      BY <2>3, <2>10 DEF MarkTokenUsed, Abort
  <2>11. QED
      BY <1>4, <2>5, <2>6, <2>7, <2>8, <2>9, <2>10 DEF UploadStep
<1>5. CASE Serve
    BY <1>2, <1>4, <1>5 DEF Serve, GenerateToken, HandleUpload
<1>6. CASE BackgroundCleanup
    BY <1>2, <1>3, <1>6
       DEF BackgroundCleanup, CleanupFails, CleanupStep, SelectFiles, NothingToDelete,
           DeleteOneBlob, DeleteFileRows, DeleteTokens
<1>7. CASE Tick \/ Crash \/ Restart
    BY <1>2, <1>3, <1>7 DEF Tick, Crash, Restart
<1>8. QED
    BY <1>5, <1>6, <1>7 DEF Next

\* A link that is lost stays lost.
LEMMA LostStays ==
    ASSUME TypeInv, AttemptInv, UnusedUndated, Next, ~aliased',
           NEW t \in DOMAIN tokens \cap DOMAIN tokens', Lost(t)
    PROVE  Lost(t)'
<1>1. /\ tokens \in [DOMAIN tokens -> TokenType]
      /\ clock \in Nat
      /\ tokens[t].valid_until \in Nat
      /\ tokens[t].content_expires_at \in Nat \cup {NULL}
    BY DEF TypeInv, TypeOK, DBTypeOK, TablesOK, TokenType
<1>2. clock' \in Nat /\ clock <= clock'
    BY <1>1, StepKind DEF Creates, Starts, Dates, Marks, Deletes, Waits
<1>3. CASE tokens'[t] = tokens[t]
    BY <1>1, <1>2, <1>3 DEF Lost, SqlLeq
<1>4. CASE ~tokens[t].used /\ tokens'[t] # tokens[t]
  <2>1. tokens[t].valid_until <= clock
      BY <1>4 DEF Lost
  <2>2. CASE Creates \/ Deletes \/ Waits \/ \E r \in Requests : Dates(r)
      BY <1>4, <2>2, CreateKeeps DEF Creates, Deletes, Delete, Restrict, Waits, Dates
  <2>3. CASE \E r \in Requests : Starts(r)
      BY <1>1, <1>4, <2>1, <2>3 DEF Starts, InitiateUpload, CanInitiate
  <2>4. CASE \E r \in Requests : Marks(r)
    <3>1. PICK r \in Requests : Marks(r)
        BY <2>4
    <3>2. t = req[r].token_id
        BY <1>1, <1>4, <3>1 DEF Marks, MarkUsed
    <3>3. tokens'[t] = [tokens[t] EXCEPT !.used = TRUE,
                                         !.content_expires_at = req[r].expires_at,
                                         !.published = req[r].stored,
                                         !.by = r,
                                         !.late = (tokens[t].valid_until <= clock)]
        BY <1>1, <1>4, <3>1, <3>2 DEF Marks, MarkUsed
    <3>4. tokens[t] \in TokenType
        BY <1>1
    <3>5. tokens'[t].used = TRUE /\ tokens'[t].late = (tokens[t].valid_until <= clock)
        BY <3>3, <3>4 DEF TokenType
    <3>6. QED
        BY <2>1, <3>5 DEF Lost
  <2>5. QED
      BY <2>2, <2>3, <2>4, StepKind
<1>5. QED
    BY <1>3, <1>4, UsedStep

\* The cleanup never holds on to anything but the doomed.
LEMMA DoomedStep ==
    ASSUME TypeInv, AttemptInv, UnusedUndated, TodoSelected, SelectionDoomed,
           Next, ~aliased'
    PROVE  SelectionDoomed'
<1>1. /\ tokens \in [DOMAIN tokens -> TokenType]
      /\ \A t \in DOMAIN tokens : tokens[t].attempt_counter \in Nat
      /\ files \in [DOMAIN files -> FileType]
      /\ cleaner \in CleanerType
    BY DEF TypeInv, TypeOK, DBTypeOK, TablesOK, TokenType, CleanupTypeOK
<1>2. CASE SelectFiles
  <2> SUFFICES ASSUME NEW file \in cleaner'.sel, file.data.token_id \in DOMAIN tokens'
               PROVE  file.data.attempt_counter < tokens'[file.data.token_id].attempt_counter
                          \/ Lost(file.data.token_id)'
      BY DEF SelectionDoomed
  <2> DEFINE t == file.data.token_id
  <2>1. UNCHANGED tokens /\ t \in DOMAIN tokens
      BY <1>2 DEF SelectFiles, dbVars
  <2>2. PICK f \in FilesToDelete(clock) : file.data = files[f].data
      BY <1>2 DEF SelectFiles
  <2>3. file.data.attempt_counter < tokens[t].attempt_counter \/ Lost(t)
      BY <1>1, <2>2 DEF FilesToDelete, IsExpired, Lost, UnusedUndated, SqlLeq
  <2>4. Lost(t) => Lost(t)'
      BY <2>1, LostStays
  <2>5. QED
      BY <2>1, <2>3, <2>4
<1>3. CASE cleaner'.sel \subseteq cleaner.sel
  <2> SUFFICES ASSUME NEW file \in cleaner'.sel, file.data.token_id \in DOMAIN tokens'
               PROVE  file.data.attempt_counter < tokens'[file.data.token_id].attempt_counter
                          \/ Lost(file.data.token_id)'
      BY DEF SelectionDoomed
  <2> DEFINE t == file.data.token_id
  <2>1. t \in DOMAIN tokens
      BY <1>3 DEF Next, RecordReuse, ReusesId, TokenIdInUse
  <2>2. file.data.attempt_counter < tokens[t].attempt_counter \/ Lost(t)
      BY <1>3, <2>1 DEF SelectionDoomed
  <2>3. /\ tokens[t].attempt_counter \in Nat
        /\ tokens'[t].attempt_counter \in Nat
        /\ file.data.attempt_counter \in Nat
    <3>1. TypeInv'
        BY TypeNext
    <3>2. tokens'[t].attempt_counter \in Nat
        BY <3>1 DEF TypeInv, TypeOK, DBTypeOK, TablesOK, TokenType
    <3>3. QED
        BY <1>1, <1>3, <2>1, <3>2 DEF CleanerType, BlobType
  <2>4. CASE file.data.attempt_counter < tokens[t].attempt_counter
      BY <2>1, <2>3, <2>4, CountersGrow
  <2>5. CASE Lost(t)
      BY <2>1, <2>5, LostStays
  <2>6. QED
      BY <2>2, <2>4, <2>5
<1>4. QED
    BY <1>2, <1>3, SelectionStep

-----------------------------------------------------------------------------
(* What a step may do to the rows and the blobs of an attempt              *)

OfAttempt(b, t, attempt) == b.token_id = t /\ b.attempt_counter = attempt

\* The rows of an attempt stay as they are.
SameRows(t, attempt) ==
    /\ RowsOf(t, attempt)' = RowsOf(t, attempt)
    /\ \A f \in RowsOf(t, attempt) : files'[f] = files[f]

\* The statements that leave the rows of an attempt as they are
LEMMA StatementKeepsRows ==
    ASSUME TypeInv, NEW t, NEW attempt,
           \/ UNCHANGED files
           \/ \E f \in RowIds : \E data : CreateFile(f, data) /\ ~OfAttempt(data, t, attempt)
           \/ \E f, size : /\ FinaliseFileUpload(f, size)
                           /\ ~OfAttempt(files[f].data, t, attempt)
           \/ \E ids : /\ DeleteFiles(ids)
                       /\ \A f \in ids : f \notin RowsOf(t, attempt)
    PROVE  SameRows(t, attempt)
<1>1. files \in [DOMAIN files -> FileType]
    BY DEF TypeInv, TypeOK, DBTypeOK, TablesOK
<1>2. CASE UNCHANGED files
    BY <1>2 DEF SameRows, RowsOf
<1>3. ASSUME NEW f \in RowIds, NEW data, CreateFile(f, data), ~OfAttempt(data, t, attempt)
      PROVE  SameRows(t, attempt)
  <2>1. f \notin DOMAIN files
      BY <1>3 DEF CreateFile, IsNextRowId, RowIds
  <2>2. /\ DOMAIN files' = DOMAIN files \cup {f}
        /\ files'[f].data = data
        /\ \A g \in DOMAIN files : files'[g] = files[g]
      BY <1>3, <2>1 DEF CreateFile, Insert
  <2>3. QED
      BY <1>3, <2>1, <2>2 DEF SameRows, RowsOf, OfAttempt
<1>4. ASSUME NEW f, NEW size, FinaliseFileUpload(f, size), ~OfAttempt(files[f].data, t, attempt)
      PROVE  SameRows(t, attempt)
  <2>1. /\ DOMAIN files' = DOMAIN files
        /\ files'[f].data = files[f].data
        /\ \A g \in DOMAIN files \ {f} : files'[g] = files[g]
      BY <1>1, <1>4 DEF FinaliseFileUpload, CanFinaliseFile, FileType
  <2>2. QED
      BY <1>4, <2>1 DEF SameRows, RowsOf, OfAttempt
<1>5. ASSUME NEW ids, DeleteFiles(ids), \A f \in ids : f \notin RowsOf(t, attempt)
      PROVE  SameRows(t, attempt)
  <2>1. /\ DOMAIN files' = DOMAIN files \ ids
        /\ \A g \in DOMAIN files' : files'[g] = files[g]
      BY <1>5 DEF DeleteFiles, Delete, Restrict
  <2>2. QED
      BY <1>5, <2>1 DEF SameRows, RowsOf
<1>6. QED
    BY <1>2, <1>3, <1>4, <1>5

\* No step of an upload leaves its request as it is.
LEMMA UploadMoves ==
    ASSUME TypeInv, NEW r \in Requests, UploadStep(r)
    PROVE  req'[r].pc # req[r].pc
<1>1. req \in [Requests -> RequestType]
    BY DEF TypeInv, TypeOK, UploadTypeOK
<1>2. Return(r) => req'[r].pc = "done"
    BY <1>1 DEF Return, Blank
<1>3. ASSUME NEW t, LookUpToken(r),
             req' = [req EXCEPT ![r].pc = "valid", ![r].token_id = t,
                                ![r].backend_type = tokens[t].backend_type]
      PROVE  req'[r].pc # req[r].pc
  <2>1. req'[r].pc = "valid"
      BY <1>1, <1>3 DEF RequestType
  <2>2. QED
      BY <1>3, <2>1 DEF LookUpToken, LookUpTokenAt, RefusePath
<1>4. CASE LookUpToken(r)
    BY <1>2, <1>3, <1>4 DEF LookUpToken, LookUpTokenAt, RefusePath
<1>5. CASE StartAttempt(r)
    BY <1>1, <1>2, <1>5 DEF StartAttempt, RequestType
<1>6. CASE NextField(r)
    BY <1>1, <1>6 DEF NextField, RequestType
<1>7. CASE RecordFile(r)
    BY <1>1, <1>2, <1>7 DEF RecordFile, RequestType
<1>8. CASE CopyBytes(r)
    BY <1>1, <1>8 DEF CopyBytes, Goto, RequestType
<1>9. CASE DeleteEmptyBlob(r) \/ DeleteEmptyFile(r) \/ StoreBlob(r)
    BY <1>1, <1>9 DEF DeleteEmptyBlob, DeleteEmptyFile, StoreBlob, Goto, RequestType
<1>10. CASE CompleteFile(r) \/ EndOfBody(r)
    BY <1>1, <1>2, <1>10 DEF CompleteFile, EndOfBody, RequestType
<1>11. CASE MarkTokenUsed(r) \/ Abort(r)
    BY <1>2, <1>11 DEF MarkTokenUsed, Abort, Active
<1>12. QED
    BY <1>4, <1>5, <1>6, <1>7, <1>8, <1>9, <1>10, <1>11 DEF UploadStep

\* The name of the field at hand is of the attempt,
LEMMA BlobOfIsOwn ==
    ASSUME NEW r, Attempting(r)
    PROVE  OwnName(r, BlobOf(r))
<1>1. BlobOf(r).token_id = req[r].token_id /\ BlobOf(r).attempt_counter = req[r].attempt_counter
    BY DEF BlobOf
<1>2. QED
    BY <1>1 DEF OwnName

\* ... and a writer's is, too.
LEMMA WritersAreOwn ==
    ASSUME WritersOwn, NEW r \in Requests, open[r] # NULL
    PROVE  OwnName(r, open[r])
<1>1. Attempting(r) /\ open[r] = BlobOf(r)
    BY DEF WritersOwn, Attempting
<1>2. QED
    BY <1>1, BlobOfIsOwn

\* An upload touches the blobs of its own attempt only,
LEMMA UploadTouches ==
    ASSUME TypeInv, WritersOwn, NEW r \in Requests, UploadStep(r),
           NEW b, ~OwnName(r, b)
    PROVE  Untouched(b)
<1>1. open[r] = NULL \/ b # open[r]
    BY WritersAreOwn
<1>2. UNCHANGED storageVars => Untouched(b)
    BY DEF storageVars, Untouched
<1>3. CASE NextField(r)
  <2> DEFINE c == [BlobOf(r) EXCEPT !.file_index = @ + 1]
  <2>1. OwnName(r, c)
      BY <1>3 DEF NextField, OwnName, Attempting, BlobOf
  <2>2. OpenBlob(r, c)
      BY <1>3 DEF NextField
  <2> HIDE DEF c
  <2>3. QED
      BY <2>1, <2>2, OpenTouches
<1>4. CASE RecordFile(r) \/ DeleteEmptyFile(r) \/ Abort(r)
  <2>1. ASSUME NEW sent, DropWriters({r}, sent) PROVE Untouched(b)
      BY <1>1, <2>1, DropTouches
  <2>2. QED
      BY <1>2, <1>4, <2>1 DEF RecordFile, DeleteEmptyFile, Abort
<1>5. CASE CopyBytes(r)
    BY <1>1, <1>2, <1>5, WriteTouches DEF CopyBytes
<1>6. CASE StoreBlob(r)
    BY <1>1, <1>6, FinalizeTouches DEF StoreBlob
<1>7. CASE DeleteEmptyBlob(r)
  <2>1. b # BlobOf(r)
      BY <1>7 DEF DeleteEmptyBlob, OwnName, Attempting, BlobOf
  <2>2. QED
      BY <1>7, <2>1, DeleteTouches DEF DeleteEmptyBlob
<1>8. CASE \/ LookUpToken(r) \/ StartAttempt(r) \/ CompleteFile(r) \/ EndOfBody(r)
           \/ MarkTokenUsed(r)
    BY <1>2, <1>8
       DEF LookUpToken, LookUpTokenAt, RefusePath, StartAttempt, CompleteFile, EndOfBody, MarkTokenUsed
<1>9. QED
    BY <1>3, <1>4, <1>5, <1>6, <1>7, <1>8 DEF UploadStep

\* ... and so its rows.
LEMMA UploadKeepsRows ==
    ASSUME TypeInv, RequestsMatch, NEW r \in Requests, UploadStep(r),
           NEW t, NEW attempt,
           ~(/\ Attempting(r)
             /\ req[r].token_id = t
             /\ req[r].attempt_counter = attempt)
    PROVE  SameRows(t, attempt)
<1>1. UNCHANGED files => SameRows(t, attempt)
    BY StatementKeepsRows
<1>2. Attempting(r) => ~OfAttempt(BlobOf(r), t, attempt)
    BY BlobOfIsOwn DEF OwnName, OfAttempt
<1>3. ASSUME Recorded(r), req[r].file_id \in DOMAIN files
      PROVE  ~OfAttempt(files[req[r].file_id].data, t, attempt)
    BY <1>2, <1>3 DEF RequestsMatch, Recorded, Attempting
<1>4. CASE RecordFile(r)
  <2>1. Attempting(r)
      BY <1>4 DEF RecordFile, Attempting
  <2>2. QED
      BY <1>1, <1>2, <1>4, <2>1, StatementKeepsRows DEF RecordFile, dbVars
<1>5. CASE DeleteEmptyFile(r)
  <2>1. DeleteFiles({req[r].file_id}) /\ Recorded(r)
      BY <1>5 DEF DeleteEmptyFile, Recorded
  <2>2. req[r].file_id \notin RowsOf(t, attempt)
      BY <1>3, <2>1 DEF RowsOf, OfAttempt
  <2>3. QED
      BY <2>1, <2>2, StatementKeepsRows
<1>6. CASE CompleteFile(r)
  <2>1. CASE FinaliseFileUpload(req[r].file_id, req[r].size)
    <3>1. Recorded(r) /\ req[r].file_id \in DOMAIN files
        BY <1>6, <2>1 DEF CompleteFile, Recorded, FinaliseFileUpload, CanFinaliseFile
    <3>2. QED
        BY <1>3, <2>1, <3>1, StatementKeepsRows
  <2>2. QED
      BY <1>1, <1>6, <2>1 DEF CompleteFile, dbVars
<1>7. CASE \/ LookUpToken(r) \/ StartAttempt(r) \/ NextField(r) \/ CopyBytes(r)
           \/ DeleteEmptyBlob(r) \/ StoreBlob(r) \/ EndOfBody(r)
           \/ MarkTokenUsed(r) \/ Abort(r)
    BY <1>1, <1>7
       DEF LookUpToken, LookUpTokenAt, RefusePath, StartAttempt, InitiateUpload, NextField, CopyBytes,
           DeleteEmptyBlob, StoreBlob, EndOfBody, MarkTokenUsed, MarkUsed, Abort, dbVars
<1>8. QED
    BY <1>4, <1>5, <1>6, <1>7 DEF UploadStep

\* The attempt is of no request but those that the step leaves alone, and
\* nothing of it is selected.
Spared(t, attempt) ==
    /\ \A r \in Requests :
          /\ Attempting(r)
          /\ req[r].token_id = t
          /\ req[r].attempt_counter = attempt
          => req'[r] = req[r]
    /\ \A file \in cleaner.sel : ~OfAttempt(file.data, t, attempt)

\* Such an attempt keeps its blobs and its rows.
LEMMA SparedStays ==
    ASSUME TypeInv, WritersOwn, RequestsMatch, SelectionMatches, TodoSelected,
           Next, NEW t, NEW attempt, Spared(t, attempt)
    PROVE  /\ SameRows(t, attempt)
           /\ \A b : OfAttempt(b, t, attempt) => Untouched(b)
<1> DEFINE Same ==
        /\ SameRows(t, attempt)
        /\ \A b : OfAttempt(b, t, attempt) => Untouched(b)
<1>1. UNCHANGED files => SameRows(t, attempt)
    BY StatementKeepsRows
<1>2. UNCHANGED storageVars => \A b : OfAttempt(b, t, attempt) => Untouched(b)
    BY DEF storageVars, Untouched
<1>3. ASSUME NEW r \in Requests, UploadStep(r) PROVE Same
  <2>1. ~(/\ Attempting(r)
          /\ req[r].token_id = t
          /\ req[r].attempt_counter = attempt)
      BY <1>3, UploadMoves DEF Spared
  <2>2. SameRows(t, attempt)
      BY <1>3, <2>1, UploadKeepsRows
  <2>3. \A b : OfAttempt(b, t, attempt) => ~OwnName(r, b)
      BY <2>1 DEF OfAttempt, OwnName
  <2>4. QED
      BY <1>3, <2>2, <2>3, UploadTouches
<1>4. ASSUME ProcessEnds PROVE Same
  <2>1. \A r \in Requests : Attempting(r) => req'[r].pc # req[r].pc
      BY <1>4 DEF ProcessEnds, Active, Blank, Attempting, TypeInv, TypeOK, UploadTypeOK
  <2>2. ASSUME NEW b, OfAttempt(b, t, attempt), NEW r \in Requests
        PROVE  open[r] = NULL \/ b # open[r]
      BY <2>1, <2>2, WritersAreOwn DEF Spared, OfAttempt, OwnName
  <2>3. \A b : OfAttempt(b, t, attempt) => Untouched(b)
      BY <1>4, <2>2, DropTouches DEF ProcessEnds
  <2>4. QED
      BY <1>1, <1>4, <2>3 DEF ProcessEnds, dbVars
<1>5. CASE Serve
    BY <1>1, <1>2, <1>3, <1>5 DEF Serve, GenerateToken, CreateToken, HandleUpload
<1>6. CASE CleanupStep
  <2>1. CASE DeleteOneBlob
    <3>1. PICK file \in cleaner.todo : DeleteBlob(file.data)
        BY <2>1 DEF DeleteOneBlob
    <3>2. ~OfAttempt(file.data, t, attempt)
        BY <3>1 DEF TodoSelected, Spared
    <3>3. \A b : OfAttempt(b, t, attempt) => Untouched(b)
        BY <3>1, <3>2, DeleteTouches
    <3>4. QED
        BY <1>1, <2>1, <3>3 DEF DeleteOneBlob, dbVars
  <2>2. CASE DeleteFileRows
    <3>1. \A f \in {file.id : file \in cleaner.sel} : f \notin RowsOf(t, attempt)
        BY DEF SelectionMatches, Spared, RowsOf, OfAttempt
    <3>2. QED
        BY <1>2, <2>2, <3>1, StatementKeepsRows DEF DeleteFileRows
  <2>3. CASE SelectFiles \/ NothingToDelete \/ DeleteTokens
      BY <1>1, <1>2, <2>3
         DEF SelectFiles, NothingToDelete, DeleteTokens, DeleteExpiredTokens, dbVars
  <2>4. QED
      BY <1>6, <2>1, <2>2, <2>3 DEF CleanupStep
<1>7. CASE CleanupFails \/ Tick \/ Crash \/ Restart
    BY <1>1, <1>2, <1>4, <1>7 DEF CleanupFails, Tick, Crash, Restart, dbVars
<1>8. QED
    BY <1>5, <1>6, <1>7 DEF Next, BackgroundCleanup

-----------------------------------------------------------------------------
(* The upload that holds its link                                          *)

\* An attempt that has just begun has no row and no blob.
LEMMA TakesIntact ==
    ASSUME TypeInv, NamesBelowCounter, NothingStoredYet,
           NEW r \in Requests, UploadStep(r), Takes(r), Attempting(r)'
    PROVE  StoredIntact(r)' /\ FieldIntact(r)'
<1>1. /\ req \in [Requests -> RequestType]
      /\ files \in [DOMAIN files -> FileType]
      /\ \A t \in DOMAIN tokens : tokens[t].attempt_counter \in Nat
      /\ \A f \in DOMAIN files : files[f].data.attempt_counter \in Nat
    BY DEF TypeInv, TypeOK, DBTypeOK, TablesOK, TokenType, FileType, BlobType, UploadTypeOK
<1>2. ~Return(r)
    BY <1>1 DEF Return, Blank, Attempting
<1>3. ~Attempting(r)
    BY DEF Takes
<1>4. ~LookUpToken(r)
  <2>1. SUFFICES ASSUME NEW t, req' = [req EXCEPT ![r].pc = "valid", ![r].token_id = t,
                                          ![r].backend_type = tokens[t].backend_type]
                 PROVE  FALSE
      BY <1>2 DEF LookUpToken, LookUpTokenAt, RefusePath
  <2>2. req'[r].pc = "valid"
      BY <1>1, <2>1 DEF RequestType
  <2>3. QED
      BY <2>2 DEF Attempting
<1>5. StartAttempt(r)
    BY <1>2, <1>3, <1>4
       DEF UploadStep, NextField, RecordFile, CopyBytes, DeleteEmptyBlob, DeleteEmptyFile,
           StoreBlob, CompleteFile, EndOfBody, MarkTokenUsed, Abort, Attempting
<1>6. /\ UNCHANGED files
      /\ req'[r].pc = "fields"
      /\ req'[r].stored = {}
    BY <1>1, <1>2, <1>3, <1>5
       DEF StartAttempt, InitiateUpload, NothingStoredYet, RequestType
<1>7. \A f \in DOMAIN files :
          files[f].data.token_id = req'[r].token_id =>
              files[f].data.attempt_counter # req'[r].attempt_counter
  <2> SUFFICES ASSUME NEW f \in DOMAIN files, files[f].data.token_id = req'[r].token_id
               PROVE  files[f].data.attempt_counter # req'[r].attempt_counter
      OBVIOUS
  <2>1. files[f].data \in Names
      BY DEF Names
  <2>2. QED
      BY <1>1, <2>1 DEF Takes, NamesBelowCounter
<1>8. QED
    BY <1>6, <1>7 DEF StoredIntact, FieldIntact, RowsOf, AtHand, Recorded

\* Nothing happens to the rows that the request has completed.
KeepsStored(r, t, attempt) ==
    /\ RowsOf(t, attempt)' \ AtHand(r)' = RowsOf(t, attempt) \ AtHand(r)
    /\ \A f \in req[r].stored : files'[f] = files[f]

\* The rows and blobs that an upload has stored stay when nothing touches
\* them and it stores no more.
LEMMA StoredStays ==
    ASSUME NEW r, StoredIntact(r),
           UNCHANGED <<req[r].token_id, req[r].attempt_counter, req[r].stored>>,
           NEW t, NEW attempt, t = req[r].token_id, attempt = req[r].attempt_counter,
           KeepsStored(r, t, attempt),
           \A f \in req[r].stored : Untouched(files[f].data),
           req'[r].pc \notin {"fields", "mark"} =>
               \A f \in req[r].stored : files[f].data # BlobOf(r)'
    PROVE  StoredIntact(r)'
<1>1. /\ RowsOf(t, attempt) \ AtHand(r) = req[r].stored
      /\ \A f \in req[r].stored : files[f].completed /\ Holds(files[f].data, r)
    BY DEF StoredIntact
<1>2. RowsOf(t, attempt)' \ AtHand(r)' = req'[r].stored
    BY <1>1 DEF KeepsStored
<1>3. (RowsOf(req[r].token_id, req[r].attempt_counter) \ AtHand(r))' = req'[r].stored
    BY <1>2 DEF RowsOf
<1>4. \A f \in req[r].stored :
          files[f].data \in DOMAIN blobs' /\ blobs'[files[f].data] = {r}
    BY <1>1 DEF Holds, Untouched
<1>5. QED
    BY <1>1, <1>3, <1>4 DEF StoredIntact, Holds, KeepsStored

\* The rows of an upload have names that it knows, so opening the next field
\* touches none of them.
LEMMA NextIsNew ==
    ASSUME TypeInv, NamesBehind, NEW r \in Requests, NEW b, OpensNext(r, b)
    PROVE  b \notin Names
<1>1. req[r].file_index \in Nat
    BY ConstantsOK DEF TypeInv, TypeOK, UploadTypeOK, RequestType
<1>2. /\ OwnName(r, b)
      /\ b.file_index = req[r].file_index + 1
    BY DEF OpensNext, NextField, OwnName, Attempting, BlobOf
<1>3. QED
    BY <1>1, <1>2 DEF NamesBehind

\* ... and it has a name to open.
LEMMA NextIsName ==
    ASSUME TypeInv, NEW r \in Requests, NEW b, OpensNext(r, b)
    PROVE  b \in BlobType
<1>1. NextField(r) /\ req[r] \in GoodRequest
    BY DEF OpensNext, TypeInv, LocalsSet
<1>2. req[r].file_index + 1 \in 1..MaxFiles
    BY <1>1, ConstantsOK DEF NextField, GoodRequest, RequestType
<1>3. b = [BlobOf(r) EXCEPT !.file_index = req[r].file_index + 1]
    BY DEF OpensNext, BlobOf
<1>4. QED
    BY <1>1, <1>2, <1>3, BlobOfType DEF TypeInv, NextField, Active

\* The step of an upload that goes on keeps what it has stored, and its
\* field, for itself.
LEMMA OwnStep ==
    ASSUME TypeInv, WritersOwn, NamesBehind, RequestsMatch,
           NEW r \in Requests, UploadStep(r), Attempting(r), Attempting(r)',
           StoredIntact(r), FieldIntact(r)
    PROVE  StoredIntact(r)' /\ FieldIntact(r)'
<1>1. /\ req \in [Requests -> RequestType]
      /\ files \in [DOMAIN files -> FileType]
      /\ open \in [Requests -> BlobType \cup {NULL}]
    BY DEF TypeInv, TypeOK, DBTypeOK, TablesOK, UploadTypeOK, StorageTypeOK
<1>2. ~Return(r)
    BY <1>1 DEF Return, Blank, Attempting
<1>3. UNCHANGED <<req[r].token_id, req[r].attempt_counter, req[r].backend_type>>
    BY UploadAdvances DEF Advances, Takes, GoesOn
<1>4. PICK t, attempt : t = req[r].token_id /\ attempt = req[r].attempt_counter
    OBVIOUS
<1>5. /\ \A f \in req[r].stored : f \in DOMAIN files /\ files[f].data \in Names
      /\ req[r].stored = RowsOf(t, attempt) \ AtHand(r)
    BY <1>4 DEF StoredIntact, RowsOf, Names
<1>6. UNCHANGED files /\ AtHand(r)' = AtHand(r) => KeepsStored(r, t, attempt)
    BY DEF KeepsStored, RowsOf
<1>7. UNCHANGED storageVars => \A b : Untouched(b)
    BY DEF storageVars, Untouched
<1>8. CASE NextField(r)
  <2>1. PICK b : b = [BlobOf(r) EXCEPT !.file_index = @ + 1]
      OBVIOUS
  <2>2. OpenBlob(r, b) /\ b \notin Names
      BY <1>8, <2>1, NextIsNew DEF NextField, OpensNext
  <2>3. /\ req'[r].pc = "opened"
        /\ req'[r].stored = req[r].stored
        /\ req'[r].file_index = req[r].file_index + 1
        /\ UNCHANGED files
        /\ AtHand(r)' = AtHand(r)
      BY <1>1, <1>8 DEF NextField, RequestType, dbVars, AtHand, Recorded
  <2>4. b = BlobOf(r)'
      BY <1>3, <2>1, <2>3 DEF BlobOf
  <2>5. \A f \in req[r].stored : files[f].data # b
      BY <1>5, <2>2
  <2>6. \A f \in req[r].stored : Untouched(files[f].data)
      BY <2>2, <2>5, OpenTouches
  <2>7. StoredIntact(r)'
      BY <1>3, <1>4, <1>6, <2>3, <2>4, <2>5, <2>6, StoredStays
  <2>8. open'[r] = b /\ b \notin DOMAIN blobs
      BY <1>1, <2>2 DEF OpenBlob, Names
  <2>9. b # NULL
      BY <1>8, <2>1, NextIsName, NullIsNoName DEF OpensNext
  <2>10. IsLocal(b) => b \in DOMAIN blobs' /\ blobs'[b] = {}
      BY <2>2, <2>8 DEF OpenBlob, Insert
  <2>11. FieldIntact(r)'
      BY <2>3, <2>4, <2>8, <2>9, <2>10 DEF FieldIntact
  <2>12. QED
      BY <2>7, <2>11
\* From here on the name of the field stays.
<1>9. ASSUME req'[r].file_index = req[r].file_index,
             req'[r].stored = req[r].stored,
             req[r].pc \notin {"fields", "mark"},
             KeepsStored(r, t, attempt),
             \A c : c # BlobOf(r) => Untouched(c)
      PROVE  StoredIntact(r)' /\ BlobOf(r)' = BlobOf(r)
  <2>1. BlobOf(r)' = BlobOf(r)
      BY <1>3, <1>9 DEF BlobOf
  <2>2. \A f \in req[r].stored : files[f].data # BlobOf(r)
      BY <1>9 DEF StoredIntact
  <2>3. \A f \in req[r].stored : Untouched(files[f].data)
      BY <1>9, <2>2
  <2>4. QED
      BY <1>3, <1>4, <1>9, <2>1, <2>2, <2>3, StoredStays
<1>10. open[r] = NULL \/ open[r] = BlobOf(r)
    BY DEF WritersOwn
<1>11. CASE RecordFile(r)
  <2>1. PICK f \in RowIds : /\ CreateFile(f, BlobOf(r))
                            /\ req' = [req EXCEPT ![r].pc = "copying", ![r].file_id = f]
                            /\ UNCHANGED storageVars
      BY <1>2, <1>11 DEF RecordFile
  <2>2. /\ req'[r].pc = "copying" /\ req[r].pc = "opened"
        /\ req'[r].file_index = req[r].file_index
        /\ req'[r].stored = req[r].stored
        /\ req'[r].file_id = f
      BY <1>1, <1>11, <2>1 DEF RecordFile, RequestType
  <2>3. KeepsStored(r, t, attempt)
    <3>1. f \notin DOMAIN files
        BY <2>1 DEF CreateFile, IsNextRowId, RowIds
    <3>2. /\ DOMAIN files' = DOMAIN files \cup {f}
          /\ files'[f].data = BlobOf(r)
          /\ \A g \in DOMAIN files : files'[g] = files[g]
        BY <2>1, <3>1 DEF CreateFile, Insert
    <3>3. AtHand(r) = {} /\ AtHand(r)' = {f}
        BY <2>2 DEF AtHand, Recorded
    <3>4. RowsOf(t, attempt)' \ {f} = RowsOf(t, attempt)
        BY <3>1, <3>2 DEF RowsOf
    <3>5. QED
        BY <1>5, <3>2, <3>3, <3>4 DEF KeepsStored
  <2>4. StoredIntact(r)' /\ BlobOf(r)' = BlobOf(r)
      BY <1>7, <1>9, <2>1, <2>2, <2>3
  <2>5. QED
      BY <2>1, <2>2, <2>4 DEF FieldIntact, storageVars
<1>12. CASE CopyBytes(r)
  <2>1. UNCHANGED files /\ req[r].pc = "copying"
      BY <1>12 DEF CopyBytes, dbVars
  <2>2. /\ req'[r].pc \in {"empty", "copied"}
        /\ req'[r].file_index = req[r].file_index
        /\ req'[r].stored = req[r].stored
        /\ AtHand(r)' = AtHand(r)
      BY <1>1, <1>12 DEF CopyBytes, Goto, RequestType, AtHand, Recorded
  <2>3. (req'[r].pc = "empty" /\ UNCHANGED storageVars) \/ WriteBlob(r)
      BY <1>1, <1>12 DEF CopyBytes, Goto, RequestType
  <2>4. \A c : c # BlobOf(r) => Untouched(c)
      BY <1>7, <1>10, <2>3, WriteTouches
  <2>5. StoredIntact(r)' /\ BlobOf(r)' = BlobOf(r)
      BY <1>6, <1>9, <2>1, <2>2, <2>4
  <2>6. CASE req'[r].pc = "empty"
      BY <2>5, <2>6 DEF FieldIntact
  <2>7. CASE req'[r].pc = "copied" /\ WriteBlob(r)
    <3>1. /\ open[r] # NULL /\ open[r] = BlobOf(r)
          /\ IsLocal(BlobOf(r)) => BlobOf(r) \in DOMAIN blobs /\ blobs[BlobOf(r)] = {}
        BY <1>10, <2>1 DEF FieldIntact
    <3>2. CASE IsLocal(BlobOf(r))
      <4>1. blobs' = [blobs EXCEPT ![BlobOf(r)] = {r}]
          BY <2>7, <3>1, <3>2 DEF WriteBlob
      <4>2. BlobOf(r) \in DOMAIN blobs' /\ blobs'[BlobOf(r)] = {r}
          BY <3>1, <3>2, <4>1
      <4>3. QED
          BY <2>5, <2>7, <4>2 DEF FieldIntact, Holds
    <3>3. CASE PutEnds(r)
      <4>1. BlobOf(r) \in DOMAIN blobs' /\ blobs'[BlobOf(r)] = {r}
          BY <3>1, <3>3 DEF PutEnds, Insert
      <4>2. QED
          BY <2>5, <2>7, <4>1 DEF FieldIntact, Holds
    <3>4. CASE ~IsLocal(BlobOf(r)) /\ UNCHANGED storageVars
        BY <2>5, <2>7, <3>1, <3>4 DEF FieldIntact, storageVars, IsLocal
    <3>5. QED
        BY <2>7, <3>1, <3>2, <3>3, <3>4 DEF WriteBlob
  <2>8. QED
      BY <2>2, <2>3, <2>5, <2>6, <2>7
<1>13. CASE DeleteEmptyBlob(r)
  <2>1. /\ UNCHANGED files /\ req[r].pc = "empty"
        /\ DeleteBlob(BlobOf(r))
      BY <1>13 DEF DeleteEmptyBlob, dbVars
  <2>2. /\ req'[r].pc = "emptied"
        /\ req'[r].file_index = req[r].file_index
        /\ req'[r].stored = req[r].stored
        /\ AtHand(r)' = AtHand(r)
      BY <1>1, <1>13 DEF DeleteEmptyBlob, Goto, RequestType, AtHand, Recorded
  <2>3. \A c : c # BlobOf(r) => Untouched(c)
      BY <2>1, DeleteTouches
  <2>4. StoredIntact(r)'
      BY <1>6, <1>9, <2>1, <2>2, <2>3
  <2>5. QED
      BY <2>2, <2>4 DEF FieldIntact
<1>14. CASE DeleteEmptyFile(r)
  <2>1. /\ DeleteFiles({req[r].file_id}) /\ req[r].pc = "emptied"
        /\ DropWriters({r}, {})
      BY <1>14 DEF DeleteEmptyFile
  <2>2. /\ req'[r].pc = "fields"
        /\ req'[r].file_index = req[r].file_index
        /\ req'[r].stored = req[r].stored
        /\ AtHand(r) = {req[r].file_id}
        /\ AtHand(r)' = {}
      BY <1>1, <1>14 DEF DeleteEmptyFile, RequestType, AtHand, Recorded
  <2>3. \A c : c # BlobOf(r) => Untouched(c)
      BY <1>10, <2>1, DropTouches
  <2>4. /\ DOMAIN files' = DOMAIN files \ {req[r].file_id}
        /\ \A g \in DOMAIN files' : files'[g] = files[g]
      BY <2>1 DEF DeleteFiles, Delete, Restrict
  <2>5. KeepsStored(r, t, attempt)
      BY <1>5, <2>2, <2>4 DEF KeepsStored, RowsOf
  <2>6. StoredIntact(r)'
      BY <1>9, <2>1, <2>2, <2>3, <2>5
  <2>7. QED
      BY <2>2, <2>6 DEF FieldIntact
<1>15. CASE StoreBlob(r)
  <2>1. /\ UNCHANGED files /\ req[r].pc = "copied"
        /\ FinalizeBlob(r)
      BY <1>15 DEF StoreBlob, dbVars
  <2>2. /\ req'[r].pc = "stored"
        /\ req'[r].file_index = req[r].file_index
        /\ req'[r].stored = req[r].stored
        /\ AtHand(r)' = AtHand(r)
      BY <1>1, <1>15 DEF StoreBlob, Goto, RequestType, AtHand, Recorded
  <2>3. \A c : c # BlobOf(r) => Untouched(c)
      BY <1>10, <2>1, FinalizeTouches
  <2>4. StoredIntact(r)' /\ BlobOf(r)' = BlobOf(r)
      BY <1>6, <1>9, <2>1, <2>2, <2>3
  <2>5. BlobOf(r) \in DOMAIN blobs' /\ blobs'[BlobOf(r)] = {r}
    <3>1. CASE open[r] # NULL /\ ~IsLocal(open[r])
        BY <1>10, <2>1, <3>1 DEF FinalizeBlob, PutEnds, Insert
    <3>2. CASE ~(open[r] # NULL /\ ~IsLocal(open[r]))
        BY <1>10, <2>1, <3>2 DEF FinalizeBlob, FieldIntact, Holds
    <3>3. QED
        BY <3>1, <3>2
  <2>6. QED
      BY <2>2, <2>4, <2>5 DEF FieldIntact, Holds
<1>16. CASE CompleteFile(r)
  <2>1. /\ FinaliseFileUpload(req[r].file_id, req[r].size)
        /\ req[r].pc = "stored"
        /\ UNCHANGED storageVars
      BY <1>2, <1>16 DEF CompleteFile
  <2>2. /\ req'[r].pc = "fields"
        /\ req'[r].stored = req[r].stored \cup {req[r].file_id}
        /\ AtHand(r) = {req[r].file_id}
        /\ AtHand(r)' = {}
      BY <1>1, <1>2, <1>16 DEF CompleteFile, RequestType, AtHand, Recorded
  <2>3. /\ req[r].file_id \in DOMAIN files
        /\ files[req[r].file_id].data = BlobOf(r)
      BY <2>1 DEF FinaliseFileUpload, CanFinaliseFile, RequestsMatch, Recorded
  <2>4. /\ DOMAIN files' = DOMAIN files
        /\ \A g \in DOMAIN files : files'[g].data = files[g].data
        /\ \A g \in DOMAIN files \ {req[r].file_id} : files'[g] = files[g]
        /\ files'[req[r].file_id].completed
      BY <1>1, <2>1 DEF FinaliseFileUpload, CanFinaliseFile, FileType
  <2>5. req[r].file_id \in RowsOf(t, attempt)
    <3>1. OfAttempt(BlobOf(r), t, attempt)
        BY <1>4, BlobOfIsOwn DEF OwnName, OfAttempt
    <3>2. QED
        BY <2>3, <3>1 DEF RowsOf, OfAttempt
  <2>6. RowsOf(t, attempt)' = RowsOf(t, attempt)
      BY <2>4 DEF RowsOf
  <2>7. (RowsOf(req[r].token_id, req[r].attempt_counter) \ AtHand(r))' = req'[r].stored
    <3>1. t = req'[r].token_id /\ attempt = req'[r].attempt_counter
        BY <1>3, <1>4
    <3>2. RowsOf(t, attempt)' = req'[r].stored
        BY <1>5, <2>2, <2>5, <2>6
    <3>3. QED
        BY <2>2, <3>1, <3>2 DEF RowsOf
  <2>8. \A f \in req'[r].stored : Holds(files[f].data, r)
      BY <2>1, <2>2, <2>3 DEF StoredIntact, FieldIntact
  <2>9. \A f \in req'[r].stored : files'[f].completed /\ files'[f].data = files[f].data
    <3>1. \A f \in req[r].stored : f # req[r].file_id /\ files[f].completed
        BY <1>5, <2>2 DEF StoredIntact
    <3>2. QED
        BY <1>5, <2>2, <2>3, <2>4, <3>1
  <2>10. StoredIntact(r)'
      BY <2>1, <2>2, <2>7, <2>8, <2>9 DEF StoredIntact, Holds, storageVars
  <2>11. QED
      BY <2>2, <2>10 DEF FieldIntact
<1>17. CASE EndOfBody(r)
  <2>1. /\ UNCHANGED files /\ UNCHANGED storageVars
        /\ req'[r].pc = "mark"
        /\ req'[r].stored = req[r].stored
        /\ AtHand(r)' = AtHand(r)
      BY <1>1, <1>2, <1>17 DEF EndOfBody, RequestType, dbVars, AtHand, Recorded
  <2>2. StoredIntact(r)'
      BY <1>3, <1>4, <1>6, <1>7, <2>1, StoredStays
  <2>3. QED
      BY <2>1, <2>2 DEF FieldIntact
<1>18. ~LookUpToken(r) /\ ~StartAttempt(r) /\ ~MarkTokenUsed(r) /\ ~Abort(r)
    BY <1>2 DEF LookUpToken, LookUpTokenAt, RefusePath, StartAttempt, MarkTokenUsed, Abort, Attempting
<1>19. QED
    BY <1>8, <1>11, <1>12, <1>13, <1>14, <1>15, <1>16, <1>17, <1>18 DEF UploadStep

\* A request that a step does not stop is the one that moves, or stays.
LEMMA OthersStay ==
    ASSUME TypeInv, Next, NEW r \in Requests, Attempting(r)', ~UploadStep(r)
    PROVE  req'[r] = req[r]
<1>1. ~ProcessEnds
    BY DEF ProcessEnds, Active, Blank, Attempting
<1>2. CASE Serve
    BY <1>2, UploadAdvances DEF Serve, GenerateToken, HandleUpload, OthersKeep
<1>3. CASE BackgroundCleanup \/ Tick \/ Crash \/ Restart
    BY <1>1, <1>3
       DEF BackgroundCleanup, CleanupFails, CleanupStep, SelectFiles, NothingToDelete,
           DeleteOneBlob, DeleteFileRows, DeleteTokens, Tick, Crash, Restart
<1>4. QED
    BY <1>2, <1>3 DEF Next

\* Nobody takes the writer of another upload away, save who deletes its blob.
LEMMA WriterStays ==
    ASSUME TypeInv, WritersOwn, TodoSelected, Next,
           NEW r \in Requests, Attempting(r)', ~UploadStep(r),
           NEW t, NEW attempt, OwnName(r, BlobOf(r)),
           t = req[r].token_id, attempt = req[r].attempt_counter, Spared(t, attempt)
    PROVE  open'[r] = open[r]
<1>1. open \in [Requests -> BlobType \cup {NULL}]
    BY DEF TypeInv, TypeOK, StorageTypeOK
<1>2. UNCHANGED storageVars => open'[r] = open[r]
    BY DEF storageVars
<1>3. open[r] # NULL => OfAttempt(open[r], t, attempt)
    BY DEF WritersOwn, OwnName, OfAttempt
<1>4. ASSUME NEW b, DeleteBlob(b), ~OfAttempt(b, t, attempt)
      PROVE  open'[r] = open[r]
    BY <1>1, <1>3, <1>4 DEF DeleteBlob
<1>5. ASSUME NEW q \in Requests, UploadStep(q)
      PROVE  open'[r] = open[r]
  <2>1. q # r
      BY <1>5
  <2>2. CASE NextField(q)
      BY <1>1, <2>1, <2>2 DEF NextField, OpenBlob
  <2>3. CASE RecordFile(q) \/ DeleteEmptyFile(q) \/ Abort(q)
      BY <1>1, <1>2, <2>1, <2>3 DEF RecordFile, DeleteEmptyFile, Abort, DropWriters
  <2>4. CASE CopyBytes(q)
      BY <1>1, <1>2, <2>1, <2>4 DEF CopyBytes, WriteBlob, PutEnds
  <2>5. CASE StoreBlob(q)
      BY <1>1, <2>1, <2>5 DEF StoreBlob, FinalizeBlob, PutEnds
  <2>6. CASE DeleteEmptyBlob(q)
    <3>1. Attempting(q) /\ req'[q] # req[q]
        BY <1>5, <2>6, UploadMoves DEF DeleteEmptyBlob, Attempting
    <3>2. ~OfAttempt(BlobOf(q), t, attempt)
        BY <3>1, BlobOfIsOwn DEF Spared, OwnName, OfAttempt
    <3>3. QED
        BY <1>4, <2>6, <3>2 DEF DeleteEmptyBlob
  <2>7. CASE \/ LookUpToken(q) \/ StartAttempt(q) \/ CompleteFile(q) \/ EndOfBody(q)
             \/ MarkTokenUsed(q)
      BY <1>2, <2>7
         DEF LookUpToken, LookUpTokenAt, RefusePath, StartAttempt, CompleteFile, EndOfBody, MarkTokenUsed
  <2>8. QED
      BY <1>5, <2>2, <2>3, <2>4, <2>5, <2>6, <2>7 DEF UploadStep
<1>6. CASE Serve
    BY <1>2, <1>5, <1>6 DEF Serve, GenerateToken, HandleUpload
<1>7. CASE CleanupStep
  <2>1. CASE DeleteOneBlob
      BY <1>4, <2>1 DEF DeleteOneBlob, TodoSelected, Spared
  <2>2. CASE SelectFiles \/ NothingToDelete \/ DeleteFileRows \/ DeleteTokens
      BY <1>2, <2>2 DEF SelectFiles, NothingToDelete, DeleteFileRows, DeleteTokens
  <2>3. QED
      BY <1>7, <2>1, <2>2 DEF CleanupStep
<1>8. ~ProcessEnds
    BY DEF ProcessEnds, Active, Blank, Attempting
<1>9. CASE CleanupFails \/ Tick \/ Crash \/ Restart
    BY <1>2, <1>8, <1>9 DEF CleanupFails, Tick, Crash, Restart
<1>10. QED
    BY <1>6, <1>7, <1>9 DEF Next, BackgroundCleanup

\* A link has one end, and the clock only goes forward.
LEMMA LinkEnds ==
    ASSUME TypeInv, Next
    PROVE  /\ clock \in Nat /\ clock' \in Nat /\ clock <= clock'
           /\ \A t \in DOMAIN tokens \cap DOMAIN tokens' :
                 tokens'[t].valid_until = tokens[t].valid_until
<1>1. /\ tokens \in [DOMAIN tokens -> TokenType]
      /\ clock \in Nat
    BY DEF TypeInv, TypeOK, DBTypeOK, TablesOK
<1>2. clock' \in Nat /\ clock <= clock'
    BY <1>1, StepKind DEF Creates, Starts, Dates, Marks, Deletes, Waits
<1> SUFFICES ASSUME NEW t \in DOMAIN tokens \cap DOMAIN tokens'
             PROVE  tokens'[t].valid_until = tokens[t].valid_until
    BY <1>1, <1>2
<1>3. CASE Creates
    BY <1>3, CreateKeeps DEF Creates
<1>4. CASE \E r \in Requests : Starts(r) \/ Dates(r) \/ Marks(r)
    BY <1>1, <1>4 DEF Starts, Dates, Marks, InitiateUpload, MarkUsed, TokenType
<1>5. CASE Deletes \/ Waits
    BY <1>5 DEF Deletes, Delete, Restrict, Waits
<1>6. QED
    BY <1>3, <1>4, <1>5, StepKind

\* An upload that goes on and holds its link held it before.
LEMMA HeldBefore ==
    ASSUME TypeInv, AttemptInv, Next, ~aliased', NEW r \in Requests,
           GoesOn(r), Held(r)'
    PROVE  Held(r)
<1>1. PICK t, attempt : t = req[r].token_id /\ attempt = req[r].attempt_counter
    OBVIOUS
<1>2. /\ t \in DOMAIN tokens'
      /\ tokens'[t].attempt_counter = attempt
      /\ clock' < tokens'[t].valid_until
    BY <1>1 DEF Held, GoesOn
<1>3. ~aliased /\ t \in DOMAIN tokens
    BY <1>1, <1>2, NewIdsAreFree
<1>4. /\ tokens[t].attempt_counter \in Nat
      /\ tokens[t].valid_until \in Nat
      /\ attempt \in Nat
    BY <1>1, <1>3 DEF TypeInv, TypeOK, DBTypeOK, TablesOK, TokenType, UploadTypeOK, RequestType
<1>5. attempt <= tokens[t].attempt_counter
    BY <1>1, <1>3 DEF AttemptInv, AttemptsBelowCounter, GoesOn
<1>6. tokens[t].attempt_counter <= attempt
    BY <1>2, <1>3, CountersGrow
<1>7. tokens[t].attempt_counter = attempt
    BY <1>4, <1>5, <1>6
<1>8. clock < tokens[t].valid_until
    BY <1>2, <1>3, <1>4, LinkEnds
<1>9. QED
    BY <1>1, <1>3, <1>7, <1>8 DEF Held, GoesOn

\* Nothing of an attempt that holds its link is selected, and no other
\* upload has it.
LEMMA HeldIsSpared ==
    ASSUME TypeInv, AttemptInv, ~aliased, SelectionDoomed,
           NEW r \in Requests, Held(r), req'[r] = req[r],
           NEW t, NEW attempt, t = req[r].token_id, attempt = req[r].attempt_counter
    PROVE  Spared(t, attempt)
<1>1. /\ t \in DOMAIN tokens
      /\ tokens[t].attempt_counter = attempt
      /\ clock < tokens[t].valid_until
      /\ ~tokens[t].used
    BY DEF Held, AttemptInv, UsedAttemptOver
<1>2. /\ attempt \in Nat
      /\ tokens[t].valid_until \in Nat
      /\ clock \in Nat
    BY <1>1 DEF TypeInv, TypeOK, DBTypeOK, TablesOK, TokenType
<1>3. \A file \in cleaner.sel : ~OfAttempt(file.data, t, attempt)
    BY <1>1, <1>2 DEF SelectionDoomed, OfAttempt, Lost
<1>4. \A q \in Requests :
          Attempting(q) /\ req[q].token_id = t /\ req[q].attempt_counter = attempt => q = r
    BY DEF AttemptInv, AttemptsDistinct, Held
<1>5. QED
    BY <1>3, <1>4 DEF Spared

\* Nor of the attempt that a page shows.
LEMMA ShownIsSpared ==
    ASSUME TypeInv, AttemptInv, ~aliased, SelectionDoomed,
           NEW t \in DOMAIN tokens, IsShown(t), ~tokens[t].late,
           NEW attempt, attempt = tokens[t].attempt_counter
    PROVE  Spared(t, attempt)
<1>1. attempt \in Nat
    BY DEF TypeInv, TypeOK, DBTypeOK, TablesOK, TokenType
<1>2. \A file \in cleaner.sel : ~OfAttempt(file.data, t, attempt)
    BY <1>1 DEF SelectionDoomed, OfAttempt, Lost, IsShown
<1>3. \A r \in Requests :
          ~(Attempting(r) /\ req[r].token_id = t /\ req[r].attempt_counter = attempt)
    BY DEF AttemptInv, UsedAttemptOver, IsShown
<1>4. QED
    BY <1>2, <1>3 DEF Spared

\* Every step leaves the uploads that hold their links with what they have
\* stored.
LEMMA HeldStep ==
    ASSUME TypeInv, AttemptInv, NameInv, RowInv, TodoSelected, NothingStoredYet,
           SelectionDoomed, HeldIntact, Next, ~aliased'
    PROVE  HeldIntact'
<1> SUFFICES ASSUME NEW r \in Requests, Held(r)'
             PROVE  StoredIntact(r)' /\ FieldIntact(r)'
    BY DEF HeldIntact
<1>1. /\ ~aliased
      /\ WritersOwn /\ NamesBelowCounter /\ NamesBehind
      /\ RequestsMatch /\ SelectionMatches
    BY NewIdsAreFree DEF NameInv, RowInv
<1>2. Attempting(r)'
    BY DEF Held
<1>3. CASE Takes(r)
  <2>1. UploadStep(r)
      BY <1>2, <1>3, OthersStay DEF Takes, Attempting
  <2>2. QED
      BY <1>1, <1>2, <1>3, <2>1, TakesIntact
<1>4. CASE GoesOn(r)
  <2>1. Held(r) /\ Attempting(r)
      BY <1>4, HeldBefore DEF GoesOn
  <2>2. StoredIntact(r) /\ FieldIntact(r)
      BY <2>1 DEF HeldIntact
  <2>3. CASE UploadStep(r)
      BY <1>1, <1>2, <2>1, <2>2, <2>3, OwnStep
  <2>4. CASE ~UploadStep(r)
    <3>1. PICK t, attempt : t = req[r].token_id /\ attempt = req[r].attempt_counter
        OBVIOUS
    <3>2. req'[r] = req[r]
        BY <1>2, <2>4, OthersStay
    <3>3. Spared(t, attempt)
        BY <1>1, <2>1, <3>1, <3>2, HeldIsSpared
    <3>4. /\ SameRows(t, attempt)
          /\ \A b : OfAttempt(b, t, attempt) => Untouched(b)
        BY <1>1, <3>3, SparedStays
    <3>5. OwnName(r, BlobOf(r))
        BY <2>1, BlobOfIsOwn
    <3>6. open'[r] = open[r]
        BY <1>1, <1>2, <2>4, <3>1, <3>3, <3>5, WriterStays
    <3>7. BlobOf(r)' = BlobOf(r)
        BY <3>2 DEF BlobOf
    <3>8. Untouched(BlobOf(r))
        BY <3>1, <3>4, <3>5 DEF OwnName, OfAttempt
    <3>9. FieldIntact(r)'
        BY <2>2, <3>2, <3>6, <3>7, <3>8 DEF FieldIntact, Holds, Untouched
    <3>10. \A f \in req[r].stored : OfAttempt(files[f].data, t, attempt)
        BY <2>2, <3>1 DEF StoredIntact, RowsOf, OfAttempt
    <3>11. req'[r].pc \notin {"fields", "mark"} =>
               \A f \in req[r].stored : files[f].data # BlobOf(r)'
        BY <2>2, <3>2, <3>7 DEF StoredIntact
    <3>12. KeepsStored(r, t, attempt)
        BY <2>2, <3>1, <3>2, <3>4 DEF SameRows, KeepsStored, StoredIntact, AtHand, Recorded
    <3>13. StoredIntact(r)'
        BY <2>2, <3>1, <3>2, <3>4, <3>10, <3>11, <3>12, StoredStays
    <3>14. QED
        BY <3>9, <3>13
  <2>5. QED
      BY <2>3, <2>4
<1>5. QED
    BY <1>2, <1>3, <1>4, RequestsAdvance DEF Advances

-----------------------------------------------------------------------------
(* What is published                                                       *)

\* Only the UPDATE of finalise_token_upload uses a token.
LEMMA UsedByMark ==
    ASSUME TypeInv, Next, NEW t \in DOMAIN tokens', tokens'[t].used,
           t \in DOMAIN tokens => ~tokens[t].used
    PROVE  /\ t \in DOMAIN tokens
           /\ \E r \in Requests : MarkTokenUsed(r) /\ Marks(r)
<1>1. tokens \in [DOMAIN tokens -> TokenType]
    BY DEF TypeInv, TypeOK, DBTypeOK, TablesOK
<1>2. ASSUME NEW path, NEW o, CreateToken(path, o) PROVE FALSE
  <2>1. PICK u \in RowIds :
            /\ DOMAIN tokens' = DOMAIN tokens \cup {u}
            /\ tokens'[u].used = FALSE
            /\ \A v \in DOMAIN tokens \ {u} : tokens'[v] = tokens[v]
      BY <1>2 DEF CreateToken, Insert
  <2>2. QED
      BY <2>1
<1>3. ~Creates
    BY <1>2 DEF Creates
<1>4. \A r \in Requests : ~Starts(r) /\ ~Dates(r)
    BY <1>1 DEF Starts, Dates, InitiateUpload, TokenType
<1>5. ~Deletes /\ ~Waits
    BY DEF Deletes, Delete, Restrict, Waits
<1>6. PICK r \in Requests : Marks(r)
    BY <1>3, <1>4, <1>5, StepKind
<1>7. t \in DOMAIN tokens /\ ~UNCHANGED tokens
    BY <1>1, <1>6 DEF Marks, MarkUsed
<1>8. Attempting(r) /\ ~Attempting(r)'
    BY <1>6 DEF Marks, Attempting
<1>9. req' # req
    BY <1>8 DEF Attempting
<1>10. ~ProcessEnds
    BY <1>7 DEF ProcessEnds, dbVars
<1>11. Serve
    BY <1>7, <1>9, <1>10
       DEF Next, BackgroundCleanup, CleanupFails, CleanupStep, SelectFiles, NothingToDelete,
           DeleteOneBlob, DeleteFileRows, DeleteTokens, Tick, Crash, Restart, dbVars
<1>12. PICK q \in Requests : UploadStep(q)
    BY <1>9, <1>11 DEF Serve, GenerateToken, HandleUpload
<1>13. q = r
    BY <1>8, <1>12, UploadAdvances DEF OthersKeep, Attempting
<1>14. MarkTokenUsed(r)
    BY <1>6, <1>7, <1>12, <1>13
       DEF Marks, UploadStep, LookUpToken, LookUpTokenAt, RefusePath, StartAttempt, NextField, RecordFile,
           CopyBytes, DeleteEmptyBlob, DeleteEmptyFile, StoreBlob, CompleteFile, EndOfBody,
           Abort, dbVars
<1>15. QED
    BY <1>6, <1>7, <1>14

\* An upload that marks its token used in time publishes what it holds.
LEMMA MarkPublishes ==
    ASSUME TypeInv, HeldIntact, NEW r \in Requests, MarkTokenUsed(r),
           NEW t \in DOMAIN tokens, ~tokens[t].used, tokens'[t].used, ~tokens'[t].late,
           UNCHANGED clock
    PROVE  RowsIntact(t)'
<1>1. tokens \in [DOMAIN tokens -> TokenType]
    BY DEF TypeInv, TypeOK, DBTypeOK, TablesOK
<1>2. PICK attempt : attempt = req[r].attempt_counter
    OBVIOUS
<1>3. /\ MarkUsed(req[r].token_id, req[r].attempt_counter, req[r].expires_at,
                  req[r].stored, r)
      /\ req[r].pc = "mark"
      /\ UNCHANGED storageVars
    BY DEF MarkTokenUsed
<1>4. UNCHANGED files
    BY <1>3 DEF MarkUsed
<1>5. t = req[r].token_id /\ tokens[t].attempt_counter = attempt
    BY <1>1, <1>2, <1>3 DEF MarkUsed
<1>6. tokens'[t] = [tokens[t] EXCEPT !.used = TRUE,
                                     !.content_expires_at = req[r].expires_at,
                                     !.published = req[r].stored,
                                     !.by = r,
                                     !.late = (tokens[t].valid_until <= clock)]
    BY <1>1, <1>2, <1>3, <1>5 DEF MarkUsed
<1>7. tokens[t] \in TokenType
    BY <1>1
<1>8. /\ tokens'[t].attempt_counter = attempt
      /\ tokens'[t].published = req[r].stored
      /\ tokens'[t].by = r
      /\ tokens'[t].late = (tokens[t].valid_until <= clock)
    BY <1>5, <1>6, <1>7 DEF TokenType
<1>9. clock < tokens[t].valid_until
  <2>1. tokens[t].valid_until \in Nat /\ clock \in Nat
      BY <1>7 DEF TokenType, TypeInv, TypeOK, DBTypeOK
  <2>2. ~(tokens[t].valid_until <= clock)
      BY <1>8, Zenon
  <2>3. QED
      BY <2>1, <2>2
<1>10. Held(r)
    BY <1>2, <1>3, <1>5, <1>9 DEF Held, Attempting
<1>11. /\ RowsOf(t, attempt) = req[r].stored
       /\ \A f \in req[r].stored : files[f].completed /\ Holds(files[f].data, r)
    BY <1>2, <1>3, <1>5, <1>10 DEF HeldIntact, StoredIntact, AtHand, Recorded
<1>12. RowsOf(t, attempt)' = RowsOf(t, attempt)
    BY <1>4 DEF RowsOf
<1>13. RowsOf(t, tokens[t].attempt_counter)' = RowsOf(t, attempt)'
    BY <1>8 DEF RowsOf
<1>14. QED
    BY <1>3, <1>4, <1>8, <1>11, <1>12, <1>13 DEF RowsIntact, Holds, storageVars

\* The rows and blobs that a page shows stay for as long as it shows them.
LEMMA ShownKeeps ==
    ASSUME TypeInv, AttemptInv, NameInv, RowInv, TodoSelected, SelectionDoomed, ShownStored,
           Next, ~aliased', NEW t \in DOMAIN tokens \cap DOMAIN tokens',
           IsShown(t), ~tokens[t].late
    PROVE  /\ tokens'[t] = tokens[t]
           /\ RowsIntact(t) /\ RowsIntact(t)'
           /\ \A f \in tokens[t].published : files'[f] = files[f]
<1>1. /\ ~aliased
      /\ WritersOwn /\ RequestsMatch /\ SelectionMatches
    BY NewIdsAreFree DEF NameInv, RowInv
<1>2. tokens'[t] = tokens[t]
    BY UsedStep DEF IsShown
<1>3. RowsIntact(t)
    BY DEF ShownStored
<1>4. PICK attempt : attempt = tokens[t].attempt_counter
    OBVIOUS
<1>5. Spared(t, attempt)
    BY <1>1, <1>4, ShownIsSpared
<1>6. /\ SameRows(t, attempt)
      /\ \A b : OfAttempt(b, t, attempt) => Untouched(b)
    BY <1>1, <1>5, SparedStays
<1>7. RowsOf(t, attempt) = tokens[t].published
    BY <1>3, <1>4 DEF RowsIntact
<1>8. \A f \in tokens[t].published :
          files'[f] = files[f] /\ Untouched(files[f].data)
    BY <1>6, <1>7 DEF SameRows, RowsOf, OfAttempt
<1>9. RowsOf(t, tokens[t].attempt_counter)' = tokens'[t].published
  <2>1. RowsOf(t, attempt)' = tokens'[t].published
      BY <1>2, <1>6, <1>7 DEF SameRows
  <2>2. attempt = tokens'[t].attempt_counter
      BY <1>2, <1>4
  <2>3. QED
      BY <2>1, <2>2 DEF RowsOf
<1>10. \A f \in tokens'[t].published :
           /\ files'[f].completed
           /\ files'[f].data \in DOMAIN blobs' /\ blobs'[files'[f].data] = {tokens'[t].by}
    BY <1>2, <1>3, <1>8 DEF RowsIntact, Holds, Untouched
<1>11. RowsIntact(t)'
    BY <1>9, <1>10 DEF RowsIntact, Holds
<1>12. QED
    BY <1>2, <1>3, <1>8, <1>11

\* Every step leaves the pages with what their uploads gave them.
LEMMA ShownStep ==
    ASSUME TypeInv, AttemptInv, NameInv, RowInv, TodoSelected,
           SelectionDoomed, HeldIntact, ShownStored, Next, ~aliased'
    PROVE  ShownStored'
<1> SUFFICES ASSUME NEW t \in DOMAIN tokens', IsShown(t)', ~tokens'[t].late
             PROVE  RowsIntact(t)'
    BY DEF ShownStored
<1>1. tokens'[t].used
    BY DEF IsShown
<1>2. CASE t \in DOMAIN tokens /\ tokens[t].used
  <2>1. tokens'[t] = tokens[t]
      BY <1>2, UsedStep
  <2>2. tokens[t].content_expires_at \in Nat \cup {NULL}
      BY <1>2 DEF TypeInv, TypeOK, DBTypeOK, TablesOK, TokenType
  <2>3. IsShown(t) /\ ~tokens[t].late
      BY <1>2, <2>1, <2>2, LinkEnds DEF IsShown, SqlLeq
  <2>4. QED
      BY <1>2, <2>3, ShownKeeps
<1>3. CASE t \in DOMAIN tokens => ~tokens[t].used
  <2>1. PICK r \in Requests : MarkTokenUsed(r) /\ Marks(r) /\ t \in DOMAIN tokens
      BY <1>1, <1>3, UsedByMark
  <2>2. UNCHANGED clock
      BY <2>1 DEF Marks
  <2>3. QED
      BY <1>1, <1>3, <2>1, <2>2, MarkPublishes
<1>4. QED
    BY <1>2, <1>3

\* At first there is no link, no attempt and no selection.
LEMMA PublishInit == Init => PublishInv
BY DEF Init, DBInit, UploadInit, CleanupInit, Asleep, Blank, PublishInv, UnusedUndated,
       TodoSelected, NothingStoredYet, SelectionDoomed, HeldIntact, Held, Attempting,
       ShownStored

\* Every step keeps all of it.
LEMMA PublishStep ==
    TypeInv /\ AttemptInv /\ NameInv /\ RowInv /\ PublishInv /\ [Next]_vars
        => PublishInv'
<1> SUFFICES ASSUME TypeInv, AttemptInv, NameInv, RowInv, PublishInv, [Next]_vars
             PROVE  PublishInv'
    OBVIOUS
<1>1. CASE UNCHANGED vars
  <2>1. UnusedUndated' /\ TodoSelected' /\ NothingStoredYet'
      BY <1>1 DEF vars, PublishInv, UnusedUndated, TodoSelected, NothingStoredYet, Attempting
  <2>2. SelectionDoomed => SelectionDoomed'
      BY <1>1 DEF vars, SelectionDoomed, Lost
  <2>3. HeldIntact => HeldIntact'
      BY <1>1 DEF vars, HeldIntact, Held, Attempting, StoredIntact, FieldIntact, RowsOf, AtHand,
                  Recorded, Holds, BlobOf
  <2>4. ShownStored => ShownStored'
      BY <1>1 DEF vars, ShownStored, RowsIntact, IsShown, RowsOf, Holds
  <2>5. QED
      BY <1>1, <2>1, <2>2, <2>3, <2>4 DEF vars, PublishInv
<1>2. CASE Next
  <2>1. UnusedUndated /\ TodoSelected /\ NothingStoredYet
      BY DEF PublishInv
  <2>2. UnusedUndated' /\ TodoSelected' /\ NothingStoredYet'
      BY <1>2, <2>1, UndatedStep, SelectionStep, StoredStep
  <2>3. SUFFICES ASSUME ~aliased' PROVE (SelectionDoomed /\ HeldIntact /\ ShownStored)'
      BY <2>2 DEF PublishInv
  <2>4. SelectionDoomed /\ HeldIntact /\ ShownStored
      BY <1>2, <2>3, NewIdsAreFree DEF PublishInv
  <2>5. QED
      BY <1>2, <2>1, <2>3, <2>4, DoomedStep, HeldStep, ShownStep
<1>3. QED
    BY <1>1, <1>2

-----------------------------------------------------------------------------
(* What the visitors see                                                   *)

\* The JOIN of get_files finds all the rows that were published.
ShownIntact ==
    \A t \in DOMAIN tokens : IsShown(t) /\ ~tokens[t].late => TokenIntact(t)

\* A page whose rows are completed lists them all,
LEMMA ShownIsIntact ==
    ASSUME FileInv, ShownStored
    PROVE  ShownIntact
<1> SUFFICES ASSUME NEW t \in DOMAIN tokens, IsShown(t), ~tokens[t].late
             PROVE  TokenIntact(t)
    BY DEF ShownIntact
<1>1. /\ RowsOf(t, tokens[t].attempt_counter) = tokens[t].published
      /\ \A f \in tokens[t].published :
            files[f].completed /\ Holds(files[f].data, tokens[t].by)
    BY DEF ShownStored, RowsIntact
<1>2. ListedFiles(t) = tokens[t].published
    BY <1>1 DEF ListedFiles, RowsOf, FileInv, CompletedIffMetadata
<1>3. QED
    BY <1>1, <1>2 DEF TokenIntact, Holds

\* ... after a step, too.
LEMMA ShownIsIntactNext ==
    ASSUME FileInv', ShownStored'
    PROVE  ShownIntact'
<1> SUFFICES ASSUME NEW t \in DOMAIN tokens', IsShown(t)', ~tokens'[t].late
             PROVE  TokenIntact(t)'
    BY DEF ShownIntact
<1>1. /\ RowsOf(t, tokens[t].attempt_counter)' = tokens'[t].published
      /\ \A f \in tokens'[t].published :
            files'[f].completed /\ Holds(files[f].data, tokens[t].by)'
    BY DEF ShownStored, RowsIntact
<1>2. ListedFiles(t)' = tokens'[t].published
    BY <1>1 DEF ListedFiles, RowsOf, FileInv, CompletedIffMetadata
<1>3. QED
    BY <1>1, <1>2 DEF TokenIntact, Holds

\* The page of a used token lists exactly the files that its one upload has
\* completed, each with its blob and with the bytes of this upload alone,
\* until the content expires: no other upload, no cleanup and no crash of the
\* server changes that, as long as the upload was not late and no rowid was
\* handed out while it was in use.
THEOREM PublishedHolds == Spec => []PublishedIntact
<1>1. Init => FileInv /\ PublishInv
    BY FileInit, PublishInit
<1>2. TypeInv /\ AttemptInv /\ NameInv /\ RowInv /\ FileInv /\ PublishInv /\ [Next]_vars
          => (FileInv /\ PublishInv)'
    BY FileStep, PublishStep
<1>3. FileInv /\ PublishInv => PublishedIntact
    BY ShownIsIntact DEF PublishInv, ShownIntact, PublishedIntact
<1>4. QED
    BY <1>1, <1>2, <1>3, NamesHold, PTL DEF Spec
=============================================================================
