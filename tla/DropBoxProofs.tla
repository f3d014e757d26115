---------------------------- MODULE DropBoxProofs ----------------------------
(***************************************************************************)
(* The server implements the drop box, for any number of requests and rows *)
(* and for links whose content outlives them.  What a page shows is what   *)
(* its upload gave it (PublishProofs), so a box is told from its row and   *)
(* the clock alone, and a step of the server is judged by what it does to  *)
(* these two.                                                              *)
(***************************************************************************)
EXTENDS PublishProofs, VracDropBox

\* The pass works with a date that is past.
NowPassed == cleaner.now <= clock

\* The date that an upload has computed is one that the box may be kept until.
DatesFit ==
    \A r \in Requests :
        req[r].pc = "mark" /\ req[r].token_id \in DOMAIN tokens =>
            req[r].expires_at
                \in Promise!Until(tokens[req[r].token_id].content_expires_after_hours)

\* An upload that has counted bytes has stored a file, once the field is over.
Saved(x) ==
    /\ x.pc \in {"idle", "valid", "done"} => x.total = 0
    /\ x.pc = "mark" => x.total > 0
    /\ x.total > 0 /\ x.pc \notin {"copied", "stored"} => x.stored # {}

BytesSaved == \A r \in Requests : Saved(req[r])

SealInv == NowPassed /\ BytesSaved /\ (~aliased => DatesFit)

-----------------------------------------------------------------------------
(* What the dates and the bytes of an upload come to                       *)

\* The clock does not go back, and a pass starts with the date of the day.
LEMMA NowStep ==
    ASSUME TypeInv, NowPassed, Next
    PROVE  NowPassed'
<1>1. cleaner \in CleanerType /\ cleaner.now \in Nat
    BY DEF TypeInv, TypeOK, CleanupTypeOK, CleanerType
<1>2. clock \in Nat /\ clock' \in Nat /\ clock <= clock'
    BY LinkEnds
<1>3. SUFFICES cleaner'.now = cleaner.now \/ cleaner'.now = 0 \/ cleaner'.now = clock
    BY <1>1, <1>2 DEF NowPassed
<1>4. cleaner' = Asleep => cleaner'.now = 0
    BY DEF Asleep
<1>5. CASE Serve \/ Tick \/ Restart
    BY <1>5 DEF Serve, GenerateToken, HandleUpload, Tick, Restart
<1>6. DeleteOneBlob \/ DeleteFileRows => cleaner'.now = cleaner.now
    BY <1>1 DEF DeleteOneBlob, DeleteFileRows, CleanerType
<1>7. SelectFiles => cleaner'.now = clock
    BY DEF SelectFiles
<1>8. CASE BackgroundCleanup \/ Crash
    BY <1>4, <1>6, <1>7, <1>8
       DEF BackgroundCleanup, CleanupStep, NothingToDelete, DeleteTokens, CleanupFails,
           Crash, ProcessEnds
<1>9. QED
    BY <1>5, <1>8 DEF Next

\* The bytes that an upload counts end up in a row, or end the upload.
LEMMA BytesStep ==
    ASSUME TypeInv, BytesSaved, Next
    PROVE  BytesSaved'
<1>1. /\ req \in [Requests -> RequestType]
      /\ \A r \in Requests : req[r].total \in Nat
    BY DEF TypeInv, TypeOK, UploadTypeOK, RequestType
<1>2. UNCHANGED req => BytesSaved'
    BY DEF BytesSaved
<1>3. ASSUME ProcessEnds PROVE BytesSaved'
    BY <1>1, <1>3 DEF ProcessEnds, Blank, BytesSaved, Saved
<1>4. ASSUME NEW r \in Requests, UploadStep(r) PROVE BytesSaved'
  <2>1. \A q \in Requests \ {r} : req'[q] = req[q]
      BY <1>4, UploadAdvances DEF OthersKeep
  <2>2. SUFFICES Saved(req'[r])
      BY <2>1 DEF BytesSaved
  <2>3. Saved(req[r])
      BY DEF BytesSaved
  <2>4. Return(r) => Saved(req'[r])
      BY <1>1 DEF Return, Blank, Saved
  <2>5. ASSUME NEW t, LookUpToken(r),
               req' = [req EXCEPT ![r].pc = "valid", ![r].token_id = t,
                                  ![r].backend_type = tokens[t].backend_type]
        PROVE  Saved(req'[r])
    <3>1. req'[r].pc = "valid" /\ req'[r].total = req[r].total /\ req[r].pc = "idle"
        BY <1>1, <2>5 DEF RequestType, LookUpToken, LookUpTokenAt, RefusePath
    <3>2. QED
        BY <2>3, <3>1 DEF Saved
  <2>6. CASE LookUpToken(r)
      BY <2>4, <2>5, <2>6 DEF LookUpToken, LookUpTokenAt, RefusePath
  <2>7. CASE StartAttempt(r)
      BY <1>1, <2>3, <2>4, <2>7 DEF StartAttempt, Saved, RequestType
  <2>8. CASE NextField(r)
      BY <1>1, <2>3, <2>8 DEF NextField, Saved, RequestType
  <2>9. CASE RecordFile(r)
      BY <1>1, <2>3, <2>4, <2>9 DEF RecordFile, Saved, RequestType
  <2>10. CASE CopyBytes(r)
      BY <1>1, <2>3, <2>10 DEF CopyBytes, Goto, Saved, RequestType
  <2>11. CASE DeleteEmptyBlob(r) \/ DeleteEmptyFile(r) \/ StoreBlob(r)
      BY <1>1, <2>3, <2>11
         DEF DeleteEmptyBlob, DeleteEmptyFile, StoreBlob, Goto, Saved, RequestType
  <2>12. CASE CompleteFile(r)
    <3>1. CASE ~Return(r)
      <4>1. /\ req'[r].pc = "fields"
            /\ req'[r].stored = req[r].stored \cup {req[r].file_id}
          BY <1>1, <2>12, <3>1 DEF CompleteFile, RequestType
      <4>2. QED
          BY <4>1 DEF Saved
    <3>2. QED
        BY <2>4, <3>1
  <2>13. CASE EndOfBody(r)
      BY <1>1, <2>3, <2>4, <2>13 DEF EndOfBody, Saved, RequestType
  <2>14. CASE MarkTokenUsed(r) \/ Abort(r)
      BY <2>4, <2>14 DEF MarkTokenUsed, Abort
  <2>15. QED
      BY <1>4, <2>6, <2>7, <2>8, <2>9, <2>10, <2>11, <2>12, <2>13, <2>14 DEF UploadStep
<1>5. CASE Serve
    BY <1>2, <1>4, <1>5 DEF Serve, GenerateToken, HandleUpload
<1>6. CASE BackgroundCleanup
    BY <1>2, <1>3, <1>6
       DEF BackgroundCleanup, CleanupFails, CleanupStep, SelectFiles, NothingToDelete,
           DeleteOneBlob, DeleteFileRows, DeleteTokens
<1>7. CASE Tick \/ Crash \/ Restart
    BY <1>2, <1>3, <1>7 DEF Tick, Crash, Restart
<1>8. QED
    BY <1>5, <1>6, <1>7 DEF Next

\* A link keeps its hours.
LEMMA HoursStay ==
    ASSUME TypeInv, Next, NEW t \in DOMAIN tokens \cap DOMAIN tokens'
    PROVE  tokens'[t].content_expires_after_hours = tokens[t].content_expires_after_hours
<1>1. tokens \in [DOMAIN tokens -> TokenType]
    BY DEF TypeInv, TypeOK, DBTypeOK, TablesOK
<1>2. CASE Creates
    BY <1>2, CreateKeeps DEF Creates
<1>3. CASE \E r \in Requests : Starts(r) \/ Dates(r) \/ Marks(r)
    BY <1>1, <1>3 DEF Starts, Dates, Marks, InitiateUpload, MarkUsed, TokenType
<1>4. CASE Deletes \/ Waits
    BY <1>4 DEF Deletes, Delete, Restrict, Waits
<1>5. QED
    BY <1>2, <1>3, <1>4, StepKind

\* An upload computes one date, and the clock that it was computed with is
\* past from then on.
LEMMA DatesStep ==
    ASSUME TypeInv, DatesFit, Next, ~aliased'
    PROVE  DatesFit'
<1> SUFFICES ASSUME NEW r \in Requests, req'[r].pc = "mark", req'[r].token_id \in DOMAIN tokens'
             PROVE  req'[r].expires_at \in
                        Promise!Until(tokens[req[r].token_id].content_expires_after_hours)'
    BY DEF DatesFit
<1>1. PICK t : t = req'[r].token_id
    OBVIOUS
<1>2. clock \in Nat /\ clock' \in Nat /\ clock <= clock'
    BY LinkEnds
<1>3. \A u \in DOMAIN tokens :
          tokens[u].content_expires_after_hours \in Nat \cup {NULL}
    BY DEF TypeInv, TypeOK, DBTypeOK, TablesOK, TokenType
<1>4. SUFFICES /\ t \in DOMAIN tokens
               /\ req'[r].expires_at \in Promise!Until(tokens[t].content_expires_after_hours)
  <2>1. tokens'[t].content_expires_after_hours = tokens[t].content_expires_after_hours
      BY <1>1, <1>4, HoursStay
  <2>2. QED
      BY <1>1, <1>2, <1>3, <1>4, <2>1 DEF Promise!Until
<1>5. req[r].token_id = t => t \in DOMAIN tokens
    BY <1>1, NewIdsAreFree
<1>6. ASSUME Attempting(r), req[r].pc = "mark", req'[r].expires_at = req[r].expires_at,
             req[r].token_id = t
      PROVE  /\ t \in DOMAIN tokens
             /\ req'[r].expires_at \in Promise!Until(tokens[t].content_expires_after_hours)
    BY <1>5, <1>6 DEF DatesFit
<1>7. CASE Dates(r)
    BY <1>1, <1>2, <1>3, <1>7 DEF Dates, ContentExpiry, Promise!Until
<1>8. CASE Creates \/ Deletes \/ \E q \in Requests \ {r} : Starts(q) \/ Dates(q) \/ Marks(q)
    BY <1>1, <1>6, <1>8 DEF Creates, Deletes, Starts, Dates, Marks, OthersKeep, Attempting
<1>9. CASE Waits
    BY <1>1, <1>6, <1>9 DEF Waits, Keeps, Attempting
<1>10. ~Starts(r) /\ ~Marks(r)
    BY DEF Starts, Marks, Attempting
<1>11. QED
    BY <1>7, <1>8, <1>9, <1>10, StepKind

\* Every step keeps all three.
LEMMA SealStep == TypeInv /\ SealInv /\ [Next]_vars => SealInv'
<1> SUFFICES ASSUME TypeInv, SealInv, [Next]_vars PROVE SealInv'
    OBVIOUS
<1>1. CASE UNCHANGED vars
  <2>1. NowPassed' /\ BytesSaved'
      BY <1>1 DEF vars, SealInv, NowPassed, BytesSaved
  <2>2. DatesFit => DatesFit'
      BY <1>1 DEF vars, DatesFit, Promise!Until
  <2>3. QED
      BY <1>1, <2>1, <2>2 DEF vars, SealInv
<1>2. CASE Next
    BY <1>2, NowStep, BytesStep, DatesStep, NewIdsAreFree DEF SealInv
<1>3. QED
    BY <1>1, <1>2

-----------------------------------------------------------------------------
(* What a box is told from                                                 *)

\* The content of a box, from its row and the clock alone
Gift(t) ==
    IF IsShown(t) /\ ~tokens[t].late
    THEN [f \in tokens[t].published |-> {tokens[t].by}]
    ELSE [f \in {} |-> {}]

\* A page that is intact shows what its upload gave it,
LEMMA ShownIsGift ==
    ASSUME ShownIntact, NEW t \in DOMAIN tokens
    PROVE  ShownContent(t) = Gift(t)
BY DEF ShownIntact, TokenIntact, ShownContent, Gift

\* ... before and after a step.
LEMMA ShownIsGiftNext ==
    ASSUME ShownIntact', NEW t \in DOMAIN tokens'
    PROVE  ShownContent(t)' = Gift(t)'
BY DEF ShownIntact, TokenIntact, ShownContent, Gift

\* The boxes of the refinement mapping
Boxes == [t \in IF aliased THEN {} ELSE DOMAIN tokens |-> BoxOf(t)]

\* A row that a step leaves alone is the same box, unless its content is
\* over by then.
LEMMA BoxStays ==
    ASSUME ShownIntact, ShownIntact', NEW t \in DOMAIN tokens \cap DOMAIN tokens',
           tokens'[t] = tokens[t], IsShown(t)' <=> IsShown(t)
    PROVE  BoxOf(t)' = BoxOf(t)
<1>1. ShownContent(t) = Gift(t) /\ ShownContent(t)' = Gift(t)'
    BY ShownIsGift, ShownIsGiftNext
<1>2. Gift(t)' = Gift(t)
    BY DEF Gift
<1>3. QED
    BY <1>1, <1>2 DEF BoxOf

\* Nothing is in a box that is not sealed, before and after a step.
LEMMA UnsealedEmpty ==
    /\ \A t : ~tokens[t].used => ShownContent(t) = [f \in {} |-> {}]
    /\ \A t : ~tokens'[t].used => ShownContent(t)' = [f \in {} |-> {}]
BY DEF ShownContent, IsShown

\* A row that stays within the hour is the same box.
LEMMA BoxStaysNow ==
    ASSUME ShownIntact, ShownIntact', NEW t \in DOMAIN tokens \cap DOMAIN tokens',
           tokens'[t] = tokens[t], UNCHANGED clock
    PROVE  BoxOf(t)' = BoxOf(t)
BY BoxStays DEF IsShown

-----------------------------------------------------------------------------
(* What each kind of step does to the boxes                                *)

\* create_token offers a box at a path that has no live one.
LEMMA CreateOffers ==
    ASSUME TypeInv, ShownIntact, ShownIntact', UsedExpiryCoversLink,
           ~aliased, ~aliased', UNCHANGED clock,
           NEW path \in Paths, NEW o \in Options, CreateToken(path, o)
    PROVE  \E t \in RowIds : Promise!Offer(t, path, o)
<1> DEFINE row == [path |-> path,
                   valid_until |-> clock + o.valid_for,
                   content_expires_after_hours |-> o.content_expires_after_hours,
                   max_size |-> o.max_size,
                   backend_type |-> o.backend_type,
                   attempt_counter |-> 0,
                   used |-> FALSE,
                   content_expires_at |-> NULL,
                   published |-> {}, by |-> NULL, late |-> FALSE]
<1>1. PICK t \in RowIds : IsNextRowId(tokens, t) /\ tokens' = Insert(tokens, t, row)
    BY DEF CreateToken
<1>2. t \notin DOMAIN tokens
    BY <1>1 DEF IsNextRowId, RowIds
<1> HIDE DEF row
<1>3. /\ DOMAIN tokens' = DOMAIN tokens \cup {t}
      /\ tokens'[t] = row
      /\ \A u \in DOMAIN tokens : tokens'[u] = tokens[u]
    BY <1>1, <1>2 DEF Insert
<1>4. \A u \in DOMAIN tokens : BoxOf(u)' = BoxOf(u)
    BY <1>3, BoxStaysNow
<1>5. BoxOf(t)' = [path |-> path, sealed |-> FALSE,
                   until |-> clock + o.valid_for,
                   hours |-> o.content_expires_after_hours,
                   content |-> [f \in {} |-> {}]]
  <2>1. /\ row.path = path
        /\ row.used = FALSE
        /\ row.valid_until = clock + o.valid_for
        /\ row.content_expires_after_hours = o.content_expires_after_hours
      BY DEF row
  <2>2. ShownContent(t)' = [f \in {} |-> {}]
      BY <1>3, <2>1, UnsealedEmpty
  <2>3. QED
      BY <1>3, <2>1, <2>2 DEF BoxOf
<1>6. \A u \in DOMAIN tokens : tokens[u].path = path => ~IsLive(u)
    BY NotFoundNotLive DEF CreateToken
<1>7. \A u \in DOMAIN tokens : BoxOf(u).path = path => ~Promise!IsLive(BoxOf(u))
  <2>1. \A u \in DOMAIN tokens :
            /\ BoxOf(u).path = tokens[u].path
            /\ BoxOf(u).sealed = tokens[u].used
            /\ tokens[u].used => BoxOf(u).until = tokens[u].content_expires_at
      BY DEF BoxOf
  <2>2. QED
      BY <1>6, <2>1 DEF IsLive, SqlLeq, Promise!IsLive, Promise!IsOver
<1>8. Boxes' = [u \in DOMAIN Boxes \cup {t} |->
                   IF u # t THEN Boxes[u]
                   ELSE [path |-> path, sealed |-> FALSE,
                         until |-> clock + o.valid_for,
                         hours |-> o.content_expires_after_hours,
                         content |-> [f \in {} |-> {}]]]
    BY <1>2, <1>3, <1>4, <1>5 DEF Boxes
<1>9. /\ t \notin DOMAIN Boxes
      /\ \A u \in DOMAIN Boxes : Boxes[u].path = path => ~Promise!IsLive(Boxes[u])
    BY <1>2, <1>7 DEF Boxes
<1>10. Promise!Offer(t, path, o)
    BY <1>8, <1>9 DEF Promise!Offer, Promise!Nothing, Boxes
<1>11. QED
    BY <1>10

\* The UPDATE of finalise_token_upload seals a box with the files of one
\* upload, or matches no row.
LEMMA MarkSeals ==
    ASSUME TypeInv, AttemptInv, ShownIntact, ShownIntact', BytesSaved, DatesFit,
           ~aliased, ~aliased', NEW r \in Requests, Marks(r)
    PROVE  \/ UNCHANGED Boxes
           \/ \E t \in DOMAIN Boxes : \E until \in Promise!Until(Boxes[t].hours) :
                 Promise!Seal(t, until)
<1>1. tokens \in [DOMAIN tokens -> TokenType]
    BY DEF TypeInv, TypeOK, DBTypeOK, TablesOK
<1>2. /\ UNCHANGED clock
      /\ req[r].pc = "mark"
      /\ MarkUsed(req[r].token_id, req[r].attempt_counter, req[r].expires_at,
                  req[r].stored, r)
    BY DEF Marks
<1>3. CASE UNCHANGED tokens
  <2>1. \A t \in DOMAIN tokens : BoxOf(t)' = BoxOf(t)
      BY <1>2, <1>3, BoxStaysNow
  <2>2. QED
      BY <1>3, <2>1 DEF Boxes
<1>4. CASE ~UNCHANGED tokens
  <2>1. PICK t : t = req[r].token_id
      OBVIOUS
  <2>2. PICK until : until = req[r].expires_at
      OBVIOUS
  <2>3. /\ t \in DOMAIN tokens
        /\ tokens[t].attempt_counter = req[r].attempt_counter
        /\ tokens' = [tokens EXCEPT ![t].used = TRUE,
                                    ![t].content_expires_at = until,
                                    ![t].published = req[r].stored,
                                    ![t].by = r,
                                    ![t].late = (tokens[t].valid_until <= clock)]
      BY <1>2, <1>4, <2>1, <2>2 DEF MarkUsed
  <2>4. ~tokens[t].used
      BY <1>2, <2>1, <2>3 DEF AttemptInv, UsedAttemptOver, Attempting
  <2>5. /\ DOMAIN tokens' = DOMAIN tokens
        /\ \A u \in DOMAIN tokens \ {t} : tokens'[u] = tokens[u]
        /\ tokens'[t] = [tokens[t] EXCEPT !.used = TRUE,
                                          !.content_expires_at = until,
                                          !.published = req[r].stored,
                                          !.by = r,
                                          !.late = (tokens[t].valid_until <= clock)]
      BY <1>1, <2>3
  <2>6. tokens[t] \in TokenType
      BY <1>1, <2>3
  <2>7. /\ tokens'[t].path = tokens[t].path
        /\ tokens'[t].used = TRUE
        /\ tokens'[t].content_expires_at = until
        /\ tokens'[t].content_expires_after_hours = tokens[t].content_expires_after_hours
        /\ tokens'[t].published = req[r].stored
        /\ tokens'[t].by = r
        /\ tokens'[t].late = (tokens[t].valid_until <= clock)
      BY <2>5, <2>6 DEF TokenType
  <2>8. \A u \in DOMAIN tokens \ {t} : BoxOf(u)' = BoxOf(u)
      BY <1>2, <2>5, BoxStaysNow
  <2>9. /\ tokens[t].valid_until \in Nat
        /\ until \in Nat \cup {NULL}
        /\ clock \in Nat
        /\ req[r].stored \in SUBSET RowIds
      BY <2>2, <2>6 DEF TokenType, TypeInv, TypeOK, DBTypeOK, UploadTypeOK, RequestType
  <2>10. req[r].stored # {}
      BY <1>2 DEF BytesSaved, Saved
  <2> DEFINE content ==
          IF clock < tokens[t].valid_until /\ (until = NULL \/ clock < until)
          THEN [f \in req[r].stored |-> {r}]
          ELSE [f \in {} |-> {}]
  <2>11. ShownContent(t)' = content
    <3>1. ShownContent(t)' = Gift(t)'
        BY <2>3, <2>5, ShownIsGiftNext
    <3>2. IsShown(t)' <=> (until = NULL \/ clock < until)
        BY <1>2, <2>7, <2>9 DEF IsShown, SqlLeq
    <3>3. ~tokens'[t].late <=> clock < tokens[t].valid_until
      <4>1. ~tokens'[t].late <=> ~(tokens[t].valid_until <= clock)
          BY <2>7, Zenon
      <4>2. QED
          BY <2>9, <4>1
    <3>4. QED
        BY <2>7, <3>1, <3>2, <3>3 DEF Gift
  <2> HIDE DEF content
  <2>12. BoxOf(t) = [path |-> tokens[t].path, sealed |-> FALSE,
                     until |-> tokens[t].valid_until,
                     hours |-> tokens[t].content_expires_after_hours,
                     content |-> ShownContent(t)]
    <3>1. tokens[t].used = FALSE
        BY <2>4, <2>6 DEF TokenType
    <3>2. QED
        BY <3>1 DEF BoxOf
  <2>13. BoxOf(t)' = [path |-> tokens[t].path, sealed |-> TRUE,
                      until |-> until,
                      hours |-> tokens[t].content_expires_after_hours,
                      content |-> content]
      BY <2>7, <2>11 DEF BoxOf
  <2>14. BoxOf(t)' = Promise!Sealed(BoxOf(t), until, content)
      BY <2>12, <2>13 DEF Promise!Sealed
  <2>15. DOMAIN Boxes = DOMAIN tokens /\ \A u \in DOMAIN tokens : Boxes[u] = BoxOf(u)
      BY DEF Boxes
  <2>16. Boxes' = [Boxes EXCEPT ![t] = Promise!Sealed(@, until, content)]
    <3>1. Boxes' = [u \in DOMAIN tokens |-> BoxOf(u)']
        BY <2>5 DEF Boxes
    <3>2. Boxes = [u \in DOMAIN tokens |-> BoxOf(u)]
        BY DEF Boxes
    <3>3. QED
        BY <2>3, <2>8, <2>14, <3>1, <3>2
  <2>17. until \in Promise!Until(Boxes[t].hours)
    <3>1. Boxes[t].hours = tokens[t].content_expires_after_hours
        BY <2>3, <2>12, <2>15
    <3>2. QED
        BY <1>2, <2>1, <2>2, <2>3, <3>1 DEF DatesFit
  <2>18. Promise!Seal(t, until)
    <3>1. /\ t \in DOMAIN Boxes
          /\ ~Boxes[t].sealed
          /\ Boxes[t].until = tokens[t].valid_until
        BY <2>3, <2>12, <2>15
    <3>2. content = IF clock < Boxes[t].until /\ (until = NULL \/ clock < until)
                    THEN [f \in req[r].stored |-> {r}]
                    ELSE [f \in {} |-> {}]
        BY <3>1 DEF content
    <3>3. req[r].stored \in (SUBSET RowIds) \ {{}}
        BY <2>9, <2>10
    <3>4. \E upload \in Requests, fs \in (SUBSET RowIds) \ {{}} :
              Boxes' = [Boxes EXCEPT ![t] =
                           Promise!Sealed(@, until,
                               IF clock < Boxes[t].until /\ (until = NULL \/ clock < until)
                               THEN [f \in fs |-> {upload}]
                               ELSE [f \in {} |-> {}])]
        BY <2>16, <3>2, <3>3
    <3>5. QED
        BY <2>17, <3>1, <3>4 DEF Promise!Seal, Promise!Nothing, Boxes
  <2>19. QED
      BY <2>3, <2>15, <2>17, <2>18
<1>5. QED
    BY <1>3, <1>4

\* The cleanup deletes no token but those that have expired.
LEMMA GoneAreOver ==
    ASSUME TypeInv, NowPassed, Next, NEW t \in DOMAIN tokens \ DOMAIN tokens'
    PROVE  IsExpired(t, clock)
<1>1. /\ tokens \in [DOMAIN tokens -> TokenType]
      /\ clock \in Nat
      /\ cleaner.now \in Nat
      /\ cleaner.now <= clock
      /\ tokens[t].valid_until \in Nat
      /\ tokens[t].content_expires_at \in Nat \cup {NULL}
    BY DEF TypeInv, TypeOK, DBTypeOK, TablesOK, CleanupTypeOK, CleanerType, NowPassed, TokenType
<1>2. ~Creates /\ ~Waits
    BY CreateKeeps DEF Creates, Waits
<1>3. \A r \in Requests : ~Starts(r) /\ ~Dates(r) /\ ~Marks(r)
    BY DEF Starts, Dates, Marks, InitiateUpload, MarkUsed
<1>4. Deletes
    BY <1>2, <1>3, StepKind
<1>5. \A r \in Requests : ~UploadStep(r)
    BY <1>4, UploadMoves DEF Deletes
<1>6. ~Serve
    BY <1>5, CreateKeeps DEF Serve, GenerateToken, HandleUpload
<1>7. DeleteTokens
    BY <1>6
       DEF Next, BackgroundCleanup, CleanupFails, CleanupStep, SelectFiles, NothingToDelete,
           DeleteOneBlob, DeleteFileRows, DeleteFiles, Tick, Crash, ProcessEnds, Restart, dbVars
<1>8. IsExpired(t, cleaner.now)
    BY <1>7 DEF DeleteTokens, DeleteExpiredTokens, Delete, Restrict, ExpiredTokens
<1>9. QED
    BY <1>1, <1>8 DEF IsExpired, SqlLeq

\* Deleting expired tokens withdraws boxes whose date has passed.
LEMMA DeleteWithdraws ==
    ASSUME TypeInv, UnusedUndated, ShownIntact, ShownIntact', NowPassed, Next, Deletes,
           ~aliased, ~aliased'
    PROVE  Promise!Withdraw
<1>1. /\ DOMAIN tokens' \subseteq DOMAIN tokens
      /\ \A t \in DOMAIN tokens' : tokens'[t] = tokens[t]
      /\ UNCHANGED clock
    BY DEF Deletes, Delete, Restrict
<1>2. \A t \in DOMAIN tokens' : BoxOf(t)' = BoxOf(t)
    BY <1>1, BoxStaysNow
<1> DEFINE gone == DOMAIN tokens \ DOMAIN tokens'
<1>3. ASSUME NEW t \in gone
      PROVE  BoxOf(t).until # NULL /\ BoxOf(t).until <= clock
  <2>1. IsExpired(t, clock)
      BY GoneAreOver
  <2>2. tokens[t].valid_until # NULL
      BY ConstantsOK DEF TypeInv, TypeOK, DBTypeOK, TablesOK, TokenType
  <2>3. QED
      BY <2>1, <2>2 DEF IsExpired, SqlLeq, UnusedUndated, BoxOf
<1>4. gone \in SUBSET {t \in DOMAIN Boxes : Boxes[t].until # NULL /\ Boxes[t].until <= clock}
    BY <1>3 DEF Boxes
<1>5. Boxes' = Restrict(Boxes, DOMAIN Boxes \ gone)
    BY <1>1, <1>2 DEF Boxes, Restrict
<1> HIDE DEF gone
<1>6. QED
    BY <1>4, <1>5 DEF Promise!Withdraw, Promise!Restrict, Restrict, Boxes

\* A tick of the clock empties the boxes whose content is over.
LEMMA TickEmpties ==
    ASSUME TypeInv, ShownIntact, ShownIntact', Tick, ~aliased, ~aliased'
    PROVE  Promise!PassTime
<1>1. UNCHANGED tokens /\ clock' = clock + 1 /\ clock \in Nat
    BY DEF Tick, dbVars, TypeInv, TypeOK, DBTypeOK
<1>2. \A t \in DOMAIN tokens :
          tokens[t].content_expires_at \in Nat \cup {NULL} /\ tokens[t].used \in BOOLEAN
    BY DEF TypeInv, TypeOK, DBTypeOK, TablesOK, TokenType
<1>3. ASSUME NEW t \in DOMAIN tokens
      PROVE  BoxOf(t)' = IF BoxOf(t).sealed /\ BoxOf(t).until # NULL /\ BoxOf(t).until <= clock'
                         THEN [BoxOf(t) EXCEPT !.content = [f \in {} |-> {}]]
                         ELSE BoxOf(t)
  <2>1. /\ BoxOf(t).sealed = tokens[t].used
        /\ tokens[t].used => BoxOf(t).until = tokens[t].content_expires_at
      BY DEF BoxOf
  <2>2. CASE BoxOf(t).sealed /\ BoxOf(t).until # NULL /\ BoxOf(t).until <= clock'
    <3>1. ~IsShown(t)'
        BY <1>1, <2>1, <2>2 DEF IsShown, SqlLeq
    <3>2. ShownContent(t)' = [f \in {} |-> {}]
        BY <3>1 DEF ShownContent
    <3>3. BoxOf(t)' = [BoxOf(t) EXCEPT !.content = [f \in {} |-> {}]]
        BY <1>1, <3>2 DEF BoxOf
    <3>4. QED
        BY <2>2, <3>3
  <2>3. CASE ~(BoxOf(t).sealed /\ BoxOf(t).until # NULL /\ BoxOf(t).until <= clock')
    <3>1. IsShown(t)' <=> IsShown(t)
        BY <1>1, <1>2, <2>1, <2>3 DEF IsShown, SqlLeq
    <3>2. BoxOf(t)' = BoxOf(t)
        BY <1>1, <3>1, BoxStays
    <3>3. QED
        BY <2>3, <3>2
  <2>4. QED
      BY <2>2, <2>3
<1>4. Boxes' = [t \in DOMAIN Boxes |->
                   IF Boxes[t].sealed /\ Boxes[t].until # NULL /\ Boxes[t].until <= clock'
                   THEN [Boxes[t] EXCEPT !.content = [f \in {} |-> {}]]
                   ELSE Boxes[t]]
    BY <1>1, <1>3 DEF Boxes
<1>5. QED
    BY <1>1, <1>4 DEF Promise!PassTime, Promise!Nothing, Boxes

\* The start of an attempt and the dates that an upload computes are nobody's
\* business.
LEMMA StartHides ==
    ASSUME TypeInv, ShownIntact, ShownIntact', ~aliased, ~aliased',
           NEW r \in Requests, Starts(r) \/ Dates(r)
    PROVE  UNCHANGED Boxes
<1>1. tokens \in [DOMAIN tokens -> TokenType]
    BY DEF TypeInv, TypeOK, DBTypeOK, TablesOK
<1>2. UNCHANGED clock /\ DOMAIN tokens' = DOMAIN tokens
    BY DEF Starts, Dates, InitiateUpload
<1>3. ASSUME NEW t \in DOMAIN tokens
      PROVE  BoxOf(t)' = BoxOf(t)
  <2>1. CASE tokens'[t] = tokens[t]
      BY <1>2, <2>1, BoxStaysNow
  <2>2. CASE tokens'[t] # tokens[t]
    <3>1. t = req[r].token_id /\ InitiateUpload(t)
        BY <1>1, <2>2 DEF Starts, Dates, InitiateUpload
    <3>2. /\ tokens'[t].path = tokens[t].path
          /\ tokens'[t].used = tokens[t].used
          /\ ~tokens[t].used
          /\ tokens'[t].valid_until = tokens[t].valid_until
          /\ tokens'[t].content_expires_at = tokens[t].content_expires_at
          /\ tokens'[t].content_expires_after_hours = tokens[t].content_expires_after_hours
        BY <1>1, <3>1 DEF InitiateUpload, CanInitiate, TokenType
    <3>3. QED
        BY <3>2, UnsealedEmpty DEF BoxOf
  <2>3. QED
      BY <2>1, <2>2
<1>4. QED
    BY <1>2, <1>3 DEF Boxes

\* Time passes by ticks.
LEMMA ClockTicks ==
    ASSUME TypeInv, Next
    PROVE  UNCHANGED clock \/ Tick
BY DEF Next, Serve, BackgroundCleanup, CleanupFails, Crash, ProcessEnds, Restart

\* Every step of the server is one of the drop box, or changes nothing of it.
LEMMA StepIsPromised ==
    ASSUME TypeInv, AttemptInv, LinkInv, ContentOutlivesLink,
           FileInv, FileInv', PublishInv, PublishInv', SealInv, Next
    PROVE  Promise!Next \/ UNCHANGED <<clock, Boxes, ~aliased>>
<1>1. CASE aliased'
  <2>1. (~aliased)' = FALSE
      BY <1>1
  <2>2. QED
      BY <2>1 DEF Promise!Next, Promise!LoseTrust
<1>2. CASE ~aliased'
  <2>1. ~aliased
      BY <1>2, NewIdsAreFree
  <2>2. /\ ShownIntact /\ ShownIntact' /\ UnusedUndated
        /\ NowPassed /\ BytesSaved /\ DatesFit
        /\ UsedExpiryCoversLink
      BY <1>2, <2>1, ShownIsIntact, ShownIsIntactNext DEF PublishInv, SealInv, LinkInv
  <2>3. (~aliased)' = ~aliased
      BY <1>2, <2>1
  <2>4. UNCHANGED clock /\ UNCHANGED Boxes => UNCHANGED <<clock, Boxes, ~aliased>>
      BY <2>3
  <2>5. UNCHANGED clock /\ Promise!Withdraw => Promise!Next
      BY <2>3 DEF Promise!Next, Promise!Serve
  <2>6. CASE Creates
    <3>1. PICK path \in Paths, o \in Options : CreateToken(path, o) /\ UNCHANGED clock
        BY <2>6 DEF Creates
    <3>2. \E t \in RowIds : Promise!Offer(t, path, o)
        BY <1>2, <2>1, <2>2, <3>1, CreateOffers
    <3>3. QED
        BY <2>3, <3>1, <3>2 DEF Promise!Next, Promise!Serve
  <2>7. CASE \E r \in Requests : Starts(r) \/ Dates(r)
    <3>1. PICK r \in Requests : Starts(r) \/ Dates(r)
        BY <2>7
    <3>2. UNCHANGED clock /\ UNCHANGED Boxes
        BY <1>2, <2>1, <2>2, <3>1, StartHides DEF Starts, Dates
    <3>3. QED
        BY <2>4, <3>2
  <2>8. CASE \E r \in Requests : Marks(r)
    <3>1. PICK r \in Requests : Marks(r)
        BY <2>8
    <3>2. UNCHANGED clock
        BY <3>1 DEF Marks
    <3>3. CASE UNCHANGED Boxes
        BY <2>4, <3>2, <3>3
    <3>4. CASE \E t \in DOMAIN Boxes : \E until \in Promise!Until(Boxes[t].hours) :
                  Promise!Seal(t, until)
        BY <2>3, <3>2, <3>4 DEF Promise!Next, Promise!Serve, Boxes
    <3>5. QED
        BY <1>2, <2>1, <2>2, <3>1, <3>3, <3>4, MarkSeals
  <2>9. CASE Deletes
    <3>1. Promise!Withdraw /\ UNCHANGED clock
        BY <1>2, <2>1, <2>2, <2>9, DeleteWithdraws DEF Deletes
    <3>2. QED
        BY <2>5, <3>1
  <2>10. CASE Waits
    <3>1. CASE UNCHANGED clock
      <4>1. \A t \in DOMAIN tokens : BoxOf(t)' = BoxOf(t)
          BY <2>2, <2>10, <3>1, BoxStaysNow DEF Waits
      <4>2. UNCHANGED Boxes
          BY <1>2, <2>1, <2>10, <4>1 DEF Waits, Boxes
      <4>3. QED
          BY <2>4, <3>1, <4>2
    <3>2. CASE Tick
        BY <1>2, <2>1, <2>2, <2>3, <3>2, TickEmpties DEF Promise!Next
    <3>3. QED
        BY <3>1, <3>2, ClockTicks
  <2>11. QED
      BY <2>6, <2>7, <2>8, <2>9, <2>10, StepKind
<1>3. QED
    BY <1>1, <1>2

-----------------------------------------------------------------------------
(* All that holds of the server                                            *)

ServerInv ==
    /\ TypeInv /\ AttemptInv /\ NameInv /\ RowInv
    /\ FileInv /\ PublishInv /\ LinkInv /\ SealInv

\* The invariants of the server's parts, together: each of them is inductive
\* relative to those before it.
THEOREM ServerHolds == Spec => []ServerInv
<1>1. Init => FileInv /\ PublishInv /\ LinkInv /\ SealInv
  <2>1. Init => SealInv
      BY DEF Init, DBInit, UploadInit, CleanupInit, Asleep, Blank, SealInv, NowPassed,
             BytesSaved, Saved, DatesFit
  <2>2. QED
      BY <2>1, FileInit, PublishInit, LinkInit
<1>2. TypeInv /\ AttemptInv /\ NameInv /\ RowInv /\ FileInv /\ PublishInv
          /\ LinkInv /\ SealInv /\ [Next]_vars
          => (FileInv /\ PublishInv /\ LinkInv /\ SealInv)'
  <2>1. TypeInv /\ FileInv /\ SealInv /\ [Next]_vars => FileInv' /\ SealInv'
      BY FileStep, SealStep
  <2>2. TypeInv /\ AttemptInv /\ LinkInv /\ [Next]_vars => LinkInv'
      BY LinkStep
  <2>3. QED
      BY <2>1, <2>2, PublishStep
<1>3. QED
    BY <1>1, <1>2, NamesHold, PTL DEF Spec, ServerInv

\* For links whose content outlives them the server implements the drop box:
\* whatever uploads, cleanups and crashes do to each other, a link is sealed
\* in one step with the files of one upload, and shows them until it is over.
THEOREM Implemented == ContentOutlivesLink /\ Spec => ImplementsDropBox
<1>1. ContentOutlivesLink => ContentOutlivesLink'
    BY DEF ContentOutlivesLink
<1>2. Init => Promise!Init
    BY DEF Init, DBInit, Promise!Init, Promise!Nothing
<1>3. ServerInv /\ ServerInv' /\ ContentOutlivesLink /\ [Next]_vars
          => [Promise!Next]_(Promise!vars)
  <2>1. UNCHANGED vars => UNCHANGED Promise!vars
      BY DEF vars, Promise!vars, BoxOf, ShownContent, IsShown, ListedFiles
  <2>2. UNCHANGED <<clock, Boxes, ~aliased>> => UNCHANGED Promise!vars
      BY DEF Promise!vars, Boxes
  <2>3. ServerInv /\ ServerInv' /\ ContentOutlivesLink /\ Next
            => Promise!Next \/ UNCHANGED Promise!vars
      BY <2>2, StepIsPromised DEF ServerInv
  <2>4. QED
      BY <2>1, <2>3
<1>4. QED
    BY <1>1, <1>2, <1>3, ServerHolds, PTL DEF Spec, ImplementsDropBox, Promise!Spec
=============================================================================
