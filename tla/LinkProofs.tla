----------------------------- MODULE LinkProofs -----------------------------
(***************************************************************************)
(* Two promises of the links, for any number of requests and rows: a used  *)
(* token is never touched again, and a path has one live token.  Both rest *)
(* on the attempt counters: as long as no rowid is given out while its old *)
(* id is in use, every attempt of a token has a number of its own, and a   *)
(* used token's number belongs to nobody.                                  *)
(***************************************************************************)
EXTENDS VracProofs

\* The request has taken an attempt of its token.
Attempting(r) == req[r].pc \notin {"idle", "valid", "done"}

\* No request is ahead of the counter of its token.
AttemptsBelowCounter ==
    \A r \in Requests :
        Attempting(r) /\ req[r].token_id \in DOMAIN tokens =>
            req[r].attempt_counter <= tokens[req[r].token_id].attempt_counter

\* Two uploads to one token have different attempts.
AttemptsDistinct ==
    \A r, q \in Requests :
        /\ Attempting(r) /\ Attempting(q)
        /\ req[r].token_id = req[q].token_id
        /\ req[r].attempt_counter = req[q].attempt_counter
        => r = q

\* The attempt that a used token shows is over.
UsedAttemptOver ==
    \A r \in Requests :
        /\ Attempting(r)
        /\ req[r].token_id \in DOMAIN tokens
        /\ tokens[req[r].token_id].used
        => req[r].attempt_counter # tokens[req[r].token_id].attempt_counter

AttemptInv ==
    ~aliased => AttemptsBelowCounter /\ AttemptsDistinct /\ UsedAttemptOver

\* Whenever an upload ends, its content will outlive the link.
HoursCoverLink ==
    \A t \in DOMAIN tokens :
        tokens[t].content_expires_after_hours # NULL =>
            tokens[t].valid_until <= clock + tokens[t].content_expires_after_hours

\* ... and so will the date that an upload has computed,
ExpiryCoversLink ==
    \A r \in Requests :
        /\ req[r].pc = "mark"
        /\ req[r].token_id \in DOMAIN tokens
        /\ req[r].expires_at # NULL
        => tokens[req[r].token_id].valid_until <= req[r].expires_at

\* ... and the one that a used token has.
UsedExpiryCoversLink ==
    \A t \in DOMAIN tokens :
        tokens[t].content_expires_at # NULL =>
            tokens[t].used /\ tokens[t].valid_until <= tokens[t].content_expires_at

LinkInv ==
    ContentOutlivesLink /\ ~aliased =>
        HoursCoverLink /\ ExpiryCoversLink /\ UsedExpiryCoversLink /\ UniqueLiveToken

-----------------------------------------------------------------------------
(* What a step may do to the tokens and to the attempts                    *)

\* The request keeps its attempt, if it has one, and computes no date.
Keeps(r) ==
    Attempting(r)' =>
        /\ Attempting(r)
        /\ req'[r].token_id = req[r].token_id
        /\ req'[r].attempt_counter = req[r].attempt_counter
        /\ req'[r].pc = "mark" =>
              req[r].pc = "mark" /\ req'[r].expires_at = req[r].expires_at

OthersKeep(r) == \A q \in Requests \ {r} : req'[q] = req[q]

\* A new row under an id that nobody holds
Creates ==
    /\ UNCHANGED <<clock, req>>
    /\ \E path \in Paths, o \in Options : CreateToken(path, o)

\* The request takes the next attempt of its token.
Starts(r) ==
    /\ UNCHANGED clock
    /\ OthersKeep(r)
    /\ LET t == req[r].token_id IN
       /\ InitiateUpload(t)
       /\ req'[r].pc = "fields"
       /\ req'[r].token_id = t
       /\ req'[r].attempt_counter = tokens[t].attempt_counter + 1

\* The request computes when its content expires.
Dates(r) ==
    /\ UNCHANGED <<clock, tokens>>
    /\ OthersKeep(r)
    /\ Attempting(r)
    /\ req[r].token_id \in DOMAIN tokens
    /\ req'[r].token_id = req[r].token_id
    /\ req'[r].attempt_counter = req[r].attempt_counter
    /\ req'[r].expires_at = ContentExpiry(req[r].token_id)

\* The request marks its token used and returns.
Marks(r) ==
    /\ UNCHANGED clock
    /\ OthersKeep(r)
    /\ req[r].pc = "mark"
    /\ ~Attempting(r)'
    /\ MarkUsed(req[r].token_id, req[r].attempt_counter, req[r].expires_at,
                req[r].stored, r)

\* Rows are deleted.
Deletes ==
    /\ UNCHANGED <<clock, req>>
    /\ \E S \in SUBSET DOMAIN tokens : tokens' = Delete(tokens, S)

\* Anything else: the tokens stay, time may pass.
Waits ==
    /\ UNCHANGED tokens
    /\ clock' \in Nat /\ clock <= clock'
    /\ \A r \in Requests : Keeps(r)

\* Every step of an upload is one of these.
LEMMA UploadStepKind ==
    ASSUME TypeInv, NEW r \in Requests, UploadStep(r), UNCHANGED clock
    PROVE  Starts(r) \/ Dates(r) \/ Marks(r) \/ Waits
<1>1. req \in [Requests -> RequestType] /\ clock \in Nat
    BY DEF TypeInv, TypeOK, UploadTypeOK, DBTypeOK
<1>2. ASSUME UNCHANGED tokens, NEW x, req' = [req EXCEPT ![r] = x],
             x.pc \in {"idle", "valid", "done"}
      PROVE  Waits
    BY <1>1, <1>2 DEF Waits, Keeps, Attempting
<1>3. ASSUME UNCHANGED tokens, Return(r)
      PROVE  Waits
    BY <1>2, <1>3 DEF Return, Blank
<1>4. ASSUME UNCHANGED tokens, NEW x, req' = [req EXCEPT ![r] = x],
             Attempting(r), x.pc # "mark",
             x.token_id = req[r].token_id,
             x.attempt_counter = req[r].attempt_counter
      PROVE  Waits
    BY <1>1, <1>4 DEF Waits, Keeps, Attempting
<1>5. ASSUME UNCHANGED tokens, NEW pc, Goto(r, pc), Attempting(r), pc # "mark"
      PROVE  Waits
    BY <1>1, <1>5 DEF Goto, Waits, Keeps, Attempting, RequestType
<1>6. CASE LookUpToken(r)
  <2>1. CASE Return(r)
      BY <1>3, <1>6, <2>1 DEF LookUpToken, LookUpTokenAt, RefusePath, dbVars
  <2>2. ASSUME NEW t, req' = [req EXCEPT ![r].pc = "valid", ![r].token_id = t,
                                         ![r].backend_type = tokens[t].backend_type]
        PROVE  Waits
    <3> DEFINE x == [req[r] EXCEPT !.pc = "valid", !.token_id = t,
                                   !.backend_type = tokens[t].backend_type]
    <3>1. req' = [req EXCEPT ![r] = x] /\ x.pc = "valid"
        BY <1>1, <2>2 DEF RequestType
    <3> HIDE DEF x
    <3>2. QED
        BY <1>2, <1>6, <3>1 DEF LookUpToken, LookUpTokenAt, RefusePath, dbVars
  <2>3. QED
      BY <1>6, <2>1, <2>2 DEF LookUpToken, LookUpTokenAt, RefusePath
<1>7. CASE StartAttempt(r)
  <2>1. CASE Return(r) /\ UNCHANGED dbVars
      BY <1>3, <2>1 DEF dbVars
  <2>2. CASE InitiateUpload(req[r].token_id) /\
             req' = [req EXCEPT ![r].pc = "fields",
                    ![r].attempt_counter = tokens[req[r].token_id].attempt_counter + 1]
      BY <1>1, <2>2 DEF Starts, OthersKeep, RequestType
  <2>3. QED
      BY <1>7, <2>1, <2>2 DEF StartAttempt
<1>8. CASE NextField(r)
    BY <1>1, <1>8 DEF NextField, dbVars, Waits, Keeps, Attempting, RequestType
<1>9. CASE RecordFile(r)
  <2>1. CASE Return(r)
      BY <1>3, <1>9, <2>1 DEF RecordFile, dbVars, CreateFile
  <2>2. ASSUME NEW f, req' = [req EXCEPT ![r].pc = "copying", ![r].file_id = f]
        PROVE  Waits
    <3> DEFINE x == [req[r] EXCEPT !.pc = "copying", !.file_id = f]
    <3>1. /\ req' = [req EXCEPT ![r] = x]
          /\ x.pc = "copying"
          /\ x.token_id = req[r].token_id
          /\ x.attempt_counter = req[r].attempt_counter
        BY <1>1, <2>2 DEF RequestType
    <3> HIDE DEF x
    <3>2. QED
        BY <1>4, <1>9, <3>1 DEF RecordFile, dbVars, CreateFile, Attempting
  <2>3. QED
      BY <1>9, <2>1, <2>2 DEF RecordFile
<1>10. CASE CopyBytes(r)
  <2>1. CASE Goto(r, "empty")
      BY <1>5, <1>10, <2>1 DEF CopyBytes, dbVars, Attempting
  <2>2. CASE \E n : req' = [req EXCEPT ![r].pc = "copied", ![r].size = n, ![r].total = @ + n]
      BY <1>1, <1>10, <2>2 DEF CopyBytes, dbVars, Waits, Keeps, Attempting, RequestType
  <2>3. QED
      BY <1>10, <2>1, <2>2 DEF CopyBytes
<1>11. CASE DeleteEmptyBlob(r)
    BY <1>5, <1>11 DEF DeleteEmptyBlob, dbVars, Attempting
<1>12. CASE DeleteEmptyFile(r)
    BY <1>1, <1>12 DEF DeleteEmptyFile, DeleteFiles, Waits, Keeps, Attempting, RequestType
<1>13. CASE StoreBlob(r)
    BY <1>5, <1>13 DEF StoreBlob, dbVars, Attempting
<1>14. CASE CompleteFile(r)
  <2>1. CASE Return(r) /\ UNCHANGED dbVars
      BY <1>3, <2>1 DEF dbVars
  <2>2. CASE FinaliseFileUpload(req[r].file_id, req[r].size) /\
             req' = [req EXCEPT ![r].pc = "fields", ![r].file_id = 0, ![r].size = 0,
                                ![r].stored = @ \cup {req[r].file_id}]
      BY <1>1, <1>14, <2>2
         DEF CompleteFile, FinaliseFileUpload, Waits, Keeps, Attempting, RequestType
  <2>3. QED
      BY <1>14, <2>1, <2>2 DEF CompleteFile
<1>15. CASE EndOfBody(r)
  <2>1. CASE Return(r)
      BY <1>3, <1>15, <2>1 DEF EndOfBody, dbVars
  <2>2. CASE ~Return(r)
      BY <1>1, <1>15, <2>2 DEF EndOfBody, dbVars, Dates, OthersKeep, Attempting, RequestType
  <2>3. QED
      BY <2>1, <2>2
<1>16. CASE MarkTokenUsed(r)
    BY <1>1, <1>16 DEF MarkTokenUsed, Marks, OthersKeep, Return, Blank, Attempting
<1>17. CASE Abort(r)
    BY <1>3, <1>17 DEF Abort, dbVars
<1>18. QED
    BY <1>6, <1>7, <1>8, <1>9, <1>10, <1>11, <1>12, <1>13, <1>14, <1>15, <1>16, <1>17
       DEF UploadStep

\* And so is every step of the server.
LEMMA StepKind ==
    ASSUME TypeInv, Next
    PROVE  \/ Creates
           \/ \E r \in Requests : Starts(r) \/ Dates(r) \/ Marks(r)
           \/ Deletes
           \/ Waits
<1>1. req \in [Requests -> RequestType] /\ clock \in Nat
    BY DEF TypeInv, TypeOK, UploadTypeOK, DBTypeOK
<1>2. ASSUME UNCHANGED <<clock, tokens, req>> PROVE Waits
    BY <1>1, <1>2 DEF Waits, Keeps, Attempting
<1>3. ASSUME ProcessEnds PROVE Waits
    BY <1>1, <1>3 DEF ProcessEnds, dbVars, Waits, Keeps, Attempting, Active, Blank
<1>4. ASSUME Serve PROVE Creates \/ \E r \in Requests : Starts(r) \/ Dates(r) \/ Marks(r) \/ Waits
    BY <1>4, UploadStepKind DEF Serve, GenerateToken, Creates, HandleUpload
<1>5. ASSUME BackgroundCleanup PROVE Deletes \/ Waits
  <2>1. CASE CleanupFails
      BY <1>3, <2>1 DEF CleanupFails
  <2>2. CASE CleanupStep /\ UNCHANGED clock
    <3>1. CASE DeleteTokens
        BY <2>2, <3>1 DEF DeleteTokens, DeleteExpiredTokens, ExpiredTokens, Deletes
    <3>2. CASE SelectFiles \/ NothingToDelete \/ DeleteOneBlob \/ DeleteFileRows
        BY <1>2, <2>2, <3>2
           DEF SelectFiles, NothingToDelete, DeleteOneBlob, DeleteFileRows, DeleteFiles, dbVars
    <3>3. QED
        BY <2>2, <3>1, <3>2 DEF CleanupStep
  <2>3. QED
      BY <1>5, <2>1, <2>2 DEF BackgroundCleanup
<1>6. ASSUME Tick PROVE Waits
    BY <1>1, <1>6 DEF Tick, dbVars, Waits, Keeps, Attempting
<1>7. ASSUME Crash PROVE Waits
    BY <1>3, <1>7 DEF Crash
<1>8. ASSUME Restart PROVE Waits
    BY <1>2, <1>8 DEF Restart, dbVars
<1>9. QED
    BY <1>4, <1>5, <1>6, <1>7, <1>8 DEF Next

\* Without reuse no request holds the id of a new row.
LEMMA NewIdsAreFree ==
    ASSUME Next, ~aliased'
    PROVE  /\ ~aliased
           /\ \A t \in DOMAIN tokens' \ DOMAIN tokens : \A r \in Requests : req[r].token_id # t
BY DEF Next, RecordReuse, ReusesId, TokenIdInUse

\* The new row of a link
AddsRow(u, path, o) ==
    /\ u \notin DOMAIN tokens
    /\ DOMAIN tokens' = DOMAIN tokens \cup {u}
    /\ tokens'[u].path = path
    /\ tokens'[u].valid_until = clock + o.valid_for
    /\ tokens'[u].content_expires_after_hours = o.content_expires_after_hours
    /\ tokens'[u].content_expires_at = NULL

\* create_token adds one row, under an id that no row has, and keeps the others.
LEMMA CreateKeeps ==
    ASSUME NEW path, NEW o, CreateToken(path, o)
    PROVE  /\ \A t \in DOMAIN tokens : t \in DOMAIN tokens' /\ tokens'[t] = tokens[t]
           /\ \E u \in RowIds : AddsRow(u, path, o)
<1> DEFINE row == [path |-> path,
                   valid_until |-> clock + o.valid_for,
                   content_expires_after_hours |-> o.content_expires_after_hours,
                   max_size |-> o.max_size,
                   backend_type |-> o.backend_type,
                   attempt_counter |-> 0,
                   used |-> FALSE,
                   content_expires_at |-> NULL,
                   published |-> {}, by |-> NULL, late |-> FALSE]
<1>1. PICK u \in RowIds : IsNextRowId(tokens, u) /\ tokens' = Insert(tokens, u, row)
    BY DEF CreateToken
<1>2. u \notin DOMAIN tokens
    BY <1>1 DEF IsNextRowId, RowIds
<1> HIDE DEF row
<1>3. /\ DOMAIN tokens' = DOMAIN tokens \cup {u}
      /\ tokens'[u] = row
      /\ \A t \in DOMAIN tokens : tokens'[t] = tokens[t]
    BY <1>1, <1>2 DEF Insert
<1>4. /\ row.path = path
      /\ row.valid_until = clock + o.valid_for
      /\ row.content_expires_after_hours = o.content_expires_after_hours
      /\ row.content_expires_at = NULL
    BY DEF row
<1>5. AddsRow(u, path, o)
    BY <1>2, <1>3, <1>4 DEF AddsRow
<1>6. QED
    BY <1>3, <1>5

-----------------------------------------------------------------------------
(* The attempts                                                            *)

\* The initial states have no attempt.
LEMMA AttemptInit == Init => AttemptInv
BY DEF Init, UploadInit, Blank, DBInit, AttemptInv, Attempting,
       AttemptsBelowCounter, AttemptsDistinct, UsedAttemptOver

\* Every step keeps the attempts apart.
LEMMA AttemptStep == TypeInv /\ AttemptInv /\ [Next]_vars => AttemptInv'
<1> SUFFICES ASSUME TypeInv, AttemptInv, [Next]_vars, ~aliased'
             PROVE  (AttemptsBelowCounter /\ AttemptsDistinct /\ UsedAttemptOver)'
    BY DEF AttemptInv
<1> USE DEF AttemptsBelowCounter, AttemptsDistinct, UsedAttemptOver
<1>1. /\ tokens \in [DOMAIN tokens -> TokenType]
      /\ \A r \in Requests : req[r].attempt_counter \in Nat
      /\ \A t \in DOMAIN tokens : tokens[t].attempt_counter \in Nat
    BY DEF TypeInv, TypeOK, DBTypeOK, TablesOK, UploadTypeOK, RequestType, TokenType
<1>2. CASE UNCHANGED vars
    BY <1>2 DEF AttemptInv, Attempting, vars
<1>3. CASE Next
  <2>1. /\ ~aliased
        /\ \A t \in DOMAIN tokens' \ DOMAIN tokens :
              \A r \in Requests : req[r].token_id # t
      BY <1>3, NewIdsAreFree
  <2>2. AttemptsBelowCounter /\ AttemptsDistinct /\ UsedAttemptOver
      BY <2>1 DEF AttemptInv
  <2>3. CASE Creates
    <3>1. /\ UNCHANGED req
          /\ \A t \in DOMAIN tokens : t \in DOMAIN tokens' /\ tokens'[t] = tokens[t]
        BY <2>3, CreateKeeps DEF Creates
    <3>2. QED
        BY <2>1, <2>2, <3>1 DEF Attempting
  <2>4. ASSUME NEW r \in Requests, Starts(r)
        PROVE  (AttemptsBelowCounter /\ AttemptsDistinct /\ UsedAttemptOver)'
    <3> DEFINE t == req[r].token_id
    <3>1. /\ t \in DOMAIN tokens /\ ~tokens[t].used
          /\ DOMAIN tokens' = DOMAIN tokens
          /\ tokens'[t].attempt_counter = tokens[t].attempt_counter + 1
          /\ tokens'[t].used = tokens[t].used
          /\ \A u \in DOMAIN tokens \ {t} : tokens'[u] = tokens[u]
        BY <1>1, <2>4 DEF Starts, InitiateUpload, CanInitiate, TokenType
    <3>2. /\ \A q \in Requests \ {r} : req'[q] = req[q]
          /\ req'[r].token_id = t
          /\ req'[r].attempt_counter = tokens[t].attempt_counter + 1
        BY <2>4 DEF Starts, OthersKeep
    <3>3. AttemptsBelowCounter'
        BY <1>1, <2>2, <3>1, <3>2 DEF Attempting
    <3>4. ASSUME NEW q \in Requests \ {r}, Attempting(q)', req'[q].token_id = t
          PROVE  req'[q].attempt_counter # req'[r].attempt_counter
        BY <1>1, <2>2, <3>1, <3>2, <3>4 DEF Attempting
    <3>5. AttemptsDistinct'
        BY <2>2, <3>2, <3>4 DEF Attempting
    <3>6. UsedAttemptOver'
        BY <2>2, <3>1, <3>2 DEF Attempting
    <3>7. QED
        BY <3>3, <3>5, <3>6
  <2>5. ASSUME NEW r \in Requests, Dates(r)
        PROVE  (AttemptsBelowCounter /\ AttemptsDistinct /\ UsedAttemptOver)'
    <3>1. /\ UNCHANGED tokens
          /\ \A q \in Requests : Attempting(q)' =>
                /\ Attempting(q)
                /\ req'[q].token_id = req[q].token_id
                /\ req'[q].attempt_counter = req[q].attempt_counter
        BY <2>5 DEF Dates, OthersKeep, Attempting
    <3>2. AttemptsBelowCounter' /\ UsedAttemptOver'
        BY <2>2, <3>1
    <3>3. AttemptsDistinct'
        BY <2>2, <3>1
    <3>4. QED
        BY <3>2, <3>3
  <2>6. ASSUME NEW r \in Requests, Marks(r)
        PROVE  (AttemptsBelowCounter /\ AttemptsDistinct /\ UsedAttemptOver)'
    <3> DEFINE t == req[r].token_id
    <3>1. /\ \A q \in Requests \ {r} : req'[q] = req[q]
          /\ ~Attempting(r)' /\ Attempting(r)
        BY <2>6 DEF Marks, OthersKeep, Attempting
    <3>2. /\ DOMAIN tokens' = DOMAIN tokens
          /\ \A u \in DOMAIN tokens :
                /\ tokens'[u].attempt_counter = tokens[u].attempt_counter
                /\ \/ tokens'[u].used = tokens[u].used
                   \/ u = t /\ tokens[t].attempt_counter = req[r].attempt_counter
        BY <1>1, <2>6 DEF Marks, MarkUsed, TokenType
    <3>3. QED
        BY <2>2, <3>1, <3>2 DEF Attempting
  <2>7. CASE Deletes
    <3>1. /\ DOMAIN tokens' \subseteq DOMAIN tokens
          /\ \A t \in DOMAIN tokens' : tokens'[t] = tokens[t]
          /\ UNCHANGED req
        BY <2>7 DEF Deletes, Delete, Restrict
    <3>2. QED
        BY <2>2, <3>1 DEF Attempting
  <2>8. CASE Waits
      BY <2>2, <2>8 DEF Waits, Keeps
  <2>9. QED
      BY <1>3, <2>3, <2>4, <2>5, <2>6, <2>7, <2>8, StepKind
<1>4. QED
    BY <1>2, <1>3

\* The attempts of a token have numbers of their own, and that of a used
\* token is over.
THEOREM AttemptsHold == Spec => [](TypeInv /\ AttemptInv)
<1>1. Init => TypeInv /\ AttemptInv
    BY TypeInit, AttemptInit
<1>2. TypeInv /\ AttemptInv /\ [Next]_vars => (TypeInv /\ AttemptInv)'
    BY TypeNext, AttemptStep
<1>3. QED
    BY <1>1, <1>2, PTL DEF Spec

\* No step touches a used token, save the cleanup that deletes it.
LEMMA UsedStep ==
    ASSUME TypeInv, AttemptInv, Next, ~aliased',
           NEW t \in DOMAIN tokens \cap DOMAIN tokens', tokens[t].used
    PROVE  tokens'[t] = tokens[t]
<1>1. AttemptInv /\ ~aliased
    BY NewIdsAreFree
<1>2. CASE Creates
    BY <1>2, CreateKeeps DEF Creates
<1>3. CASE \E r \in Requests : Starts(r)
    BY <1>3 DEF Starts, InitiateUpload, CanInitiate
<1>4. CASE \E r \in Requests : Dates(r)
    BY <1>4 DEF Dates
<1>5. CASE \E r \in Requests : Marks(r)
    BY <1>1, <1>5 DEF AttemptInv, UsedAttemptOver, Attempting, Marks, MarkUsed
<1>6. CASE Deletes
    BY <1>6 DEF Deletes, Delete, Restrict
<1>7. CASE Waits
    BY <1>7 DEF Waits
<1>8. QED
    BY <1>2, <1>3, <1>4, <1>5, <1>6, <1>7, StepKind

\* A used token keeps what its upload gave it until it is deleted: neither a
\* concurrent upload nor a late one moves its counter, its expiry or its use.
THEOREM UsedStays == Spec => UsedIsFinal
<1> DEFINE Kept == \A t \in DOMAIN tokens \cap DOMAIN tokens' :
                       ~aliased' /\ tokens[t].used => tokens'[t] = tokens[t]
<1>1. TypeInv /\ AttemptInv /\ [Next]_vars => [Kept]_vars
    BY UsedStep
<1>2. QED
    BY <1>1, AttemptsHold, PTL DEF Spec, UsedIsFinal

-----------------------------------------------------------------------------
(* One live link to a path                                                 *)

\* The initial states have no link.
LEMMA LinkInit == Init => LinkInv
BY DEF Init, UploadInit, Blank, DBInit, LinkInv,
       HoursCoverLink, ExpiryCoversLink, UsedExpiryCoversLink, UniqueLiveToken

\* A path for which get_valid_token answers NotFound has no live token:
\* whatever is live matches its query, and a match that is not valid is a used
\* token whose content has expired before the link.
LEMMA NotFoundNotLive ==
    ASSUME TypeInv, UsedExpiryCoversLink,
           NEW path \in Paths, IsNotFound(path),
           NEW t \in DOMAIN tokens, tokens[t].path = path
    PROVE  ~IsLive(t)
<1>1. clock \in Nat
    BY DEF TypeInv, TypeOK, DBTypeOK
<1>2. \A u \in DOMAIN tokens :
          /\ tokens[u].valid_until \in Nat
          /\ tokens[u].content_expires_at \in Nat \cup {NULL}
    BY DEF TypeInv, TypeOK, DBTypeOK, TablesOK, TokenType
<1>3. SUFFICES ASSUME IsLive(t) PROVE FALSE
    OBVIOUS
<1>4. t \in Matching(path)
    BY <1>3 DEF IsLive, Matching, SqlLeq, UsedExpiryCoversLink
<1>5. PICK u \in DOMAIN tokens : IsFirstMatch(path, u) /\ tokens[u].used /\ ~HasValidContent(u)
    BY <1>4 DEF IsNotFound
<1>6. tokens[u].content_expires_at # NULL /\ tokens[u].content_expires_at <= clock
    BY <1>5 DEF HasValidContent, SqlLeq
<1>7. tokens[u].valid_until <= clock
    BY <1>1, <1>2, <1>6 DEF UsedExpiryCoversLink
<1>8. u \notin Matching(path)
    BY <1>1, <1>2, <1>6, <1>7 DEF Matching, SqlLeq
<1>9. QED
    BY <1>5, <1>8 DEF IsFirstMatch

\* Every step keeps the dates in order and the live links apart.
LEMMA LinkStep == TypeInv /\ AttemptInv /\ LinkInv /\ [Next]_vars => LinkInv'
<1> DEFINE Dated == HoursCoverLink /\ ExpiryCoversLink /\ UsedExpiryCoversLink
<1>1. SUFFICES ASSUME TypeInv, AttemptInv, LinkInv, [Next]_vars,
                      ContentOutlivesLink, ~aliased'
               PROVE  Dated' /\ UniqueLiveToken'
    BY DEF LinkInv, ContentOutlivesLink
<1>2. /\ clock \in Nat
      /\ tokens \in [DOMAIN tokens -> TokenType]
      /\ \A t \in DOMAIN tokens :
            /\ tokens[t].valid_until \in Nat
            /\ tokens[t].content_expires_after_hours \in Nat \cup {NULL}
            /\ tokens[t].content_expires_at \in Nat \cup {NULL}
  <2>1. clock \in Nat /\ tokens \in [DOMAIN tokens -> TokenType]
      BY <1>1 DEF TypeInv, TypeOK, DBTypeOK, TablesOK
  <2>2. \A t \in DOMAIN tokens : tokens[t] \in TokenType
      BY <2>1
  <2>3. QED
      BY <2>1, <2>2 DEF TokenType
<1> USE DEF HoursCoverLink, ExpiryCoversLink, UsedExpiryCoversLink
<1>3. CASE UNCHANGED vars
  <2>1. Dated' /\ UniqueLiveToken'
      BY <1>1, <1>3 DEF LinkInv, vars, UniqueLiveToken, IsLive
  <2>2. QED
      BY <2>1
<1>4. CASE Next
  <2>1. /\ ~aliased
        /\ \A t \in DOMAIN tokens' \ DOMAIN tokens :
              \A r \in Requests : req[r].token_id # t
      BY <1>1, <1>4, NewIdsAreFree
  <2>2. Dated /\ UniqueLiveToken /\ UsedAttemptOver
      BY <1>1, <2>1 DEF LinkInv, AttemptInv
  \* A link that lives on was live, and is dated as it was.
  <2>3. ASSUME DOMAIN tokens' \subseteq DOMAIN tokens,
               \A t \in DOMAIN tokens' :
                   tokens'[t].path = tokens[t].path /\ (IsLive(t)' => IsLive(t))
        PROVE  UniqueLiveToken'
      BY <2>2, <2>3 DEF UniqueLiveToken
  <2>4. CASE Creates
    <3>1. PICK path \in Paths, o \in Options : CreateToken(path, o) /\ UNCHANGED <<clock, req>>
        BY <2>4 DEF Creates
    <3>2. \A t \in DOMAIN tokens : t \in DOMAIN tokens' /\ tokens'[t] = tokens[t]
        BY <3>1, CreateKeeps
    <3>3. PICK u \in RowIds : AddsRow(u, path, o)
        BY <3>1, CreateKeeps
    <3>4. /\ o.valid_for \in Nat
          /\ o.content_expires_after_hours \in Nat \cup {NULL}
          /\ o.content_expires_after_hours # NULL =>
                o.valid_for <= o.content_expires_after_hours
        BY <1>1, ConstantsOK DEF OptionType, ContentOutlivesLink
    <3>5. HoursCoverLink'
        BY <1>2, <2>2, <3>1, <3>2, <3>3, <3>4 DEF AddsRow
    <3>6. ExpiryCoversLink'
        BY <2>1, <2>2, <3>1, <3>2
    <3>7. UsedExpiryCoversLink'
        BY <2>2, <3>2, <3>3 DEF AddsRow
    <3>8. IsNotFound(path)
        BY <3>1 DEF CreateToken
    <3>9. \A t \in DOMAIN tokens : tokens[t].path = path => ~IsLive(t)
        BY <1>1, <2>2, <3>8, NotFoundNotLive
    <3>10. \A t \in DOMAIN tokens : IsLive(t)' => IsLive(t)
        BY <3>1, <3>2 DEF IsLive
    <3>11. UniqueLiveToken'
        BY <2>2, <3>2, <3>3, <3>9, <3>10 DEF AddsRow, UniqueLiveToken
    <3>12. QED
        BY <3>5, <3>6, <3>7, <3>11
  <2>5. ASSUME NEW r \in Requests, Starts(r)
        PROVE  Dated' /\ UniqueLiveToken'
    <3>1. /\ UNCHANGED clock
          /\ DOMAIN tokens' = DOMAIN tokens
          /\ \A t \in DOMAIN tokens :
                /\ tokens'[t].path = tokens[t].path
                /\ tokens'[t].valid_until = tokens[t].valid_until
                /\ tokens'[t].content_expires_after_hours = tokens[t].content_expires_after_hours
                /\ tokens'[t].content_expires_at = tokens[t].content_expires_at
                /\ tokens'[t].used = tokens[t].used
        BY <1>2, <2>5 DEF Starts, InitiateUpload, TokenType
    <3>2. \A q \in Requests : req'[q].pc = "mark" => req'[q] = req[q]
        BY <2>5 DEF Starts, OthersKeep
    <3>3. UniqueLiveToken'
        BY <2>3, <3>1 DEF IsLive
    <3>4. QED
        BY <2>2, <3>1, <3>2, <3>3
  <2>6. ASSUME NEW r \in Requests, Dates(r)
        PROVE  Dated' /\ UniqueLiveToken'
    <3>1. UNCHANGED <<clock, tokens>>
        BY <2>6 DEF Dates
    <3>2. /\ \A q \in Requests \ {r} : req'[q] = req[q]
          /\ req'[r].token_id = req[r].token_id
          /\ req[r].token_id \in DOMAIN tokens
          /\ req'[r].expires_at = ContentExpiry(req[r].token_id)
        BY <2>6 DEF Dates, OthersKeep
    <3>3. ContentExpiry(req[r].token_id) # NULL =>
              tokens[req[r].token_id].valid_until <= ContentExpiry(req[r].token_id)
        BY <1>2, <2>2, <3>2 DEF ContentExpiry
    <3>4. ExpiryCoversLink'
        BY <2>2, <3>1, <3>2, <3>3
    <3>5. UniqueLiveToken'
        BY <2>3, <3>1 DEF IsLive
    <3>6. QED
        BY <2>2, <3>1, <3>4, <3>5
  <2>7. ASSUME NEW r \in Requests, Marks(r)
        PROVE  Dated' /\ UniqueLiveToken'
    <3> DEFINE t == req[r].token_id
    <3>1. /\ UNCHANGED clock
          /\ DOMAIN tokens' = DOMAIN tokens
          /\ \A u \in DOMAIN tokens :
                /\ tokens'[u].path = tokens[u].path
                /\ tokens'[u].valid_until = tokens[u].valid_until
                /\ tokens'[u].content_expires_after_hours = tokens[u].content_expires_after_hours
        BY <1>2, <2>7 DEF Marks, MarkUsed, TokenType
    <3>2. \A q \in Requests : req'[q].pc = "mark" => req'[q] = req[q]
        BY <2>7 DEF Marks, OthersKeep, Attempting
    <3>3. \A u \in DOMAIN tokens :
              \/ tokens'[u] = tokens[u]
              \/ /\ u = t /\ req[r].attempt_counter = tokens[t].attempt_counter
                 /\ tokens'[u].used
                 /\ tokens'[u].content_expires_at = req[r].expires_at
        BY <1>2, <2>7 DEF Marks, MarkUsed, TokenType
    <3>4. req[r].pc = "mark" /\ Attempting(r)
        BY <2>7 DEF Marks, Attempting
    <3>5. UsedExpiryCoversLink'
        BY <2>2, <3>1, <3>3, <3>4
    <3>6. \A u \in DOMAIN tokens : IsLive(u)' => IsLive(u)
        BY <2>2, <3>1, <3>3, <3>4 DEF UsedAttemptOver, IsLive
    <3>7. UniqueLiveToken'
        BY <2>3, <3>1, <3>6
    <3>8. QED
        BY <2>2, <3>1, <3>2, <3>5, <3>7
  <2>8. CASE Deletes
    <3>1. /\ UNCHANGED <<clock, req>>
          /\ DOMAIN tokens' \subseteq DOMAIN tokens
          /\ \A t \in DOMAIN tokens' : tokens'[t] = tokens[t]
        BY <2>8 DEF Deletes, Delete, Restrict
    <3>2. UniqueLiveToken'
        BY <2>3, <3>1 DEF IsLive
    <3>3. QED
        BY <2>2, <3>1, <3>2
  <2>9. CASE Waits
    <3>1. UNCHANGED tokens /\ clock' \in Nat /\ clock <= clock'
        BY <2>9 DEF Waits
    <3>2. HoursCoverLink'
        BY <1>2, <2>2, <3>1
    <3>3. ExpiryCoversLink'
        BY <2>2, <2>9 DEF Waits, Keeps, Attempting
    <3>4. \A t \in DOMAIN tokens : IsLive(t)' => IsLive(t)
        BY <1>2, <3>1 DEF IsLive, SqlLeq
    <3>5. UniqueLiveToken'
        BY <2>3, <3>1, <3>4
    <3>6. QED
        BY <2>2, <3>1, <3>2, <3>3, <3>5
  <2>10. QED
      BY <1>1, <1>4, <2>4, <2>5, <2>6, <2>7, <2>8, <2>9, StepKind
<1>5. QED
    BY <1>1, <1>3, <1>4

\* When the content of every link outlives the link and no rowid is given out
\* while its old id is in use, a path never has two rows that get_valid_token
\* could answer with: what its comment says holds "by construction".
THEOREM OneLiveToken == Spec => []UniqueLiveTokenIfContentOutlives
<1>1. Init => TypeInv /\ AttemptInv /\ LinkInv
    BY TypeInit, AttemptInit, LinkInit
<1>2. TypeInv /\ AttemptInv /\ LinkInv /\ [Next]_vars => (TypeInv /\ AttemptInv /\ LinkInv)'
    BY TypeNext, AttemptStep, LinkStep
<1>3. LinkInv => UniqueLiveTokenIfContentOutlives
    BY DEF LinkInv, UniqueLiveTokenIfContentOutlives
<1>4. QED
    BY <1>1, <1>2, <1>3, PTL DEF Spec

=============================================================================
