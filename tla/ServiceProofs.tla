---------------------------- MODULE ServiceProofs ----------------------------
(***************************************************************************)
(* The server with those who use it, for any number of them.  A step of    *)
(* the whole is a step of the server or leaves it as it is, so all that is *)
(* proved of the server holds here.  What visitors and clients are         *)
(* promised follows from what they hold: as long as the content is to be   *)
(* kept, the row they were led to is still the row of their upload.        *)
(***************************************************************************)
EXTENDS DropBoxProofs, Service

\* Only a visitor of a file has one in his handler's locals.
GoodVisit ==
    {x \in VisitType :
        /\ x.pc \in {"listing", "zipping"} => x.file_id = 0
        /\ x.pc = "opening" => x.file_id \in RowIds}

VisitsSet == visits \in [Visitors -> GoodVisit]

CallersTyped == VisitsSet /\ ClientTypeOK

\* The row of the upload whose content the visitor was promised
StillThere(t, v) ==
    /\ t \in DOMAIN tokens
    /\ tokens[t].used /\ ~tokens[t].late
    /\ tokens[t].by = visits[v].owner
    /\ tokens[t].published = visits[v].published
    /\ tokens[t].content_expires_at = visits[v].until

\* A visitor of the page or of the zip holds that row and its last attempt,
Led(v) ==
    visits[v].pc \in {"listing", "zipping"} /\ Kept(v) =>
        /\ StillThere(visits[v].token_id, v)
        /\ visits[v].attempt_counter = tokens[visits[v].token_id].attempt_counter
        /\ visits[v].listed \subseteq visits[v].published

\* ... and a visitor of a file has the name of one of its blobs.
Found(v) ==
    visits[v].pc = "opening" /\ Kept(v) =>
        /\ \E t \in RowIds : StillThere(t, v)
        /\ visits[v].file_id \in visits[v].published
        /\ visits[v].data = files[visits[v].file_id].data

\* The answers of VisitorsGetPublished
Served(v) ==
    visits[v].pc = "done" =>
        /\ visits[v].answer \notin {"not_found", "form"}
        /\ visits[v].answer = "page" =>
              /\ visits[v].listed \subseteq visits[v].files
              /\ visits[v].files \subseteq visits[v].published
        /\ visits[v].answer = "file" => visits[v].bytes = {visits[v].owner}
        /\ visits[v].answer = "zip" => visits[v].listed = {}
        /\ visits[v].answer = "error" => visits[v].file_id = 0

\* The content of a used link that has no date is kept for ever: the two
\* columns that get_valid_file looks at agree.
UsedDated ==
    \A t \in DOMAIN tokens :
        tokens[t].used /\ tokens[t].content_expires_at = NULL =>
            tokens[t].content_expires_after_hours = NULL

VisitInv ==
    ContentOutlivesLink /\ ~aliased =>
        UsedDated /\ \A v \in Visitors : Led(v) /\ Found(v) /\ Served(v)

\* A client that posts has a token of its path,
PostsToPath(c) ==
    clients[c].pc = "posting" =>
        /\ Active(c)
        /\ req[c].token_id \in DOMAIN tokens =>
              tokens[req[c].token_id].path = PathOfUrl(c)

\* ... and one that was told the url, and is owed its file, has sealed it.
SealedByClient(t, c) ==
    /\ t \in DOMAIN tokens
    /\ tokens[t].path = PathOfUrl(c)
    /\ tokens[t].used /\ ~tokens[t].late
    /\ tokens[t].by = c
    /\ tokens[t].published # {}
    /\ tokens[t].content_expires_at = clients[c].until

OwedIsSealed(c) ==
    /\ clients[c].pc = "told"
    /\ clients[c].owed
    /\ ~SqlLeq(clients[c].until, clock)
    => \E t \in RowIds : SealedByClient(t, c)

ClientInv == ~aliased => \A c \in Clients : PostsToPath(c) /\ OwedIsSealed(c)

-----------------------------------------------------------------------------
(* The steps of the whole are steps of the server                          *)

\* A program that is answered that its path is taken leaves the server as it
\* was.
LEMMA NoRowNoReuse ==
    ASSUME TypeInv, UNCHANGED <<tokens, files>>, RecordReuse
    PROVE  UNCHANGED aliased
BY DEF TypeInv, TypeOK, RecordReuse, ReusesId

\* What the command-line client does to the server, the admin and an upload
\* can do, too.
LEMMA ClientIsServed ==
    ASSUME TypeInv, ClientTypeOK, RunClients
    PROVE  Next \/ UNCHANGED vars
<1>1. PICK c \in Clients : ClientStep(c)
    BY DEF RunClients
<1>2. c \in Requests /\ clients[c].path \in Paths
    BY ClientConstantsOK DEF ClientTypeOK, ClientType
<1>3. UploadStep(c) => Next
    BY <1>2 DEF RunClients, Next, Serve, HandleUpload
<1>4. CASE AskLink(c)
  <2>1. CASE \E hours \in ExpiresHours : CreateToken(clients[c].path, LinkWanted(hours))
    <3>1. \E o \in Options : CreateToken(clients[c].path, o)
        BY <2>1, ClientConstantsOK
    <3>2. UNCHANGED <<storageVars, req>>
        BY <1>4 DEF AskLink
    <3>3. QED
        BY <1>2, <3>1, <3>2 DEF RunClients, Next, Serve, GenerateToken
  <2>2. CASE UNCHANGED dbVars
    <3>1. UNCHANGED aliased
        BY <2>2, NoRowNoReuse DEF RunClients, dbVars
    <3>2. QED
        BY <1>4, <2>2, <3>1 DEF AskLink, RunClients, vars, dbVars, storageVars
  <2>3. QED
      BY <1>4, <2>1, <2>2 DEF AskLink
<1>5. CASE PostFile(c)
    BY <1>3, <1>5 DEF PostFile, UploadStep, LookUpToken
<1>6. CASE Posting(c)
    BY <1>3, <1>6 DEF Posting
<1>7. QED
    BY <1>1, <1>4, <1>5, <1>6 DEF ClientStep

\* So does everybody else.
LEMMA ServedStep ==
    ASSUME TypeInv, ClientTypeOK, [ServiceNext]_serviceVars
    PROVE  [Next]_vars
<1>1. UNCHANGED serviceVars => UNCHANGED vars
    BY DEF serviceVars
<1>2. QED
    BY <1>1, ClientIsServed DEF ServiceNext, ServerStep, Browse

-----------------------------------------------------------------------------
(* Types                                                                   *)

\* A client that has its answer
LEMMA ToldType ==
    ASSUME NEW x \in ClientType, NEW until \in Nat \cup {NULL}, NEW owed \in BOOLEAN
    PROVE  [x EXCEPT !.pc = "told", !.until = until, !.owed = owed] \in ClientType
BY DEF ClientType

\* A client that goes on or gives up keeps its type.
LEMMA BecomesType ==
    ASSUME ClientTypeOK, NEW c \in Clients,
           NEW pc \in {"start", "ready", "posting", "told", "failed"}, Becomes(c, pc)
    PROVE  ClientTypeOK'
<1>1. clients[c] \in ClientType
    BY DEF ClientTypeOK
<1>2. [clients[c] EXCEPT !.pc = pc] \in ClientType
    BY <1>1 DEF ClientType
<1>3. clients' = [clients EXCEPT ![c] = [clients[c] EXCEPT !.pc = pc]]
    BY DEF Becomes
<1>4. QED
    BY <1>2, <1>3 DEF ClientTypeOK

\* Every step keeps the type of the clients.
LEMMA ClientTypeStep ==
    ASSUME TypeInv, ClientTypeOK, [ServiceNext]_serviceVars
    PROVE  ClientTypeOK'
<1>1. UNCHANGED clients => ClientTypeOK'
    BY DEF ClientTypeOK
<1>2. ASSUME ClientsCutOff PROVE ClientTypeOK'
  <2>1. \A c \in Clients :
            clients[c] \in ClientType /\ [clients[c] EXCEPT !.pc = "failed"] \in ClientType
      BY DEF ClientTypeOK, ClientType
  <2>2. QED
      BY <1>2, <2>1 DEF ClientsCutOff, ClientTypeOK
<1>3. ASSUME NEW c \in Clients, ClientStep(c) PROVE ClientTypeOK'
  <2>1. c \in Requests
      BY ClientConstantsOK
  <2>2. CASE AskLink(c) \/ PostFile(c)
      BY <2>2, BecomesType DEF AskLink, PostFile
  <2>3. CASE Posting(c)
    <3>1. CASE UNCHANGED clients \/ Becomes(c, "failed")
        BY <1>1, <3>1, BecomesType
    <3>2. CASE ~(UNCHANGED clients \/ Becomes(c, "failed"))
      <4>1. PICK owed \in BOOLEAN :
                clients' = [clients EXCEPT ![c].pc = "told",
                                           ![c].until = req[c].expires_at,
                                           ![c].owed = owed]
          BY <2>3, <3>2 DEF Posting
      <4>2. req[c].expires_at \in Nat \cup {NULL}
          BY <2>1 DEF TypeInv, TypeOK, UploadTypeOK, RequestType
      <4>3. clients' = [clients EXCEPT ![c] =
                           [clients[c] EXCEPT !.pc = "told", !.until = req[c].expires_at,
                                              !.owed = owed]]
          BY <4>1 DEF ClientTypeOK
      <4>4. clients[c] \in ClientType
          BY DEF ClientTypeOK
      <4>5. [clients[c] EXCEPT !.pc = "told", !.until = req[c].expires_at, !.owed = owed]
                \in ClientType
          BY <4>2, <4>4, ToldType
      <4>6. QED
          BY <4>3, <4>5 DEF ClientTypeOK
    <3>3. QED
        BY <3>1, <3>2
  <2>4. QED
      BY <1>3, <2>2, <2>3 DEF ClientStep
<1>4. QED
    BY <1>1, <1>2, <1>3 DEF ServiceNext, ServerStep, RunClients, Browse, serviceVars

\* The server does not notice whether its requests come from visitors,
\* clients or anybody else: whatever is true of it alone is true here.
THEOREM ServesAsAlone == ServiceSpec => Spec /\ []ClientTypeOK
<1>1. ServiceInit => Init /\ TypeInv /\ ClientTypeOK
  <2>1. ServiceInit => ClientTypeOK
      BY DEF ServiceInit, ClientInit, ClientTypeOK, ClientType
  <2>2. QED
      BY <2>1, TypeInit DEF ServiceInit
<1>2. TypeInv /\ ClientTypeOK /\ [ServiceNext]_serviceVars => [Next]_vars
    BY ServedStep
<1>3. TypeInv /\ ClientTypeOK /\ [ServiceNext]_serviceVars => (TypeInv /\ ClientTypeOK)'
    BY ServedStep, ClientTypeStep, TypeNext
<1>4. QED
    BY <1>1, <1>2, <1>3, PTL DEF ServiceSpec, Spec

-----------------------------------------------------------------------------
(* The types of the visitors                                               *)

\* Nobody is promised anything before his first query, and whoever leaves
\* has no answer.
LEMMA NewIsGood ==
    /\ NewVisit \in GoodVisit /\ Gone \in GoodVisit
    /\ NewVisit.owner = NULL /\ NewVisit.file_id = 0
    /\ Gone.pc = "done" /\ Gone.answer = "none"
BY DEF NewVisit, Gone, GoodVisit, VisitType

\* What somebody is owed is typed.
LEMMA DueType ==
    ASSUME TypeInv, NEW links \in SUBSET DOMAIN tokens, NEW x \in Due(links)
    PROVE  x \in VisitType /\ x.file_id = 0
<1>1. NewVisit \in VisitType /\ NewVisit.file_id = 0
    BY NewIsGood DEF GoodVisit
<1>2. CASE links = {}
    BY <1>1, <1>2 DEF Due
<1>3. CASE links # {}
  <2>1. PICK t \in DOMAIN tokens : x = Owed(t)
      BY <1>3 DEF Due
  <2>2. /\ tokens[t].by \in Requests \cup {NULL}
        /\ tokens[t].published \in SUBSET RowIds
        /\ tokens[t].published \cap DOMAIN metadata \in SUBSET RowIds
        /\ tokens[t].content_expires_at \in Nat \cup {NULL}
      BY DEF TypeInv, TypeOK, DBTypeOK, TablesOK, TokenType
  <2>3. x = [NewVisit EXCEPT !.owner = tokens[t].by,
                             !.published = tokens[t].published,
                             !.listed = tokens[t].published \cap DOMAIN metadata,
                             !.until = tokens[t].content_expires_at]
      BY <2>1 DEF Owed
  <2>4. x.file_id = 0
      BY <1>1, <2>3 DEF VisitType
  <2>5. x \in VisitType
      BY <1>1, <2>2, <2>3 DEF VisitType
  <2>6. QED
      BY <2>4, <2>5
<1>4. QED
    BY <1>2, <1>3

\* An answer leaves the visitor typed.
LEMMA AnswerType ==
    ASSUME VisitsSet, NEW v \in Visitors, NEW x \in VisitType,
           NEW answer \in {"not_found", "form", "page", "zip", "file", "error"},
           NEW fs \in SUBSET RowIds, NEW bytes \in SUBSET Requests,
           Answer(v, x, answer, fs, bytes)
    PROVE  VisitsSet'
<1>1. [x EXCEPT !.pc = "done", !.token_id = 0, !.attempt_counter = 0,
                !.data = NULL, !.answer = answer, !.files = fs, !.bytes = bytes]
          \in GoodVisit
  <2> DEFINE y == [x EXCEPT !.pc = "done", !.token_id = 0, !.attempt_counter = 0,
                            !.data = NULL, !.answer = answer, !.files = fs,
                            !.bytes = bytes]
  <2>1. y \in VisitType /\ y.pc = "done"
      BY DEF VisitType
  <2>2. QED
      BY <2>1 DEF GoodVisit
<1>2. Gone \in GoodVisit
    BY NewIsGood
<1>3. QED
    BY <1>1, <1>2 DEF Answer, VisitsSet

\* So does a query that leads him on,
LEMMA LedType ==
    ASSUME TypeInv, VisitsSet, NEW v \in Visitors, NEW x \in VisitType, x.file_id = 0,
           NEW t \in DOMAIN tokens, NEW pc \in {"listing", "zipping"},
           visits' = [visits EXCEPT
                        ![v] = [x EXCEPT
                                  !.pc = pc,
                                  !.token_id = t,
                                  !.attempt_counter = tokens[t].attempt_counter]]
    PROVE  VisitsSet'
<1>1. t \in RowIds /\ tokens[t].attempt_counter \in Nat
    BY DEF TypeInv, TypeOK, DBTypeOK, TablesOK, TokenType
<1>2. [x EXCEPT !.pc = pc, !.token_id = t,
                !.attempt_counter = tokens[t].attempt_counter] \in GoodVisit
    BY <1>1 DEF GoodVisit, VisitType
<1>3. QED
    BY <1>2 DEF VisitsSet

\* ... and one that finds a file.
LEMMA FoundType ==
    ASSUME TypeInv, VisitsSet, NEW v \in Visitors, NEW x \in VisitType,
           NEW f \in DOMAIN files,
           visits' = [visits EXCEPT
                        ![v] = [x EXCEPT !.pc = "opening",
                                         !.file_id = f,
                                         !.data = files[f].data]]
    PROVE  VisitsSet'
<1>1. f \in RowIds /\ files[f].data \in BlobType
    BY DEF TypeInv, TypeOK, DBTypeOK, TablesOK, FileType
<1>2. [x EXCEPT !.pc = "opening", !.file_id = f, !.data = files[f].data] \in GoodVisit
    BY <1>1 DEF GoodVisit, VisitType
<1>3. QED
    BY <1>2 DEF VisitsSet

\* The links that somebody may be owed for are rows of the table.
LEMMA LinksAreRows ==
    ASSUME NEW path, NEW f
    PROVE  /\ KeptLinks(path) \in SUBSET DOMAIN tokens
           /\ Publishers(path, f) \in SUBSET DOMAIN tokens
BY DEF KeptLinks, Publishers

\* Every step of a visitor keeps the visitors typed.
LEMMA BrowseType ==
    ASSUME TypeInv, VisitsSet, NEW v \in Visitors, VisitStep(v) \/ LeaveVisit(v)
    PROVE  VisitsSet'
<1>0. visits[v] \in VisitType
    BY DEF VisitsSet, GoodVisit
<1>1. NoAnswer(v) => VisitsSet'
    BY NewIsGood DEF NoAnswer, VisitsSet
<1>2. CASE VisitLink(v)
  <2>1. SUFFICES ASSUME NEW path \in Paths,
                        NEW x \in Due(KeptLinks(path)),
                        \/ Answer(v, x, "not_found", {}, {})
                        \/ Answer(v, x, "form", {}, {}) \/ NoAnswer(v)
                        \/ \E t \in Matching(path), pc \in {"listing", "zipping"} :
                              visits' = [visits EXCEPT
                                 ![v] = [x EXCEPT
                                           !.pc = pc,
                                           !.token_id = t,
                                           !.attempt_counter = tokens[t].attempt_counter]]
                 PROVE  VisitsSet'
      BY <1>2 DEF VisitLink
  <2>2. x \in VisitType /\ x.file_id = 0
      BY DueType, LinksAreRows
  <2>3. Matching(path) \subseteq DOMAIN tokens
      BY DEF Matching
  <2>4. Answer(v, x, "not_found", {}, {}) \/ Answer(v, x, "form", {}, {}) => VisitsSet'
      BY <2>2, AnswerType
  <2>5. ASSUME NEW t \in Matching(path), NEW pc \in {"listing", "zipping"},
               visits' = [visits EXCEPT
                            ![v] = [x EXCEPT
                                      !.pc = pc,
                                      !.token_id = t,
                                      !.attempt_counter = tokens[t].attempt_counter]]
        PROVE  VisitsSet'
      BY <2>2, <2>3, <2>5, LedType
  <2>6. QED
      BY <1>1, <2>1, <2>4, <2>5
<1>3. CASE ShowPage(v)
  <2>1. FilesFound(v) \in SUBSET RowIds
      BY DEF FilesFound, FilesOfAttempt, TypeInv, TypeOK, DBTypeOK, TablesOK
  <2>2. QED
      BY <1>0, <1>3, <2>1, AnswerType DEF ShowPage
<1>4. CASE SendZip(v)
    BY <1>0, <1>4, AnswerType DEF SendZip
<1>5. CASE VisitFile(v)
  <2>1. SUFFICES ASSUME NEW path \in Paths, NEW f \in RowIds,
                        NEW x \in Due(Publishers(path, f)),
                        IF IsServed(path, f)
                        THEN visits' = [visits EXCEPT
                                ![v] = [x EXCEPT !.pc = "opening", !.file_id = f, !.data = files[f].data]]
                        ELSE Answer(v, x, "not_found", {}, {})
                 PROVE  VisitsSet'
      BY <1>5 DEF VisitFile
  <2>2. x \in VisitType
      BY DueType, LinksAreRows
  <2>3. IsServed(path, f) => f \in DOMAIN files
      BY DEF IsServed
  <2>4. CASE IsServed(path, f)
      BY <2>1, <2>2, <2>3, <2>4, FoundType
  <2>5. CASE ~IsServed(path, f)
      BY <2>1, <2>2, <2>5, AnswerType
  <2>6. QED
      BY <2>4, <2>5
<1>6. CASE ReadBlob(v)
  <2>1. visits[v].file_id \in RowIds
      BY <1>6 DEF ReadBlob, VisitsSet, GoodVisit
  <2>2. visits[v].data \in DOMAIN blobs => blobs[visits[v].data] \in SUBSET Requests
      BY DEF TypeInv, TypeOK, StorageTypeOK
  <2>3. QED
      BY <1>0, <1>6, <2>1, <2>2, AnswerType DEF ReadBlob
<1>7. CASE LeaveVisit(v)
    BY <1>1, <1>7 DEF LeaveVisit
<1>8. QED
    BY <1>2, <1>3, <1>4, <1>5, <1>6, <1>7 DEF VisitStep

\* So does every step of the whole.
LEMMA VisitTypeStep ==
    ASSUME TypeInv, VisitsSet, [ServiceNext]_serviceVars
    PROVE  VisitsSet'
<1>1. UNCHANGED visits => VisitsSet'
    BY DEF VisitsSet
<1>2. VisitsEnd => VisitsSet'
    BY NewIsGood DEF VisitsEnd, VisitsSet
<1>3. QED
    BY <1>1, <1>2, BrowseType DEF ServiceNext, ServerStep, Browse, serviceVars

\* The server, its visitors and its clients stay within their types together.
THEOREM CallersHold == ServiceSpec => []CallersTyped
<1>1. ServiceInit => VisitsSet
    BY NewIsGood DEF ServiceInit, DownloadsInit, VisitsSet
<1>2. TypeInv /\ VisitsSet /\ [ServiceNext]_serviceVars => VisitsSet'
    BY VisitTypeStep
<1>3. QED
    BY <1>1, <1>2, ServesAsAlone, TypesHold, PTL DEF ServiceSpec, CallersTyped

\* What visitors, clients and handlers hold in their locals stays within the
\* types, whatever the others do.
THEOREM ServiceTypes == ServiceSpec => []ServiceTypeOK
<1>1. TypeInv /\ CallersTyped => ServiceTypeOK
    BY DEF TypeInv, CallersTyped, VisitsSet, GoodVisit, DownloadsTypeOK, ServiceTypeOK
<1>2. QED
    BY <1>1, CallersHold, ServesAsAlone, TypesHold, PTL

-----------------------------------------------------------------------------
(* What the visitors hold                                                  *)

\* get_valid_token answers a path with its link that is sealed and not over:
\* no other row matches.
LEMMA SealedIsUsed ==
    ASSUME TypeInv, UsedExpiryCoversLink, UniqueLiveToken,
           NEW t \in DOMAIN tokens, IsShown(t)
    PROVE  IsUsed(tokens[t].path, t)
<1>1. clock \in Nat
    BY DEF TypeInv, TypeOK, DBTypeOK
<1>2. DOMAIN tokens \subseteq Int
    BY DEF TypeInv, TypeOK, DBTypeOK, TablesOK, RowIds
<1>3. t \in Matching(tokens[t].path) /\ IsLive(t)
    BY DEF Matching, IsShown, IsLive
<1>4. ASSUME NEW u \in Matching(tokens[t].path)
      PROVE  u = t
  <2>1. u \in DOMAIN tokens /\ tokens[u].path = tokens[t].path
      BY DEF Matching
  <2>2. /\ tokens[u].valid_until \in Nat
        /\ tokens[u].content_expires_at \in Nat \cup {NULL}
      BY <2>1 DEF TypeInv, TypeOK, DBTypeOK, TablesOK, TokenType
  <2>3. IsLive(u)
      BY <1>1, <2>1, <2>2 DEF Matching, SqlLeq, IsLive, UsedExpiryCoversLink
  <2>4. QED
      BY <1>3, <2>1, <2>3 DEF UniqueLiveToken
<1>5. QED
    BY <1>2, <1>3, <1>4 DEF IsUsed, IsFirstMatch, HasValidContent, IsShown

\* It answers with nothing else: one row is the first that matches.
LEMMA OneAnswer ==
    ASSUME TypeInv, NEW path, NEW t, IsUsed(path, t)
    PROVE  /\ ~IsNotFound(path)
           /\ \A u : IsUsed(path, u) => u = t
           /\ \A u : ~IsFresh(path, u)
<1>1. DOMAIN tokens \subseteq Int
    BY DEF TypeInv, TypeOK, DBTypeOK, TablesOK, RowIds
<1>2. \A u : IsFirstMatch(path, u) => u = t
    BY <1>1 DEF IsUsed, IsFirstMatch, Matching
<1>3. QED
    BY <1>2 DEF IsUsed, IsFresh, IsNotFound, IsFirstMatch

\* So a path whose content is to be kept is answered with its link.
LEMMA KeptIsUsed ==
    ASSUME ServerInv, ContentOutlivesLink, ~aliased, NEW path, NEW t \in KeptLinks(path)
    PROVE  IsUsed(path, t)
<1>1. TypeInv /\ UsedExpiryCoversLink /\ UniqueLiveToken
    BY DEF ServerInv, LinkInv
<1>2. t \in DOMAIN tokens /\ IsShown(t) /\ tokens[t].path = path
    BY DEF KeptLinks
<1>3. QED
    BY <1>1, <1>2, SealedIsUsed

\* The two columns that say until when the content is kept agree after every
\* step.
LEMMA UsedDatedStep ==
    ASSUME ServerInv, UsedDated, [Next]_vars, ~aliased'
    PROVE  UsedDated'
<1>1. CASE UNCHANGED vars
    BY <1>1 DEF vars, UsedDated
<1>2. CASE Next
  <2>1. TypeInv /\ DatesFit /\ tokens \in [DOMAIN tokens -> TokenType]
      BY <1>2, NewIdsAreFree
         DEF ServerInv, SealInv, TypeInv, TypeOK, DBTypeOK, TablesOK
  <2>2. CASE Creates
      BY <2>2, CreateKeeps DEF Creates, CreateToken, Insert, UsedDated
  <2>3. ASSUME NEW r \in Requests, Starts(r) PROVE UsedDated'
      BY <2>1, <2>3 DEF Starts, InitiateUpload, UsedDated, TokenType
  <2>4. ASSUME NEW r \in Requests, Marks(r) PROVE UsedDated'
    <3>1. PICK m : m = req[r].token_id
        OBVIOUS
    <3>2. CASE UNCHANGED tokens
        BY <3>2 DEF UsedDated
    <3>3. CASE ~UNCHANGED tokens
      <4>1. /\ m \in DOMAIN tokens
            /\ tokens' = [tokens EXCEPT ![m].used = TRUE,
                                         ![m].content_expires_at = req[r].expires_at,
                                         ![m].published = req[r].stored,
                                         ![m].by = r,
                                         ![m].late = (tokens[m].valid_until <= clock)]
          BY <2>4, <3>1, <3>3 DEF Marks, MarkUsed
      <4>2. req[r].expires_at \in Promise!Until(tokens[m].content_expires_after_hours)
          BY <2>1, <2>4, <3>1, <4>1 DEF Marks, DatesFit
      <4>3. req[r].expires_at = NULL => tokens[m].content_expires_after_hours = NULL
          BY <4>2, ConstantsOK DEF Promise!Until
      <4>4. /\ tokens'[m].content_expires_at = req[r].expires_at
            /\ tokens'[m].content_expires_after_hours = tokens[m].content_expires_after_hours
            /\ \A t \in DOMAIN tokens \ {m} : tokens'[t] = tokens[t]
            /\ DOMAIN tokens' = DOMAIN tokens
          BY <2>1, <4>1 DEF TokenType
      <4>5. QED
          BY <4>3, <4>4 DEF UsedDated
    <3>4. QED
        BY <3>2, <3>3
  <2>5. CASE Deletes
      BY <2>5 DEF Deletes, Delete, Restrict, UsedDated
  <2>6. CASE Waits \/ \E r \in Requests : Dates(r)
      BY <2>6 DEF Waits, Dates, UsedDated
  <2>7. QED
      BY <1>2, <2>1, <2>2, <2>3, <2>4, <2>5, <2>6, StepKind
<1>3. QED
    BY <1>1, <1>2

\* The row of an upload that is to be kept stays, and so do its files.
LEMMA LivesOn ==
    ASSUME ServerInv, [Next]_vars, ~aliased', NEW t \in DOMAIN tokens,
           tokens[t].used, ~tokens[t].late, ~SqlLeq(tokens[t].content_expires_at, clock')
    PROVE  /\ ~aliased /\ IsShown(t)
           /\ t \in DOMAIN tokens' /\ tokens'[t] = tokens[t]
           /\ RowsIntact(t) /\ RowsIntact(t)'
           /\ \A f \in tokens[t].published : files'[f] = files[f]
<1>1. TypeInv /\ AttemptInv /\ NameInv /\ RowInv /\ PublishInv /\ NowPassed
    BY DEF ServerInv, SealInv
<1>2. tokens[t].content_expires_at \in Nat \cup {NULL} /\ clock \in Nat
    BY <1>1 DEF TypeInv, TypeOK, DBTypeOK, TablesOK, TokenType
<1>3. CASE UNCHANGED vars
  <2>1. ~aliased /\ IsShown(t)
      BY <1>3 DEF vars, IsShown
  <2>2. RowsIntact(t)
      BY <1>1, <2>1 DEF PublishInv, ShownStored
  <2>3. RowsIntact(t)'
      BY <1>3, <2>2 DEF vars, RowsIntact, RowsOf, Holds
  <2>4. QED
      BY <1>3, <2>1, <2>2, <2>3 DEF vars
<1>4. CASE Next
  <2>1. clock' \in Nat /\ clock <= clock' /\ ~aliased
      BY <1>1, <1>4, LinkEnds, NewIdsAreFree
  <2>2. ~SqlLeq(tokens[t].content_expires_at, clock)
      BY <1>2, <2>1 DEF SqlLeq
  <2>3. IsShown(t)
      BY <2>2 DEF IsShown
  <2>4. t \in DOMAIN tokens'
      BY <1>1, <1>4, <2>2, GoneAreOver DEF IsExpired
  <2>5. TodoSelected /\ SelectionDoomed /\ ShownStored
      BY <1>1, <2>1 DEF PublishInv
  <2>6. QED
      BY <1>1, <1>4, <2>1, <2>3, <2>4, <2>5, ShownKeeps
<1>5. QED
    BY <1>3, <1>4

\* What is to be kept after a step was to be kept before it.
LEMMA KeptBefore ==
    ASSUME TypeInv, VisitsSet, [Next]_vars, NEW v \in Visitors,
           visits'[v] = visits[v], Kept(v)'
    PROVE  Kept(v)
<1>1. visits[v].until \in Nat \cup {NULL}
    BY DEF VisitsSet, GoodVisit, VisitType
<1>2. clock \in Nat /\ clock' \in Nat /\ clock <= clock'
  <2>1. clock \in Nat
      BY DEF TypeInv, TypeOK, DBTypeOK
  <2>2. QED
      BY <2>1, LinkEnds DEF vars
<1>3. QED
    BY <1>1, <1>2 DEF Kept, IsKept, SqlLeq

\* A visitor that does nothing keeps what he holds.
LEMMA VisitStays ==
    ASSUME ServerInv, VisitsSet, [Next]_vars, ~aliased', NEW v \in Visitors,
           visits'[v] = visits[v], Led(v), Found(v), Served(v)
    PROVE  (Led(v) /\ Found(v) /\ Served(v))'
<1>1. TypeInv
    BY DEF ServerInv
<1>2. Kept(v)' => Kept(v)
    BY <1>1, KeptBefore
<1>3. ASSUME NEW t, StillThere(t, v), Kept(v)'
      PROVE  /\ StillThere(t, v)'
             /\ tokens'[t] = tokens[t]
             /\ \A f \in tokens[t].published : files'[f] = files[f]
  <2>1. ~SqlLeq(tokens[t].content_expires_at, clock')
      BY <1>3 DEF StillThere, Kept, IsKept
  <2>2. /\ t \in DOMAIN tokens' /\ tokens'[t] = tokens[t]
        /\ \A f \in tokens[t].published : files'[f] = files[f]
      BY <1>3, <2>1, LivesOn DEF StillThere
  <2>3. QED
      BY <1>3, <2>2 DEF StillThere
<1>4. Led(v)'
    BY <1>2, <1>3 DEF Led
<1>5. Found(v)'
  <2>1. SUFFICES ASSUME visits[v].pc = "opening", Kept(v)'
                 PROVE  /\ \E t \in RowIds : StillThere(t, v)'
                        /\ visits[v].file_id \in visits[v].published
                        /\ visits[v].data = files'[visits[v].file_id].data
      BY DEF Found
  <2>2. PICK t \in RowIds : StillThere(t, v)
      BY <1>2, <2>1 DEF Found
  <2>3. /\ visits[v].file_id \in visits[v].published
        /\ visits[v].data = files[visits[v].file_id].data
        /\ visits[v].published = tokens[t].published
      BY <1>2, <2>1, <2>2 DEF Found, StillThere
  <2>4. QED
      BY <1>3, <2>1, <2>2, <2>3
<1>6. Served(v)'
    BY DEF Served
<1>7. QED
    BY <1>4, <1>5, <1>6

\* A visitor that is gone is promised nothing.
LEMMA GoneIsServed ==
    ASSUME NEW v \in Visitors, visits'[v] = Gone
    PROVE  (Led(v) /\ Found(v) /\ Served(v))'
BY NewIsGood DEF Led, Found, Served

\* An answer is as it should be when it has what the visitor is owed.
LEMMA AnswerServes ==
    ASSUME VisitsSet, NEW v \in Visitors, NEW x \in VisitType,
           NEW answer, NEW fs, NEW bytes, Answer(v, x, answer, fs, bytes),
           IsKept(x) =>
              /\ answer \notin {"not_found", "form"}
              /\ answer = "page" => x.listed \subseteq fs /\ fs \subseteq x.published
              /\ answer = "file" => bytes = {x.owner}
              /\ answer = "zip" => x.listed = {}
              /\ answer = "error" => x.file_id = 0
    PROVE  (Led(v) /\ Found(v) /\ Served(v))'
<1>1. CASE IsKept(x)
  <2>1. visits'[v] = [x EXCEPT !.pc = "done", !.token_id = 0, !.attempt_counter = 0,
                               !.data = NULL, !.answer = answer, !.files = fs,
                               !.bytes = bytes]
      BY <1>1 DEF Answer, VisitsSet
  <2>2. /\ visits'[v].pc = "done"
        /\ visits'[v].answer = answer
        /\ visits'[v].files = fs
        /\ visits'[v].bytes = bytes
        /\ visits'[v].owner = x.owner
        /\ visits'[v].published = x.published
        /\ visits'[v].listed = x.listed
        /\ visits'[v].file_id = x.file_id
      BY <2>1 DEF VisitType
  <2>3. QED
      BY <1>1, <2>2 DEF Led, Found, Served
<1>2. CASE ~IsKept(x)
  <2>1. visits'[v] = Gone
      BY <1>2 DEF Answer, VisitsSet
  <2>2. QED
      BY <2>1, GoneIsServed
<1>3. QED
    BY <1>1, <1>2

\* Only a link owes somebody something.
LEMMA KeptIsOwed ==
    ASSUME NEW links, NEW x \in Due(links), x.owner # NULL
    PROVE  \E t \in links : x = Owed(t)
BY NewIsGood DEF Due

\* A visitor who is led on holds the row of the link that owes him.
LEMMA OwedIsThere ==
    ASSUME UNCHANGED vars, NEW v \in Visitors, NEW path, NEW t \in KeptLinks(path),
           visits'[v].owner = Owed(t).owner, visits'[v].published = Owed(t).published,
           visits'[v].listed = Owed(t).listed, visits'[v].until = Owed(t).until
    PROVE  /\ StillThere(t, v)'
           /\ visits'[v].listed \subseteq visits'[v].published
<1>1. t \in DOMAIN tokens /\ tokens[t].used /\ ~tokens[t].late
    BY DEF KeptLinks, IsShown
<1>2. /\ Owed(t).owner = tokens[t].by
      /\ Owed(t).published = tokens[t].published
      /\ Owed(t).listed = tokens[t].published \cap DOMAIN metadata
      /\ Owed(t).until = tokens[t].content_expires_at
    BY DEF Owed, NewVisit
<1>3. UNCHANGED tokens
    BY DEF vars
<1>4. QED
    BY <1>1, <1>2, <1>3 DEF StillThere

\* get_valid_token leads whoever is owed something to the row of the link
\* that owes him.
LEMMA LinkServes ==
    ASSUME ServerInv, ContentOutlivesLink, ~aliased, VisitsSet, UNCHANGED vars,
           NEW v \in Visitors, VisitLink(v)
    PROVE  (Led(v) /\ Found(v) /\ Served(v))'
<1>1. SUFFICES ASSUME NEW path \in Paths,
                      NEW x \in Due(KeptLinks(path)),
                      \/ IsNotFound(path) /\ Answer(v, x, "not_found", {}, {})
                      \/ \E t \in Matching(path) :
                            IsFresh(path, t) /\ (Answer(v, x, "form", {}, {}) \/ NoAnswer(v))
                      \/ \E t \in Matching(path), pc \in {"listing", "zipping"} :
                            /\ IsUsed(path, t)
                            /\ visits' = [visits EXCEPT
                                 ![v] = [x EXCEPT
                                           !.pc = pc,
                                           !.token_id = t,
                                           !.attempt_counter = tokens[t].attempt_counter]]
               PROVE  (Led(v) /\ Found(v) /\ Served(v))'
    BY DEF VisitLink
<1>2. x \in VisitType
    BY DueType, LinksAreRows DEF ServerInv
<1>3. ASSUME x.owner # NULL
      PROVE  \E u \in KeptLinks(path) : x = Owed(u) /\ IsUsed(path, u)
    BY <1>3, KeptIsOwed, KeptIsUsed
<1>4. (\E u : IsUsed(path, u)) => ~IsNotFound(path) /\ \A t : ~IsFresh(path, t)
    BY OneAnswer DEF ServerInv
<1>5. CASE IsNotFound(path) /\ Answer(v, x, "not_found", {}, {})
  <2>1. ~IsKept(x)
      BY <1>3, <1>4, <1>5 DEF IsKept
  <2>2. QED
      BY <1>2, <1>5, <2>1, AnswerServes
<1>6. ASSUME NEW t, IsFresh(path, t), Answer(v, x, "form", {}, {})
      PROVE  (Led(v) /\ Found(v) /\ Served(v))'
  <2>1. ~IsKept(x)
      BY <1>3, <1>4, <1>6 DEF IsKept
  <2>2. QED
      BY <1>2, <1>6, <2>1, AnswerServes
<1>7. ASSUME NoAnswer(v)
      PROVE  (Led(v) /\ Found(v) /\ Served(v))'
  <2>1. visits'[v] = Gone
      BY <1>7 DEF NoAnswer, VisitsSet
  <2>2. QED
      BY <2>1, GoneIsServed
<1>8. ASSUME NEW t \in Matching(path), NEW pc \in {"listing", "zipping"},
             IsUsed(path, t),
             visits' = [visits EXCEPT
                ![v] = [x EXCEPT !.pc = pc, !.token_id = t,
                                 !.attempt_counter = tokens[t].attempt_counter]]
      PROVE  (Led(v) /\ Found(v) /\ Served(v))'
  <2>1. visits'[v] = [x EXCEPT !.pc = pc, !.token_id = t,
                               !.attempt_counter = tokens[t].attempt_counter]
      BY <1>8 DEF VisitsSet
  <2>2. /\ visits'[v].pc = pc
        /\ visits'[v].token_id = t
        /\ visits'[v].attempt_counter = tokens[t].attempt_counter
        /\ visits'[v].owner = x.owner
        /\ visits'[v].published = x.published
        /\ visits'[v].listed = x.listed
        /\ visits'[v].until = x.until
      BY <1>2, <2>1 DEF VisitType
  <2>3. ASSUME Kept(v)'
        PROVE  StillThere(t, v)' /\ visits'[v].listed \subseteq visits'[v].published
    <3>1. PICK u \in KeptLinks(path) : x = Owed(u) /\ IsUsed(path, u)
        BY <1>3, <2>2, <2>3 DEF Kept, IsKept
    <3>2. t = u
        BY <1>8, <3>1, OneAnswer DEF ServerInv
    <3>3. QED
        BY <2>2, <3>1, <3>2, OwedIsThere
  <2>4. UNCHANGED tokens
      BY DEF vars
  <2>5. QED
      BY <2>2, <2>3, <2>4 DEF Led, Found, Served
<1>9. QED
    BY <1>1, <1>5, <1>6, <1>7, <1>8

\* get_valid_file finds every file that a link has published, and leads the
\* visitor to its blob.
LEMMA FileServes ==
    ASSUME ServerInv, UsedDated, ~aliased, VisitsSet, UNCHANGED vars,
           NEW v \in Visitors, VisitFile(v)
    PROVE  (Led(v) /\ Found(v) /\ Served(v))'
<1>1. SUFFICES ASSUME NEW path \in Paths, NEW f \in RowIds,
                      NEW x \in Due(Publishers(path, f)),
                      IF IsServed(path, f)
                      THEN visits' = [visits EXCEPT
                              ![v] = [x EXCEPT !.pc = "opening", !.file_id = f, !.data = files[f].data]]
                      ELSE Answer(v, x, "not_found", {}, {})
               PROVE  (Led(v) /\ Found(v) /\ Served(v))'
    BY DEF VisitFile
<1>2. x \in VisitType
    BY DueType, LinksAreRows DEF ServerInv
<1>3. ASSUME IsKept(x)
      PROVE  \E t \in RowIds : /\ x = Owed(t) /\ t \in KeptLinks(path)
                               /\ f \in tokens[t].published
                               /\ IsServed(path, f)
  <2>1. PICK t \in Publishers(path, f) : x = Owed(t)
      BY <1>3, KeptIsOwed DEF IsKept
  <2>2. /\ t \in KeptLinks(path) /\ t \in DOMAIN tokens /\ f \in tokens[t].published
        /\ tokens[t].path = path /\ IsShown(t) /\ ~tokens[t].late
      BY DEF Publishers, KeptLinks
  <2>3. RowsIntact(t)
      BY <2>2 DEF ServerInv, PublishInv, ShownStored
  <2>4. f \in DOMAIN files /\ files[f].completed /\ files[f].data.token_id = t
      BY <2>2, <2>3 DEF RowsIntact, RowsOf
  <2>5. /\ t \in RowIds /\ clock \in Nat
        /\ tokens[t].content_expires_at \in Nat \cup {NULL}
      BY <2>2 DEF ServerInv, TypeInv, TypeOK, DBTypeOK, TablesOK, TokenType
  <2>6. IsServed(path, f)
      BY <2>2, <2>4, <2>5 DEF IsServed, IsShown, SqlLeq, UsedDated
  <2>7. QED
      BY <2>1, <2>2, <2>5, <2>6
<1>4. CASE ~IsServed(path, f)
  <2>1. Answer(v, x, "not_found", {}, {}) /\ ~IsKept(x)
      BY <1>1, <1>3, <1>4
  <2>2. QED
      BY <1>2, <2>1, AnswerServes
<1>5. CASE IsServed(path, f)
  <2>1. visits'[v] = [x EXCEPT !.pc = "opening", !.file_id = f, !.data = files[f].data]
      BY <1>1, <1>5 DEF VisitsSet
  <2>2. /\ visits'[v].pc = "opening"
        /\ visits'[v].file_id = f
        /\ visits'[v].data = files[f].data
        /\ visits'[v].owner = x.owner
        /\ visits'[v].published = x.published
        /\ visits'[v].listed = x.listed
        /\ visits'[v].until = x.until
      BY <1>2, <2>1 DEF VisitType
  <2>3. UNCHANGED <<tokens, files, clock>>
      BY DEF vars
  <2>4. ASSUME Kept(v)'
        PROVE  (\E t \in RowIds : StillThere(t, v)') /\ f \in visits'[v].published
    <3>1. IsKept(x)
        BY <2>2, <2>3, <2>4 DEF Kept, IsKept
    <3>2. PICK t \in RowIds : /\ x = Owed(t) /\ t \in KeptLinks(path)
                              /\ f \in tokens[t].published
        BY <1>3, <3>1
    <3>3. StillThere(t, v)'
        BY <2>2, <3>2, OwedIsThere
    <3>4. QED
        BY <2>3, <3>2, <3>3 DEF StillThere
  <2>5. QED
      BY <2>2, <2>3, <2>4 DEF Led, Found, Served
<1>6. QED
    BY <1>4, <1>5

\* get_files finds all that the upload has published, and only that.
LEMMA FilesServe ==
    ASSUME ServerInv, ~aliased, NEW v \in Visitors,
           visits[v].pc \in {"listing", "zipping"}, Led(v), Kept(v)
    PROVE  /\ visits[v].listed \subseteq FilesFound(v)
           /\ FilesFound(v) \subseteq visits[v].published
<1>1. PICK t : t = visits[v].token_id
    OBVIOUS
<1>2. /\ StillThere(t, v)
      /\ visits[v].attempt_counter = tokens[t].attempt_counter
      /\ visits[v].listed \subseteq visits[v].published
    BY <1>1 DEF Led
<1>3. IsShown(t)
    BY <1>2 DEF Kept, IsKept, StillThere, IsShown
<1>4. TokenIntact(t)
    BY <1>2, <1>3, ShownIsIntact DEF ServerInv, PublishInv, StillThere, ShownIntact
<1>5. FilesFound(v) = ListedFiles(t)
    BY <1>1, <1>2 DEF FilesFound, FilesOfAttempt, ListedFiles
<1>6. QED
    BY <1>2, <1>4, <1>5 DEF TokenIntact, StillThere

\* So the page has them all, and a zip is empty only when there are none.
LEMMA PageServes ==
    ASSUME ServerInv, ~aliased, VisitsSet, NEW v \in Visitors,
           ShowPage(v) \/ SendZip(v), Led(v)
    PROVE  (Led(v) /\ Found(v) /\ Served(v))'
<1>1. visits[v] \in VisitType
    BY DEF VisitsSet, GoodVisit
<1>2. CASE ShowPage(v)
  <2>1. Answer(v, visits[v], "page", FilesFound(v), {})
      BY <1>2 DEF ShowPage
  <2>2. IsKept(visits[v]) => /\ visits[v].listed \subseteq FilesFound(v)
                             /\ FilesFound(v) \subseteq visits[v].published
      BY <1>2, FilesServe DEF ShowPage, Kept
  <2>3. QED
      BY <1>1, <2>1, <2>2, AnswerServes
<1>3. CASE SendZip(v)
  <2>1. visits[v].file_id = 0
      BY <1>3 DEF SendZip, VisitsSet, GoodVisit
  <2>2. CASE FilesFound(v) = {}
    <3>1. Answer(v, visits[v], "zip", {}, {})
        BY <1>3, <2>2 DEF SendZip
    <3>2. IsKept(visits[v]) => visits[v].listed = {}
        BY <1>3, <2>2, FilesServe DEF SendZip, Kept
    <3>3. QED
        BY <1>1, <3>1, <3>2, AnswerServes
  <2>3. CASE FilesFound(v) # {}
    <3>1. Answer(v, visits[v], "error", {}, {})
        BY <1>3, <2>3 DEF SendZip
    <3>2. QED
        BY <1>1, <2>1, <3>1, AnswerServes
  <2>4. QED
      BY <2>2, <2>3
<1>4. QED
    BY <1>2, <1>3

\* The blob he was led to is there, with the bytes of the upload.
LEMMA BlobServes ==
    ASSUME ServerInv, ~aliased, VisitsSet, NEW v \in Visitors, ReadBlob(v), Found(v)
    PROVE  (Led(v) /\ Found(v) /\ Served(v))'
<1>1. visits[v] \in VisitType
    BY DEF VisitsSet, GoodVisit
<1>2. ASSUME IsKept(visits[v])
      PROVE  visits[v].data \in DOMAIN blobs /\ blobs[visits[v].data] = {visits[v].owner}
  <2>1. PICK t \in RowIds : StillThere(t, v)
      BY <1>2 DEF ReadBlob, Found, Kept
  <2>2. /\ visits[v].file_id \in tokens[t].published
        /\ visits[v].data = files[visits[v].file_id].data
      BY <1>2, <2>1 DEF ReadBlob, Found, Kept, StillThere
  <2>3. IsShown(t)
      BY <1>2, <2>1 DEF IsKept, StillThere, IsShown
  <2>4. RowsIntact(t)
      BY <2>1, <2>3 DEF ServerInv, PublishInv, ShownStored, StillThere
  <2>5. QED
      BY <2>1, <2>2, <2>4 DEF RowsIntact, Holds, StillThere
<1>3. CASE visits[v].data \in DOMAIN blobs
  <2>1. Answer(v, visits[v], "file", {visits[v].file_id}, blobs[visits[v].data])
      BY <1>3 DEF ReadBlob
  <2>2. QED
      BY <1>1, <1>2, <2>1, AnswerServes
<1>4. CASE visits[v].data \notin DOMAIN blobs
  <2>1. Answer(v, visits[v], "error", {}, {}) /\ ~IsKept(visits[v])
      BY <1>2, <1>4 DEF ReadBlob
  <2>2. QED
      BY <1>1, <2>1, AnswerServes
<1>5. QED
    BY <1>3, <1>4

\* Every step of the whole leaves each visitor with what he is owed.
LEMMA VisitInvStep ==
    ASSUME ServerInv, CallersTyped, VisitInv, [ServiceNext]_serviceVars
    PROVE  VisitInv'
<1>1. VisitsSet /\ [Next]_vars
    BY ServedStep DEF CallersTyped, ServerInv
<1>2. SUFFICES ASSUME ContentOutlivesLink, ~aliased'
               PROVE  UsedDated' /\ \A v \in Visitors : (Led(v) /\ Found(v) /\ Served(v))'
    BY DEF VisitInv, ContentOutlivesLink
<1>3. ~aliased /\ UsedDated
    BY <1>1, <1>2, NewIdsAreFree DEF vars, VisitInv
<1>4. UsedDated'
    BY <1>1, <1>2, <1>3, UsedDatedStep
<1>5. SUFFICES ASSUME NEW v \in Visitors
               PROVE  (Led(v) /\ Found(v) /\ Served(v))'
    BY <1>4
<1>6. Led(v) /\ Found(v) /\ Served(v)
    BY <1>2, <1>3 DEF VisitInv
<1>7. CASE visits'[v] = visits[v]
    BY <1>1, <1>2, <1>6, <1>7, VisitStays
<1>8. CASE visits'[v] = Gone
    BY <1>8, GoneIsServed
<1>9. CASE Browse
  <2>1. PICK u \in Visitors : VisitStep(u) \/ LeaveVisit(u)
      BY <1>9 DEF Browse
  <2>2. u # v => visits'[v] = visits[v]
      BY <1>1, <2>1 DEF VisitsSet, VisitStep, VisitLink, ShowPage, SendZip, VisitFile, ReadBlob,
                   LeaveVisit, Answer, NoAnswer
  <2>3. u = v /\ LeaveVisit(u) => visits'[v] = Gone
      BY <1>1 DEF VisitsSet, LeaveVisit, NoAnswer
  <2>4. UNCHANGED vars
      BY <1>9 DEF Browse
  <2>5. CASE u = v /\ VisitStep(v)
      BY <1>1, <1>2, <1>3, <1>6, <2>4, <2>5, LinkServes, FileServes, PageServes, BlobServes
         DEF VisitStep
  <2>6. QED
      BY <1>7, <1>8, <2>1, <2>2, <2>3, <2>5
<1>10. CASE VisitsEnd \/ UNCHANGED visits
    BY <1>7, <1>8, <1>10 DEF VisitsEnd
<1>11. QED
    BY <1>9, <1>10 DEF ServiceNext, ServerStep, serviceVars

\* For links whose content outlives them, whoever asks for a path or a file
\* whose content is to be kept until he is answered is not told that there is
\* no link, nor shown the form; the page lists the files that had metadata
\* when his link was looked up, and none that this upload has not published;
\* and a file that it has published comes with its bytes.  That the handlers
\* look a row up first and use it later does no harm, for any number of
\* visitors, uploads and rows, while the cleanup goes on.
THEOREM VisitorsServed == ContentOutlivesLink /\ ServiceSpec => []VisitorsGetPublished
<1>1. ContentOutlivesLink => ContentOutlivesLink'
    BY DEF ContentOutlivesLink
<1>2. ServiceInit => VisitInv
    BY DEF ServiceInit, Init, DBInit, DownloadsInit, NewVisit, VisitInv, UsedDated, Led, Found,
           Served
<1>3. ServerInv /\ CallersTyped /\ VisitInv /\ [ServiceNext]_serviceVars => VisitInv'
    BY VisitInvStep
<1>4. VisitInv /\ ContentOutlivesLink => VisitorsGetPublished
    BY DEF VisitInv, Served, VisitorsGetPublished
<1>5. QED
    BY <1>1, <1>2, <1>3, <1>4, ServesAsAlone, ServerHolds, CallersHold, PTL DEF ServiceSpec

-----------------------------------------------------------------------------
(* What the clients hold                                                   *)

\* A link keeps its path.
LEMMA PathStays ==
    ASSUME TypeInv, [Next]_vars, NEW t \in DOMAIN tokens \cap DOMAIN tokens'
    PROVE  tokens'[t].path = tokens[t].path
<1>1. tokens \in [DOMAIN tokens -> TokenType]
    BY DEF TypeInv, TypeOK, DBTypeOK, TablesOK
<1>2. CASE UNCHANGED vars
    BY <1>2 DEF vars
<1>3. CASE Creates
    BY <1>3, CreateKeeps DEF Creates
<1>4. CASE \E r \in Requests : Starts(r) \/ Dates(r) \/ Marks(r)
    BY <1>1, <1>4 DEF Starts, Dates, Marks, InitiateUpload, MarkUsed, TokenType
<1>5. CASE Deletes \/ Waits
    BY <1>5 DEF Deletes, Delete, Restrict, Waits
<1>6. QED
    BY <1>2, <1>3, <1>4, <1>5, StepKind

\* A request that is at work goes on with its token until it returns.
LEMMA GoesOnWithToken ==
    ASSUME TypeInv, NEW r \in Requests, Active(r), UploadStep(r), req'[r].pc # "done"
    PROVE  Active(r)' /\ req'[r].token_id = req[r].token_id
<1>1. req \in [Requests -> RequestType]
    BY DEF TypeInv, TypeOK, UploadTypeOK
<1>2. ~LookUpToken(r) /\ ~Return(r)
  <2>1. ~LookUpToken(r)
      BY DEF Active, LookUpToken, LookUpTokenAt, RefusePath
  <2>2. ~Return(r)
      BY <1>1 DEF Return, Blank
  <2>3. QED
      BY <2>1, <2>2
<1>3. Attempting(r)'
  <2>1. CASE StartAttempt(r)
      BY <1>1, <1>2, <2>1 DEF StartAttempt, Attempting, RequestType
  <2>2. CASE NextField(r) \/ RecordFile(r)
      BY <1>1, <1>2, <2>2 DEF NextField, RecordFile, Attempting, RequestType
  <2>3. CASE CopyBytes(r)
      BY <1>1, <2>3 DEF CopyBytes, Goto, Attempting, RequestType
  <2>4. CASE DeleteEmptyBlob(r) \/ DeleteEmptyFile(r) \/ StoreBlob(r)
      BY <1>1, <2>4 DEF DeleteEmptyBlob, DeleteEmptyFile, StoreBlob, Goto, Attempting,
                        RequestType
  <2>5. CASE CompleteFile(r) \/ EndOfBody(r)
      BY <1>1, <1>2, <2>5 DEF CompleteFile, EndOfBody, Attempting, RequestType
  <2>6. ~MarkTokenUsed(r) /\ ~Abort(r)
      BY <1>2 DEF MarkTokenUsed, Abort
  <2>7. QED
      BY <1>2, <2>1, <2>2, <2>3, <2>4, <2>5, <2>6 DEF UploadStep
<1>4. QED
    BY <1>3, UploadAdvances DEF Advances, Takes, GoesOn, Attempting, Active

\* The token at which a request is at work keeps the path that it had.
LEMMA PostStays ==
    ASSUME TypeInv, [Next]_vars, ~aliased', NEW c \in Clients,
           req'[c].token_id = req[c].token_id, Active(c) => Active(c)',
           clients'[c] = clients[c], PostsToPath(c)
    PROVE  PostsToPath(c)'
<1>1. SUFFICES ASSUME clients[c].pc = "posting", req[c].token_id \in DOMAIN tokens'
               PROVE  tokens'[req[c].token_id].path = PathOfUrl(c)'
    BY DEF PostsToPath
<1>2. c \in Requests
    BY ClientConstantsOK
<1>3. req[c].token_id \in DOMAIN tokens
    BY <1>1, <1>2, NewIdsAreFree DEF vars
<1>4. QED
    BY <1>1, <1>3, PathStays DEF PostsToPath, PathOfUrl

\* What a client has sealed stays for as long as it is to be kept.
LEMMA SealStays ==
    ASSUME ServerInv, [Next]_vars, ~aliased', NEW c \in Clients,
           clients'[c] = clients[c], ClientTypeOK, OwedIsSealed(c)
    PROVE  OwedIsSealed(c)'
<1>1. SUFFICES ASSUME clients[c].pc = "told", clients[c].owed,
                      ~SqlLeq(clients[c].until, clock')
               PROVE  \E t \in RowIds : SealedByClient(t, c)'
    BY DEF OwedIsSealed
<1>2. clients[c].until \in Nat \cup {NULL}
    BY DEF ClientTypeOK, ClientType
<1>3. clock \in Nat /\ clock' \in Nat /\ clock <= clock'
  <2>1. TypeInv /\ clock \in Nat
      BY DEF ServerInv, TypeInv, TypeOK, DBTypeOK
  <2>2. QED
      BY <2>1, LinkEnds DEF vars
<1>4. ~SqlLeq(clients[c].until, clock)
    BY <1>1, <1>2, <1>3 DEF SqlLeq
<1>5. PICK t \in RowIds : SealedByClient(t, c)
    BY <1>1, <1>4 DEF OwedIsSealed
<1>6. t \in DOMAIN tokens' /\ tokens'[t] = tokens[t]
    BY <1>1, <1>5, LivesOn DEF SealedByClient
<1>7. SealedByClient(t, c)'
    BY <1>5, <1>6 DEF SealedByClient, PathOfUrl
<1>8. QED
    BY <1>7

\* A client that gets its answer, and is owed its file, has sealed the link.
LEMMA MarkSealsForClient ==
    ASSUME ServerInv, ClientTypeOK, NEW c \in Clients, c \in Requests, PostsToPath(c),
           clients[c].pc = "posting", MarkTokenUsed(c), req[c].total > 0,
           NEW t \in DOMAIN tokens, t = req[c].token_id,
           tokens[t].valid_until > clock,
           tokens[t].attempt_counter = req[c].attempt_counter,
           clients'[c].path = clients[c].path,
           clients'[c].until = req[c].expires_at
    PROVE  SealedByClient(t, c)'
<1>1. /\ tokens \in [DOMAIN tokens -> TokenType]
      /\ tokens[t].valid_until \in Nat /\ clock \in Nat
    BY DEF ServerInv, TypeInv, TypeOK, DBTypeOK, TablesOK, TokenType
<1>2. MarkUsed(req[c].token_id, req[c].attempt_counter, req[c].expires_at,
               req[c].stored, c)
    BY DEF MarkTokenUsed
<1>3. tokens'[t] = [tokens[t] EXCEPT !.used = TRUE,
                                     !.content_expires_at = req[c].expires_at,
                                     !.published = req[c].stored,
                                     !.by = c,
                                     !.late = (tokens[t].valid_until <= clock)]
    BY <1>1, <1>2 DEF MarkUsed
<1>4. t \in DOMAIN tokens'
    BY <1>1, <1>2 DEF MarkUsed
<1>5. tokens[t] \in TokenType
    BY <1>1
<1>6. /\ tokens'[t].used
      /\ tokens'[t].late = (tokens[t].valid_until <= clock)
      /\ tokens'[t].content_expires_at = req[c].expires_at
      /\ tokens'[t].published = req[c].stored
      /\ tokens'[t].by = c
      /\ tokens'[t].path = tokens[t].path
    BY <1>3, <1>5 DEF TokenType
<1>7. ~tokens'[t].late
  <2>1. ~(tokens[t].valid_until <= clock)
      BY <1>1
  <2>2. QED
      BY <1>6, <2>1, Zenon
<1>8. req[c].stored # {}
    BY DEF MarkTokenUsed, ServerInv, SealInv, BytesSaved, Saved
<1>9. tokens[t].path = PathOfUrl(c)'
    BY DEF PostsToPath, PathOfUrl
<1>10. QED
    BY <1>4, <1>6, <1>7, <1>8, <1>9 DEF SealedByClient

\* A step of a client leaves the others and their requests alone.
LEMMA ClientsApart ==
    ASSUME TypeInv, ClientTypeOK, NEW c \in Clients, c \in Requests, ClientStep(c)
    PROVE  \A d \in Clients \ {c} : clients'[d] = clients[d] /\ req'[d] = req[d]
<1> SUFFICES ASSUME NEW d \in Clients \ {c}
             PROVE  clients'[d] = clients[d] /\ req'[d] = req[d]
    OBVIOUS
<1>1. clients'[d] = clients[d]
    BY DEF ClientStep, AskLink, PostFile, Posting, Becomes, ClientTypeOK
<1>2. d \in Requests
    BY ClientConstantsOK
<1>3. CASE AskLink(c)
    BY <1>1, <1>3 DEF AskLink
<1>4. CASE PostFile(c) \/ Posting(c)
  <2>1. UploadStep(c)
      BY <1>4 DEF PostFile, Posting, UploadStep, LookUpToken
  <2>2. QED
      BY <1>1, <1>2, <2>1, UploadAdvances DEF OthersKeep
<1>5. QED
    BY <1>3, <1>4 DEF ClientStep

\* A step of a client leaves it with a token of its path, and owed only what
\* it has sealed.
LEMMA ClientMoves ==
    ASSUME ServerInv, ClientTypeOK, [Next]_vars, ~aliased', NEW c \in Clients,
           c \in Requests, ClientStep(c), PostsToPath(c), OwedIsSealed(c)
    PROVE  (PostsToPath(c) /\ OwedIsSealed(c))'
<1>1. /\ TypeInv
      /\ req \in [Requests -> RequestType]
      /\ clients[c] \in ClientType
    BY DEF ServerInv, TypeInv, TypeOK, UploadTypeOK, ClientTypeOK
<1>2. ASSUME NEW pc, Becomes(c, pc)
      PROVE  clients'[c].pc = pc /\ clients'[c].path = clients[c].path
    BY <1>1, <1>2 DEF Becomes, ClientTypeOK, ClientType
<1>3. CASE AskLink(c) \/ Becomes(c, "failed")
  <2>1. clients'[c].pc \in {"ready", "failed"}
      BY <1>2, <1>3 DEF AskLink
  <2>2. QED
      BY <2>1 DEF PostsToPath, OwedIsSealed
<1>4. CASE PostFile(c) /\ ~Becomes(c, "failed")
  <2>1. Becomes(c, "posting") /\ req'[c].pc = "valid"
      BY <1>4 DEF PostFile
  <2>2. clients'[c].pc = "posting" /\ clients'[c].path = clients[c].path
      BY <1>2, <2>1
  <2>3. ~Return(c)
      BY <1>1, <2>1 DEF Return, Blank
  <2>4. PICK t \in Matching(PathOfUrl(c)) :
            req' = [req EXCEPT ![c].pc = "valid",
                               ![c].token_id = t,
                               ![c].backend_type = tokens[t].backend_type]
      BY <1>4, <2>3 DEF PostFile, LookUpTokenAt, RefusePath
  <2>5. req'[c].token_id = t
      BY <1>1, <2>4 DEF RequestType
  <2>6. UNCHANGED tokens /\ tokens[t].path = PathOfUrl(c)'
      BY <1>4, <2>2 DEF PostFile, LookUpTokenAt, RefusePath, Matching, dbVars, PathOfUrl
  <2>7. QED
      BY <2>1, <2>2, <2>5, <2>6 DEF PostsToPath, OwedIsSealed, Active
<1>5. CASE Posting(c) /\ req'[c].pc # "done"
  <2>1. UNCHANGED clients /\ UploadStep(c) /\ Active(c)
      BY <1>5 DEF Posting, PostsToPath
  <2>2. Active(c)' /\ req'[c].token_id = req[c].token_id
      BY <1>1, <1>5, <2>1, GoesOnWithToken
  <2>3. QED
      BY <1>1, <2>1, <2>2, PostStays, SealStays
<1>6. CASE Posting(c) /\ req'[c].pc = "done" /\ ~Becomes(c, "failed")
  <2>0. PICK t : t = req[c].token_id
      OBVIOUS
  <2> DEFINE owed == /\ req[c].total > 0
                     /\ t \in DOMAIN tokens
                     /\ tokens[t].valid_until > clock
                     /\ tokens[t].attempt_counter = req[c].attempt_counter
  <2> owed \in BOOLEAN
      OBVIOUS
  <2>1. /\ clients' = [clients EXCEPT ![c].pc = "told",
                                      ![c].until = req[c].expires_at,
                                      ![c].owed = owed]
        /\ MarkTokenUsed(c) \/ req[c].total = 0
        /\ clients[c].pc = "posting"
      BY <1>6, <2>0 DEF Posting
  <2> HIDE DEF owed
  <2>2. clients'[c] = [clients[c] EXCEPT !.pc = "told", !.until = req[c].expires_at,
                                         !.owed = owed]
      BY <2>1 DEF ClientTypeOK
  <2>3. /\ clients'[c].pc = "told"
        /\ clients'[c].until = req[c].expires_at
        /\ clients'[c].path = clients[c].path
      BY <1>1, <2>2 DEF ClientType
  <2>4. clients'[c].owed = owed
      BY <1>1, <2>2 DEF ClientType
  <2>5. PostsToPath(c)'
      BY <2>3 DEF PostsToPath
  <2>6. SUFFICES ASSUME clients'[c].owed
                 PROVE  \E u \in RowIds : SealedByClient(u, c)'
      BY <2>5 DEF OwedIsSealed
  <2>7. /\ req[c].total > 0
        /\ t \in DOMAIN tokens
        /\ tokens[t].valid_until > clock
        /\ tokens[t].attempt_counter = req[c].attempt_counter
      BY <2>4, <2>6, Zenon DEF owed
  <2>8. MarkTokenUsed(c)
      BY <2>1, <2>7
  <2>9. SealedByClient(t, c)'
      BY <2>0, <2>1, <2>3, <2>7, <2>8, MarkSealsForClient
  <2>10. t \in RowIds
      BY <1>1, <2>7 DEF TypeInv, TypeOK, DBTypeOK, TablesOK
  <2>11. QED
      BY <2>9, <2>10
<1>7. QED
    BY <1>3, <1>4, <1>5, <1>6 DEF ClientStep

\* The requests wait while the process is down.
LEMMA DownWaits ==
    ASSUME Next, ~serving
    PROVE  UNCHANGED req
BY DEF Next, Serve, BackgroundCleanup, CleanupFails, Tick, Crash, ProcessEnds, Restart

\* Every step of the whole leaves the clients with what they hold.
LEMMA ClientInvStep ==
    ASSUME ServerInv, CallersTyped, ClientInv, [ServiceNext]_serviceVars
    PROVE  ClientInv'
<1>1. TypeInv /\ ClientTypeOK /\ [Next]_vars
    BY ServedStep DEF CallersTyped, ServerInv
<1>2. SUFFICES ASSUME ~aliased', NEW c \in Clients
               PROVE  (PostsToPath(c) /\ OwedIsSealed(c))'
    BY DEF ClientInv
<1>3. PostsToPath(c) /\ OwedIsSealed(c) /\ c \in Requests
    BY <1>1, <1>2, NewIdsAreFree, ClientConstantsOK DEF vars, ClientInv
<1>4. CASE UNCHANGED <<req[c], clients[c]>>
    BY <1>1, <1>2, <1>3, <1>4, PostStays, SealStays DEF Active
<1>5. CASE ServerStep
  <2>1. CASE serving /\ ~serving'
    <3>1. ClientsCutOff
        BY <1>5, <2>1 DEF ServerStep
    <3>2. CASE clients[c].pc = "posting"
      <4>1. clients'[c].pc = "failed"
          BY <1>1, <3>1, <3>2 DEF ClientsCutOff, ClientTypeOK, ClientType
      <4>2. QED
          BY <4>1 DEF PostsToPath, OwedIsSealed
    <3>3. CASE clients[c].pc # "posting"
      <4>1. clients'[c] = clients[c]
          BY <3>1, <3>3 DEF ClientsCutOff
      <4>2. PostsToPath(c)'
          BY <3>3, <4>1 DEF PostsToPath
      <4>3. QED
          BY <1>1, <1>2, <1>3, <4>1, <4>2, SealStays
    <3>4. QED
        BY <3>2, <3>3
  <2>2. CASE ~(serving /\ ~serving')
    <3>1. UNCHANGED clients /\ req'[c] = req[c]
        BY <1>5, <2>2, DownWaits DEF ServerStep
    <3>2. QED
        BY <1>4, <3>1
  <2>3. QED
      BY <2>1, <2>2
<1>6. CASE RunClients
  <2>1. PICK d \in Clients : ClientStep(d)
      BY <1>6 DEF RunClients
  <2>2. CASE d = c
      BY <1>1, <1>2, <1>3, <2>1, <2>2, ClientMoves
  <2>3. CASE d # c
    <3>1. UNCHANGED <<req[c], clients[c]>>
        BY <1>1, <2>1, <2>3, ClientsApart, ClientConstantsOK
    <3>2. QED
        BY <1>4, <3>1
  <2>4. QED
      BY <2>2, <2>3
<1>7. CASE Browse /\ UNCHANGED clients
    BY <1>4, <1>7 DEF Browse, vars
<1>8. CASE UNCHANGED serviceVars
    BY <1>4, <1>8 DEF serviceVars, vars
<1>9. QED
    BY <1>5, <1>6, <1>7, <1>8 DEF ServiceNext

\* The url works that a client has printed, until the date that it was told:
\* the path leads to the link that it has sealed, and the page there lists
\* its file, with its bytes.
LEMMA SealedWorks ==
    ASSUME ServerInv, ClientTypeOK, ClientInv, ContentOutlivesLink
    PROVE  PrintedUrlWorks
<1> SUFFICES ASSUME ~aliased, NEW c \in Clients, clients[c].pc = "told", clients[c].owed,
                    ~SqlLeq(clients[c].until, clock)
             PROVE  \E t \in DOMAIN tokens : /\ IsUsed(PathOfUrl(c), t)
                                             /\ tokens[t].by = c
                                             /\ TokenIntact(t)
                                             /\ ListedFiles(t) # {}
    BY DEF PrintedUrlWorks
<1>1. PICK t \in RowIds : SealedByClient(t, c)
    BY DEF ClientInv, OwedIsSealed
<1>2. t \in DOMAIN tokens /\ IsShown(t)
    BY <1>1 DEF SealedByClient, IsShown
<1>3. IsUsed(PathOfUrl(c), t)
    BY <1>1, <1>2, SealedIsUsed DEF ServerInv, LinkInv, SealedByClient
<1>4. TokenIntact(t)
    BY <1>1, <1>2, ShownIsIntact DEF ServerInv, PublishInv, SealedByClient, ShownIntact
<1>5. ListedFiles(t) # {} /\ tokens[t].by = c
    BY <1>1, <1>4 DEF TokenIntact, SealedByClient
<1>6. QED
    BY <1>2, <1>3, <1>4, <1>5

\* For links whose content outlives them, a url that the command-line client
\* has printed works until the date that the file is kept for, whatever other
\* uploads, other links of the path, the cleanup and crashes do: the path is
\* answered with the link that the client has sealed, and the page lists its
\* file, with its bytes.
THEOREM UrlsWork == ContentOutlivesLink /\ ServiceSpec => []PrintedUrlWorks
<1>1. ContentOutlivesLink => ContentOutlivesLink'
    BY DEF ContentOutlivesLink
<1>2. ServiceInit => ClientInv
    BY DEF ServiceInit, ClientInit, ClientInv, PostsToPath, OwedIsSealed
<1>3. ServerInv /\ CallersTyped /\ ClientInv /\ [ServiceNext]_serviceVars => ClientInv'
    BY ClientInvStep
<1>4. ServerInv /\ CallersTyped /\ ClientInv /\ ContentOutlivesLink => PrintedUrlWorks
    BY SealedWorks DEF CallersTyped
<1>5. QED
    BY <1>1, <1>2, <1>3, <1>4, ServesAsAlone, ServerHolds, CallersHold, PTL DEF ServiceSpec
=============================================================================
