------------------------------- MODULE Client -------------------------------
(***************************************************************************)
(* vrac upload (src/src/bin/vrac.rs): a program on another machine that    *)
(* asks /gen for a link named like the file, posts the file to it, and     *)
(* prints the link's url when the answer to the second request is a        *)
(* redirection too.  Its second request is an upload like any other, with  *)
(* one field, among those of other people.                                 *)
(***************************************************************************)
EXTENDS Vrac

CONSTANTS
    Clients,          \* those of Requests that such a program makes
    ExpiresHours,     \* --expires-hours, or NULL for --no-expires
    UrlDecoded        \* what urlencoding::decode makes of a path that axum
                      \* has decoded, NULL when that is not UTF-8

\* What the program fills in the form of /gen
LinkWanted(hours) ==
    [valid_for |-> 1, content_expires_after_hours |-> hours,
     max_size |-> NULL, backend_type |-> "local_fs"]

\* It fills in the same form as the admin.
ASSUME ClientConstantsOK ==
    /\ Clients \subseteq Requests
    /\ \A hours \in ExpiresHours : LinkWanted(hours) \in Options
    /\ UrlDecoded \in [Paths -> Paths \cup {NULL}]

VARIABLE clients

(***************************************************************************)
(* told: the program has printed the url.  until, owed and path are        *)
(* history: the date until which the server said it would keep the file,   *)
(* and whether it owes the client anything: bytes were sent, the link had  *)
(* neither expired nor been given to a later attempt.                      *)
(***************************************************************************)
ClientType ==
    [pc : {"start", "ready", "posting", "told", "failed"},
     path : Paths,
     until : Nat \cup {NULL},
     owed : BOOLEAN]

ClientTypeOK == clients \in [Clients -> ClientType]

ClientInit ==
    clients \in [Clients -> [pc : {"start"}, path : Paths, until : {NULL},
                             owed : {FALSE}]]

\* What the handlers of the client's url look up
PathOfUrl(c) == UrlDecoded[clients[c].path]

Becomes(c, pc) == clients' = [clients EXCEPT ![c].pc = pc]

-----------------------------------------------------------------------------

\* POST /gen.  The link may be created and the answer lost on its way.
AskLink(c) ==
    /\ clients[c].pc = "start"
    /\ LET path == clients[c].path IN
       \/ /\ \E hours \in ExpiresHours : CreateToken(path, LinkWanted(hours))
          /\ Becomes(c, "ready") \/ Becomes(c, "failed")
       \/ /\ ~IsNotFound(path)
          /\ Becomes(c, "failed")
          /\ UNCHANGED dbVars
    /\ UNCHANGED <<storageVars, req>>

\* The upload request arrives.  A link that cannot be used for an upload is
\* answered with a page, not with a redirection.  The url has the path that
\* /gen has encoded once, and the handler decodes it twice.
PostFile(c) ==
    /\ clients[c].pc = "ready"
    /\ IF PathOfUrl(c) \in Paths
       THEN LookUpTokenAt(c, PathOfUrl(c))
       ELSE RefusePath(c)
    /\ Becomes(c, IF req'[c].pc = "valid" THEN "posting" ELSE "failed")

\* Mutant: the client takes any answer for a success.
PostedAnyhow(c) ==
    /\ clients[c].pc = "posting"
    /\ UploadStep(c)
    /\ EndOfBody(c) => req[c].file_index = 1
    /\ IF req'[c].pc # "done"
       THEN UNCHANGED clients
       ELSE clients' = [clients EXCEPT ![c].pc = "told",
                                       ![c].until = req[c].expires_at,
                                       ![c].owed = req[c].total > 0]

\* The handler works on the request.  It answers with a redirection after
\* finalise_token_upload, whether that found its row or not, and after a
\* body without a byte; every other end is an error, and the client may be
\* gone by then.
Posting(c) ==
    /\ clients[c].pc = "posting"
    /\ UploadStep(c)
    /\ EndOfBody(c) => req[c].file_index = 1
    /\ IF req'[c].pc # "done"
       THEN UNCHANGED clients
       ELSE \/ Becomes(c, "failed")
            \/ /\ \/ req[c].pc = "mark" /\ MarkTokenUsed(c)
                  \/ req[c].pc = "fields" /\ req[c].total = 0 /\ EndOfBody(c)
               /\ LET t == req[c].token_id IN
                  clients' = [clients EXCEPT
                     ![c].pc = "told",
                     ![c].until = req[c].expires_at,
                     ![c].owed =
                         /\ req[c].total > 0
                         /\ t \in DOMAIN tokens
                         /\ tokens[t].valid_until > clock
                         /\ tokens[t].attempt_counter = req[c].attempt_counter]

ClientStep(c) == AskLink(c) \/ PostFile(c) \/ Posting(c)

RunClients ==
    /\ serving
    /\ \E c \in Clients : ClientStep(c)
    /\ UNCHANGED <<clock, cleaner, serving, crashes>>
    /\ RecordReuse

\* No answer comes when the process ends.
ClientsCutOff ==
    clients' = [c \in Clients |->
                   IF clients[c].pc = "posting"
                   THEN [clients[c] EXCEPT !.pc = "failed"]
                   ELSE clients[c]]

-----------------------------------------------------------------------------
(* Properties                                                              *)

\* The url that the client has printed works: until the date that the file
\* is kept for, get_valid_token answers its path with the link that the
\* client's upload has sealed, and the page lists its file, with its bytes.
\* Other uploads to the path, other links of the path, the cleanup and
\* crashes do not change that.  Nothing is owed for an empty file, nor to an
\* upload that another one had superseded or that came after valid_until:
\* the client prints the url of these too.
PrintedUrlWorks ==
    ~aliased =>
        \A c \in Clients :
            /\ clients[c].pc = "told"
            /\ clients[c].owed
            /\ ~SqlLeq(clients[c].until, clock)
            => \E t \in DOMAIN tokens :
                  /\ IsUsed(PathOfUrl(c), t)
                  /\ tokens[t].by = c
                  /\ TokenIntact(t)
                  /\ ListedFiles(t) # {}
=============================================================================
