----------------------------- MODULE Downloads -----------------------------
(***************************************************************************)
(* The readers of the service: get_upload_form, which answers GET /f/:path *)
(* with the upload form, the page of the files or their zip, and get_file, *)
(* which answers GET /f/:path/:file_id.  Each looks something up in the    *)
(* database and goes on with what it found: it lists the files of the      *)
(* token row it has read, or opens the blob of the file row it has read,   *)
(* while uploads, the cleanup and time go on.                              *)
(*                                                                         *)
(*   idle -> listing -> done          page                                 *)
(*   idle -> zipping -> done          zip                                  *)
(*   idle -> opening -> done          file                                 *)
(***************************************************************************)
EXTENDS Vrac

CONSTANT Visitors     \* GET requests, each served once

VARIABLE visits

(***************************************************************************)
(* token_id, attempt_counter and data are the locals of the handlers.      *)
(* answer is what the visitor got, and files and bytes what was in it.     *)
(* The rest is history: what he was owed when his first query was          *)
(* answered, whatever that answer was.  owner, published and until are of  *)
(* the upload to the link that he asked for; listed are those of its files *)
(* that had metadata then.                                                 *)
(***************************************************************************)
VisitType ==
    [pc : {"idle", "listing", "zipping", "opening", "done"},
     token_id : RowIds \cup {0},
     attempt_counter : Nat,
     data : BlobType \cup {NULL},
     file_id : RowIds \cup {0},
     answer : {"none", "not_found", "form", "page", "zip", "file", "error"},
     files : SUBSET RowIds,
     bytes : SUBSET Requests,
     owner : Requests \cup {NULL},
     published : SUBSET RowIds,
     listed : SUBSET RowIds,
     until : Nat \cup {NULL}]

NewVisit ==
    [pc |-> "idle", token_id |-> 0, attempt_counter |-> 0, data |-> NULL,
     file_id |-> 0, answer |-> "none", files |-> {}, bytes |-> {},
     owner |-> NULL, published |-> {}, listed |-> {}, until |-> NULL]

Gone == [NewVisit EXCEPT !.pc = "done"]

DownloadsTypeOK == visits \in [Visitors -> VisitType]

DownloadsInit == visits = [v \in Visitors |-> NewVisit]

\* The links of a path whose content is to be kept.  An upload that ended
\* after valid_until (late) is owed nothing.
KeptLinks(path) ==
    {t \in DOMAIN tokens :
        tokens[t].path = path /\ IsShown(t) /\ ~tokens[t].late}

\* What the upload of a used token owes those who come now
Owed(t) == [NewVisit EXCEPT !.owner = tokens[t].by,
                            !.published = tokens[t].published,
                            !.listed = tokens[t].published \cap DOMAIN metadata,
                            !.until = tokens[t].content_expires_at]

\* What somebody is owed who asks for these links, or for none
Due(links) == IF links = {} THEN {NewVisit} ELSE {Owed(t) : t \in links}

IsKept(x) == x.owner # NULL /\ ~SqlLeq(x.until, clock)

Kept(v) == IsKept(visits[v])

\* The visitor x has an answer, and with it no more use for the locals.  It
\* is forgotten when he was owed nothing, or the content is over.
Answer(v, x, answer, fs, bytes) ==
    visits' = [visits EXCEPT
                  ![v] = IF IsKept(x)
                         THEN [x EXCEPT !.pc = "done",
                                        !.token_id = 0,
                                        !.attempt_counter = 0,
                                        !.data = NULL,
                                        !.answer = answer,
                                        !.files = fs,
                                        !.bytes = bytes]
                         ELSE Gone]

\* No answer of the handler's own: its path cannot be decoded, the store or
\* the database fails, he goes away.
NoAnswer(v) == visits' = [visits EXCEPT ![v] = Gone]

-----------------------------------------------------------------------------
(* GET /f/:path                                                            *)

\* db.get_valid_token, for the path as it comes out of the handler's second
\* decoding.  A used token leads to the page, or with ?zip to the zip; the
\* form of a fresh one computes the seconds of its hours, which panics in a
\* debug build when they do not fit.
VisitLink(v) ==
    /\ visits[v].pc = "idle"
    /\ \E path \in Paths : \E x \in Due(KeptLinks(path)) :
          \/ /\ IsNotFound(path)
             /\ Answer(v, x, "not_found", {}, {})
          \/ \E t \in Matching(path) :
                /\ IsFresh(path, t)
                /\ Answer(v, x, "form", {}, {}) \/ NoAnswer(v)
          \/ \E t \in Matching(path), pc \in {"listing", "zipping"} :
                /\ IsUsed(path, t)
                /\ visits' = [visits EXCEPT
                     ![v] = [x EXCEPT
                               !.pc = pc,
                               !.token_id = t,
                               !.attempt_counter = tokens[t].attempt_counter]]

\* Mutant: the files of every attempt of the token.
FilesOfAnyAttempt(t, attempt) ==
    {f \in DOMAIN files \cap DOMAIN metadata : files[f].data.token_id = t}

\* db.get_files, for the token and the attempt that the visitor holds
FilesOfAttempt(t, attempt) ==
    {f \in DOMAIN files \cap DOMAIN metadata :
        /\ files[f].data.token_id = t
        /\ files[f].data.attempt_counter = attempt}

FilesFound(v) == FilesOfAttempt(visits[v].token_id, visits[v].attempt_counter)

\* get_files_html
ShowPage(v) ==
    /\ visits[v].pc = "listing"
    /\ Answer(v, visits[v], "page", FilesFound(v), {})

\* get_files_zip.  The stream reads the first file with the other store's
\* read_blob, from a JSON object decoded as a string, or refuses its
\* backend: it breaks off before a byte of it is written.  Without files it
\* is the end record alone.
SendZip(v) ==
    /\ visits[v].pc = "zipping"
    /\ IF FilesFound(v) = {}
       THEN Answer(v, visits[v], "zip", {}, {})
       ELSE Answer(v, visits[v], "error", {}, {})

-----------------------------------------------------------------------------
(* GET /f/:path/:file_id                                                   *)

\* The links of a path that have published this file
Publishers(path, f) == {t \in KeptLinks(path) : f \in tokens[t].published}

\* db.get_valid_file, for the path that axum has decoded: the row it finds,
\* or nothing
VisitFile(v) ==
    /\ visits[v].pc = "idle"
    /\ \E path \in Paths, f \in RowIds : \E x \in Due(Publishers(path, f)) :
          IF IsServed(path, f)
          THEN visits' = [visits EXCEPT
                  ![v] = [x EXCEPT !.pc = "opening",
                                   !.file_id = f,
                                   !.data = files[f].data]]
          ELSE Answer(v, x, "not_found", {}, {})

\* state.get_blob.  A local file that is open stays readable, and so does a
\* response of the object store, whatever is deleted meanwhile.
ReadBlob(v) ==
    /\ visits[v].pc = "opening"
    /\ IF visits[v].data \in DOMAIN blobs
       THEN Answer(v, visits[v], "file", {visits[v].file_id}, blobs[visits[v].data])
       ELSE Answer(v, visits[v], "error", {}, {})

VisitStep(v) ==
    VisitLink(v) \/ ShowPage(v) \/ SendZip(v) \/ VisitFile(v) \/ ReadBlob(v)

\* The handler ends early, with no effect on anything but itself.
LeaveVisit(v) ==
    /\ visits[v].pc # "done"
    /\ NoAnswer(v)

Browse ==
    /\ serving
    /\ \E v \in Visitors : VisitStep(v) \/ LeaveVisit(v)
    /\ UNCHANGED vars

\* The handlers end with the process.
VisitsEnd ==
    visits' = [v \in Visitors |->
                  IF visits[v].pc \in {"listing", "zipping", "opening"}
                  THEN Gone
                  ELSE visits[v]]

-----------------------------------------------------------------------------
(* Properties                                                              *)

\* Whoever asks for a path, or for a file, whose content is to be kept gets
\* it: neither the form nor a page that says there is no link; a page that
\* lists the files of the one upload, and all that have metadata; of a file
\* that this upload has published, the bytes; and a zip without files only
\* when there are none.  The rows he was led by may have been deleted,
\* replaced or selected for deletion by then.  It says nothing of the files
\* of other attempts (ServedFilesPublished), nor of the zip that breaks off.
VisitorsGetPublished ==
    ~aliased =>
        \A v \in Visitors :
            visits[v].pc = "done" =>
                /\ visits[v].answer \notin {"not_found", "form"}
                /\ visits[v].answer = "page" =>
                      /\ visits[v].listed \subseteq visits[v].files
                      /\ visits[v].files \subseteq visits[v].published
                /\ visits[v].answer = "file" => visits[v].bytes = {visits[v].owner}
                /\ visits[v].answer = "zip" => visits[v].listed = {}
                /\ visits[v].answer = "error" => visits[v].file_id = 0
=============================================================================
