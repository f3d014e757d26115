-------------------------------- MODULE Vrac --------------------------------
(***************************************************************************)
(* The server of src/src/bin/vrac.rs: the upload requests, the admin's     *)
(* create_token and the cleanup task over one database and one pair of     *)
(* blob stores, with crashes and restarts of the process.                  *)
(***************************************************************************)
EXTENDS Cleanup

CONSTANT MaxCrashes   \* how often the process may die for outside reasons

ASSUME MaxCrashesOK == MaxCrashes \in Nat

VARIABLES
    serving,      \* the process runs
    crashes,      \* how often it died for outside reasons
    aliased       \* history: a rowid was given out while its last owner's
                  \* id was still in use

vars == <<clock, tokens, files, metadata, blobs, open, req, cleaner,
          serving, crashes, aliased>>

Init ==
    /\ DBInit
    /\ StorageInit
    /\ UploadInit
    /\ CleanupInit
    /\ serving = TRUE
    /\ crashes = 0
    /\ aliased = FALSE

-----------------------------------------------------------------------------
(* Rowids that SQLite hands out a second time                              *)

TokenIdInUse(t) ==
    \/ \E r \in Requests : req[r].token_id = t
    \/ \E b \in DOMAIN blobs : b.token_id = t
    \/ \E file \in cleaner.sel : file.data.token_id = t

FileIdInUse(f) ==
    \/ \E r \in Requests : req[r].file_id = f \/ f \in req[r].stored
    \/ \E file \in cleaner.sel : file.id = f

\* The step inserts a row under an id that something still refers to.
ReusesId ==
    \/ \E t \in DOMAIN tokens' \ DOMAIN tokens : TokenIdInUse(t)
    \/ \E f \in DOMAIN files' \ DOMAIN files : FileIdInUse(f)

-----------------------------------------------------------------------------

\* POST /gen
GenerateToken ==
    /\ \E path \in Paths, o \in Options : CreateToken(path, o)
    /\ UNCHANGED <<storageVars, req, cleaner>>

Tick ==
    /\ clock < MaxClock
    /\ clock' = clock + 1
    /\ UNCHANGED <<dbVars, storageVars, req, cleaner, serving, crashes>>

\* The process is gone: the futures of the handlers and of the cleanup are
\* dropped, the database and the stores stay.
ProcessEnds ==
    /\ serving
    /\ serving' = FALSE
    /\ req' = [r \in Requests |-> IF Active(r) THEN Blank("done") ELSE req[r]]
    /\ cleaner' = Asleep
    /\ DropWriters(Requests,
                   {q \in Requests : req[q].pc \in {"copying", "copied"}})
    /\ UNCHANGED <<clock, dbVars>>

Crash ==
    /\ crashes < MaxCrashes
    /\ crashes' = crashes + 1
    /\ ProcessEnds

\* try_join! in serve: an error of the cleanup task ends the web server too.
CleanupFails ==
    /\ DeleteTokensFails
    /\ ProcessEnds
    /\ UNCHANGED crashes

Restart ==
    /\ ~serving
    /\ serving' = TRUE
    /\ UNCHANGED <<clock, dbVars, storageVars, req, cleaner, crashes>>

HandleUpload(r) ==
    /\ UploadStep(r)
    /\ UNCHANGED cleaner

Serve ==
    /\ serving
    /\ \/ GenerateToken
       \/ \E r \in Requests : HandleUpload(r)
    /\ UNCHANGED <<clock, serving, crashes>>

BackgroundCleanup ==
    \/ /\ serving
       /\ CleanupStep
       /\ UNCHANGED <<clock, serving, crashes>>
    \/ CleanupFails

RecordReuse == aliased' = (aliased \/ ReusesId)

Next ==
    /\ Serve \/ BackgroundCleanup \/ Tick \/ Crash \/ Restart
    /\ RecordReuse

Spec == Init /\ [][Next]_vars

\* The runtime polls the cleanup task until it ends, and background_cleanup
\* starts it again.  Nothing obliges the clients, the admin or whoever
\* restarts the server to do anything.
FairSpec == Spec /\ WF_vars(BackgroundCleanup /\ RecordReuse)

-----------------------------------------------------------------------------
(* Properties                                                              *)

TypeOK ==
    /\ DBTypeOK
    /\ StorageTypeOK
    /\ UploadTypeOK
    /\ CleanupTypeOK
    /\ serving \in BOOLEAN
    /\ crashes \in 0..MaxCrashes
    /\ aliased \in BOOLEAN

\* The token is used and the page at its path still shows its files.
IsShown(t) ==
    /\ tokens[t].used
    /\ ~SqlLeq(tokens[t].content_expires_at, clock)

\* What a visitor of a used token gets is what one upload, and only that
\* one, put there: the page lists exactly the files this upload completed,
\* and each of them still has its blob, with the bytes of this upload alone.
\* Neither an upload of another attempt, nor the cleanup of an earlier
\* attempt or of an expired token, nor a crash changes that.  It says
\* nothing of an upload that ended after valid_until (PublishedIntactIfLate)
\* nor of rowids handed out twice (PublishedIntactIfAliased).
TokenIntact(t) ==
    /\ ListedFiles(t) = tokens[t].published
    /\ \A f \in ListedFiles(t) :
          /\ files[f].data \in DOMAIN blobs
          /\ blobs[files[f].data] = {tokens[t].by}

PublishedIntact ==
    ~aliased =>
        \A t \in DOMAIN tokens :
            IsShown(t) /\ ~tokens[t].late => TokenIntact(t)

\* A file is completed exactly when it has metadata: the JOIN of get_files
\* and the test of completed_at in get_valid_file agree on which files are
\* there.
CompletedIffMetadata ==
    \A f \in DOMAIN files : files[f].completed <=> f \in DOMAIN metadata

\* A row that get_valid_token may answer with, now or after a finalisation:
\* a link that was never used, or whose content has not expired.
IsLive(t) == ~tokens[t].used \/ ~SqlLeq(tokens[t].content_expires_at, clock)

\* The content of every link outlives the link itself.
ContentOutlivesLink ==
    \A o \in Options :
        \/ o.content_expires_after_hours = NULL
        \/ o.content_expires_after_hours >= o.valid_for

\* get_valid_token says that "by construction" at most one row of a path is
\* either fresh or used and not yet expired, and looks at one row only.
UniqueLiveToken ==
    \A t, u \in DOMAIN tokens :
        tokens[t].path = tokens[u].path /\ IsLive(t) /\ IsLive(u) => t = u

\* The same for the links that create_token is given when it never sells
\* content for a shorter time than the link (see UniqueLiveToken for what
\* happens otherwise).
UniqueLiveTokenIfContentOutlives ==
    ContentOutlivesLink /\ ~aliased => UniqueLiveToken

\* A used token keeps what its upload gave it until it is deleted: no other
\* upload, concurrent or late, uses it again, moves its attempt counter or
\* its expiry.
UsedIsFinal ==
    [][\A t \in DOMAIN tokens \cap DOMAIN tokens' :
          ~aliased' /\ tokens[t].used => tokens'[t] = tokens[t]]_vars

\* The row of a local file is deleted only when its blob is gone: else no
\* cleanup could ever find the blob again.
RowOutlivesBlob ==
    [][\A f \in DOMAIN files \ DOMAIN files' :
          ~aliased' /\ IsLocal(files[f].data) =>
              files[f].data \notin DOMAIN blobs']_vars

\* A file of a failed attempt or of an expired token does not stay, however
\* uploads, crashes and failed cleanups interleave, provided that somebody
\* starts the server again each time it ends.
DoomedFilesGo ==
    []<>serving =>
        \A f \in RowIds : f \in FilesToDelete(clock) ~> f \notin FilesToDelete(clock)

=============================================================================
