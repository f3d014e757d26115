----------------------------- MODULE VracClaims -----------------------------
(***************************************************************************)
(* What comments of the source promise and the code does not keep.  Each   *)
(* is stated as its source states it and refuted by a run of its own;      *)
(* README.md quotes the source and tells the run.                          *)
(***************************************************************************)
EXTENDS Vrac

\* valid_until "only has meaning until some files are uploaded sucessfully,
\* after which it becomes moot" (db.rs:21): files published after that date
\* are as safe as the others.
PublishedIntactIfLate ==
    ~aliased => \A t \in DOMAIN tokens : IsShown(t) => TokenIntact(t)

\* get_valid_token, "by construction, at any point in time, there can only be
\* one token that at most that is either fresh or used and not yet expired"
\* (db.rs:602)
OneLiveLink == ~aliased => UniqueLiveToken

\* finalise_token_upload, "need to add the attempt counter in the where to
\* avoid races if two concurrent uploads" (db.rs:427): of two uploads to a
\* token, the one that is superseded does not finalise it.
PublishedIntactIfAliased ==
    \A t \in DOMAIN tokens :
        IsShown(t) /\ ~tokens[t].late => TokenIntact(t)

\* attempt_counter, the files of a request that fails midway should "not be
\* displayed for this token" (db.rs:34): GET /f/:path/:file_id serves no file
\* whose request is over, save those of the upload that succeeded.
ServedFilesPublished ==
    ~aliased =>
        \A path \in Paths, f \in DOMAIN files :
            IsServed(path, f) =>
                \/ f \in tokens[files[f].data.token_id].published
                \/ \E r \in Requests : f \in req[r].stored

\* delete_expired_tokens, "Delete the token in DB that are expired (used or
\* not)" (db.rs:455): an expired token does not stay.
ExpiredTokensGo ==
    []<>serving =>
        \A t \in RowIds :
            t \in ExpiredTokens(clock) ~> t \notin ExpiredTokens(clock)

\* A blob in the store that no row of the database names and nobody writes
StrayBlobs ==
    {b \in DOMAIN blobs :
        /\ \A f \in DOMAIN files : files[f].data # b
        /\ \A r \in Requests : open[r] # b}

\* The attempt counter is there to "delete stray files from previous
\* attempts" (migrations/20221013175019_token.up.sql:10): no blob that an
\* upload left behind stays in the store.
StrayBlobsGo == []<>serving => (StrayBlobs # {} ~> StrayBlobs = {})
=============================================================================
