# Verification of vrac

vrac (`src/`) is a drop box on the web. An administrator creates *links* (a row of
the table `token`, with a path, a date until which it can be used, and a time its
content lives). Whoever has the link uploads files to it, once; then the same path shows
and serves the files until the content expires. Files live in a local directory or in
an S3-compatible object store (garage), their rows in SQLite, and a background task
removes what failed uploads and expired links have left.

This directory holds TLA+ models of that program, the configurations that check them
with TLC, and proofs that TLAPS checks. Every definition is translated from the code in
`src/`; `PROJECT.json` maps each of them to its lines.

## 1. Inventory

| Component | Source | State | Operations | Interacts with |
|---|---|---|---|---|
| Database | `src/src/db.rs`, `src/migrations` | tables `token`, `file`, `file_metadata`, `account` | `get_valid_token`, `get_valid_file`, `get_files`, `create_token`, `initiate_upload`, `create_file`, `finalise_file_upload`, `finalise_token_upload`, `get_files_to_delete`, `delete_files`, `delete_expired_tokens`, account statements | all the others, through one pool |
| Blob stores | `src/src/upload.rs` | a directory; a bucket; the open writers | `initiate_upload`, write/flush/shutdown, `finalize_upload`, `delete_blob`, `read_blob` | upload, cleanup, downloads |
| Upload handler | `handlers/upload.rs` `post_upload_form` | locals of each request: token, attempt, field index, file row, byte counts | one pass over a multipart body | database, stores |
| Cleanup | `cleanup.rs` | locals of a pass: the date and the rows it read | select, delete blobs (in parallel), delete rows, delete tokens | database, stores |
| Server | `bin/vrac.rs`, `app.rs`, `state.rs` | the process | `serve`, `background_cleanup` every five minutes, both in one `try_join!` | runs the handlers and the cleanup |
| Link generation | `handlers/gen.rs` | none | `create_token`, decoding of the form, durations | database |
| Downloads | `handlers/upload.rs`, `handlers/file.rs` | none; the pipe of the zip stream | page, single file, zip | database, stores |
| Metadata repair | `bin/fill_metadata.rs` | a second process | fills missing metadata | database, stores |
| Accounts | `auth.rs`, `bin/admin.rs` | table `account` | basic authentication, create, change password | database |
| Client | `bin/vrac.rs` `upload` | none | creates a link and uploads one file | the server, over HTTP |
| Rendering, browser script, scratch binaries | `filters.rs`, `flash_utils.rs`, `error.rs`, templates, `upload.js`, `bin/split.rs`, `bin/test.rs` | none | | |

What makes each of them correct, and what is hard about it:

* **Database.** The tables agree with each other: metadata exactly for completed files,
  no file without its token. `get_valid_token` looks at one row and relies on there being
  one. Hard: statements outside a transaction (`finalise_token_upload` reads, then
  writes), comparisons with NULL, rowids that SQLite gives out again, foreign keys that
  make a whole DELETE fail.
* **Blob stores.** A blob holds one upload's bytes. Hard: a local file is opened without
  truncation and its name can be removed under its writer; a PUT may end after the object
  was deleted, or although its writer was dropped.
* **Upload handler.** What a used link shows is what one upload stored. Hard: every
  effect is at an await; other uploads to the same link, the cleanup, a crash or the
  client going away come between any two; the token read first is used last.
* **Cleanup.** It removes every file of a failed attempt and of an expired link, and no
  other; a row goes only after its blob. Hard: it works from rows and a date it read
  before, while uploads go on.
* **Server.** Uploads and cleanup end together when one of them fails.
* **Link generation.** A new link only where no live one is, for as long as the form asked.
  Hard: integers as strings, `u64` and `i64` hours multiplied by 3600, dates compared as
  texts.
* **Accounts.** Only an administrator creates links. Hard: the password is verified against
  a row read before, and the body of the request is read after.
* **Downloads.** Who asks for what was published, while it is kept, gets it. Hard: the token, the
  listing and the blob are read one after the other, while uploads and the cleanup go on.
* **Metadata repair.** It adds what is missing to the pages and changes nothing else.
  Hard: it runs beside uploads, on files that are not complete yet.
* **Client.** The url that it prints works. Hard: answers may be lost, another upload may
  come between its two requests, and it takes any redirection for a success.

The hazards, each at its line and with the properties that watch it, are listed under
`hazards` in `PROJECT.json`.

## 2. Plan

1. *(done)* The core: `VracDB`, `Storage`, `UploadForm`, `Cleanup`, composed by `Vrac`;
   `VracClaims` for the statements of comments that the code does not keep; `MCVrac`.
   Theorems: types, one live link, used links stay, files and metadata agree.
2. *(done)* `Downloads`: visitors as processes that look a row up and then read a listing or
   a blob; the zip.
3. *(done)* The abstract specification `DropBox`, a link that is offered, sealed in a single
   step with the files of one upload, and withdrawn, and `VracDropBox`, the mapping under
   which `Vrac` implements it.
4. *(done)* `Repair`: `fill_metadata` beside the uploads.
5. *(done)* `Client`: `vrac upload`, which drives the handlers of the server over its two
   requests; `Service` composes it and the visitors with the server. `Gen`: accounts,
   authentication, the form of `/gen`, hours in machine words, dates as texts.
6. *(done)* Proofs: `BlobProofs` (`RowOutlivesBlob`), `PublishProofs` (`PublishedIntact`),
   `DropBoxProofs` (the refinement), `GenProofs`.
7. *(done)* Proofs of what those around the server are promised: `ServiceProofs` (visitors,
   clients), `RepairProofs`.

The order followed importance: what could lose or mix a user's files came first. Every safety
property of the passing runs is now proved; `DoomedFilesGo` is liveness and stays with TLC.

## 3. Modules

| Module | Models |
|---|---|
| `VracDB` | The tables as functions from the rowids present to rows; one operator per transaction, or per statement where the code runs several outside one |
| `Storage` | `blobs` (name to the requests whose bytes may be in it) and `open` (each request's writer) |
| `UploadForm` | `post_upload_form`: `req[r]` holds the locals of request `r`; `pc` names what it has just done; one action per call |
| `Cleanup` | `cleanup`: `cleaner` holds the date, the rows selected and those whose blob is left |
| `Vrac` | The server: links from the admin, time, uploads, cleanup, crash, failure of the cleanup, restart; the properties |
| `VracClaims` | Statements quoted from the source that the runs refute |
| `DropBox` | What the server promises, without requests, attempts, stores or cleanup |
| `VracDropBox` | Each row of `token` as a box of `DropBox`, and its content as what a visitor would be shown now |
| `Downloads` | `get_upload_form`, `get_files_html`, `get_files_zip`, `get_file`: `visits[v]` holds the locals of a visitor's handler and then its answer |
| `Client` | `vrac upload`: `clients[c]`; the request it makes is the `req[c]` of `UploadForm` |
| `Service` | The server with its visitors and clients; a crash ends their requests |
| `Repair` | `fill_metadata`, a second process on the same tables and stores |
| `Gen` | What the modules over `VracDB` take for granted of a link: who may create one, what the form says, how its dates are computed and compared |
| `MCVrac`, `MCService`, `MCRepair`, `MCGen` | The links, hours and symmetry of the TLC instances |
| `VracProofs` | Statements and actions keep the types; completed files and metadata |
| `LinkProofs` | The attempts of a token, used links, one live link |
| `BlobProofs` | Whose name each blob is; rows outlive blobs |
| `PublishProofs` | What is published stays |
| `DropBoxProofs` | The refinement; all the invariants of the server in one, `ServerInv` |
| `ServiceProofs` | What visitors get; the urls that clients print |
| `RepairProofs` | The repair beside the server |
| `GenProofs` | The properties of `Gen` |

The chain of `EXTENDS` is `VracDB` <- `Storage` <- `UploadForm` <- `Cleanup` <- `Vrac`, and on
`Vrac` stand `VracClaims`, `VracDropBox`, `Downloads`, `Client` and `Repair`. `Gen` stands alone.
The proofs are one chain too: `VracProofs` <- `LinkProofs` <- `BlobProofs` <- `PublishProofs` <-
`DropBoxProofs` <- `ServiceProofs`, the last of which extends `Service` as well. `RepairProofs`
extends `PublishProofs` and `Repair`, and `GenProofs` extends `Gen`.

How the state corresponds to the code:

* `tokens[t]` has the columns of `token`; `used` is `used_at IS NOT NULL`. `deleted_at` is
  never written and `created_at` never read by the code, so both are left out.
  `published`, `by` and `late` are history: which rows the upload that used the link had
  completed, who it was, and whether `valid_until` had passed. No guard reads them.
* `files[f].data` stands for `backend_type` and `backend_data`; the name of a blob is
  `{token_id}_{attempt_counter}_{file_index}`, and so is the model's.
* `IsNextRowId` is SQLite's choice for `INTEGER PRIMARY KEY` without `AUTOINCREMENT`: the
  largest rowid present plus one, so that the id of a deleted last row comes back.
  `aliased` is history: such an id was given out while a request, a blob or the cleanup
  still had it. The properties that do not hold then say `~aliased`; `rowid_reuse` shows
  what happens otherwise.
* `clock` is `now_utc()`, in hours. A date computed just before the statement that uses it
  is the date of that statement. `NULL` compares as in SQL (`SqlLeq`). `Gen` has the
  fractions of a second that `Vrac` does without.
* Rows left over by a violated foreign key do not exist: sqlx opens SQLite with foreign
  keys on, and the statements fail as they do there (`RecordFile`, `CompleteFile`,
  `DeleteTokensFails`).
* A transaction is one step. A read that cannot be upgraded to a write because another
  connection committed in between is an error in SQLite ("database is locked"), which ends
  the handler: that is `Abort`.
* `Abort` is also the client going away, a malformed body and an error of the store: axum
  drops the handler's future at an await. `Crash` is the death of the process, and an error
  of the cleanup other than the foreign key's, which ends `try_join!` in `serve` and the
  web server with it. `CleanupFails` is the foreign key's.
* Dropping a garage writer closes the body of its PUT before it cancels it, so the object
  may or may not appear (`DropWriters`); after `copy_buf` has flushed, the PUT may end
  before `finalize_upload` waits for it (`WriteBlob`). A PUT that the store completes only
  after its writer was dropped is put at the drop.
* `visits[v]` and `clients[c]` are at first the locals of a handler or of the program, then
  what its user was told. `owner`, `published`, `listed` and `until` of a visitor are history:
  what the server owed him when his first query was answered, whatever that answer was
  (`Due`). They are of the link whose content is to be kept at the path he asked for, or of
  the one that has published the file he asked for; the row he was led to plays no part. An
  answer is forgotten when nothing was owed or what it was about has expired. `until` and
  `owed` of a client are history likewise.
* axum decodes the path of a url, and the handlers of the page and of the upload decode it
  once more; the file route does not. So what those two handlers look up may be any path
  whatever the url (`\E path` in `VisitLink` and `LookUpToken`), or they refuse it with
  InvalidUrlToken (`RefusePath`, `LeaveVisit`). For the client, whose url is known,
  `UrlDecoded` says what the second decoding makes of it. A link with a per cent sign
  in its path may not be reachable under its own url.
* The form of a fresh link shows the seconds of its content's hours. A negative number of
  hours makes that product panic in a debug build, so there `VisitLink` may end without an answer.
* In `Gen` a phc stands for its password, a row of `token` stands under the request that made
  it, and all numbers are scaled: an hour is `HourSeconds` seconds, a `u64` is below
  `WordSize`, the calendar ends at `LastInstant`. `SecondsOf` is the multiplication by 3600,
  which panics in a debug build and wraps around in a release build; `Plus` is the addition
  to a date, which panics past the calendar. `Text` is RFC 3339 without the trailing zeros of
  the fraction, and `TextLess` SQLite's comparison of texts.

## 4. Properties and runs

"Two uploads" are two requests that may choose any path.

| Run | Module and instance | Checks | States |
|---|---|---|---|
| `core` | `MCVrac`; two uploads, one field, empty fields, links whose content lasts an hour or for ever, 3 rows, 2 hours, one crash | `TypeOK`, `PublishedIntact`, `CompletedIffMetadata`, `UniqueLiveTokenIfContentOutlives`, `RowOutlivesBlob`, `ImplementsDropBox` | 204 000 |
| `attempts` | `MCVrac`; two uploads of up to two fields, 3 rows, 1 hour | `PublishedIntact`, `UsedIsFinal` | 602 000 |
| `live` | `MCVrac`; fair cleanup, 2 rows, 2 hours, one crash | `DoomedFilesGo` | 215 000 |
| `service` | `MCService`; an upload, a client, a visitor, the links that the client asks for, names without a per cent sign, 2 rows, 1 hour, one crash | `ServiceTypeOK`, `VisitorsGetPublished`, `PrintedUrlWorks` | 438 000 |
| `garage` | `MCRepair`; two uploads of up to two fields to the object store, the repair, a new database or an old one with one or two files, 2 rows, 1 hour, no crash | `RepairHeals` | 1 462 000 |
| `gen` | `MCGen`; a request from a browser and one from the client, one user, two passwords, words of 4 bits, 12 instants | `GenTypeOK`, `LinksComeFromAdmins`, `LifetimesAsAsked`, `DatesKeptToTheSecond` | 474 000 |

* `PublishedIntact`: the page of a used link lists exactly the files that one upload
  completed, and each has its blob with that upload's bytes alone.
* `UsedIsFinal`: no step changes a used token, except its deletion. Only the attempt
  counter in the WHERE of `finalise_token_upload` prevents it.
* `UniqueLiveTokenIfContentOutlives`: what `get_valid_token` says holds "by construction",
  for links whose content outlives them.
* `CompletedIffMetadata`: the page (which joins `file_metadata`) and the file route (which
  tests `completed_at`) agree on the files.
* `RowOutlivesBlob`: no file row is deleted while its local blob exists; the cleanup could
  never find the blob again.
* `ImplementsDropBox`: every step of the server is a step of `DropBox` or changes nothing of
  it. A box is a row of `token` with its path, its date (`valid_until`, then
  `content_expires_at`) and its content: the rows that its page lists and the bytes behind
  each. So a link gets its content in one step although an upload takes many, all of it from one
  upload; it keeps it until it is over; it goes only when its date has passed; and no path
  is offered while it has a live link. `trusted` is mapped to `~aliased`. A box that is sealed
  after its date (`late`) has no content to rely on.
* `DoomedFilesGo`: a file of a superseded attempt or of an expired link does not stay.
* `VisitorsGetPublished`: whoever asks for a path whose content is to be kept until he is
  answered is not told that there is no link, nor shown the upload form. The page lists no
  file of another upload, and misses none that had metadata when his link was looked up. Who
  asks for a file that was published gets it, with its upload's bytes: neither "not found" nor
  an error. The property judges the answers "not found" and form, too: what is owed is told
  from the links of the path, not from the row the handler was given. It does not say that
  nothing else is served: who asks for a file that was not published is owed nothing, and may get
  one that a failed attempt has left (`stale_served`). Nor does it promise the zip
  (section 5).
* `PrintedUrlWorks`: the url that `vrac upload` prints leads, until the date of the content, to
  the link that the client's own upload has sealed and to its file. The client takes any
  redirection for a success, and prints the url also when another attempt had superseded its
  own, when the link had expired, or for an empty file: then nothing is owed (`owed`).
* `RepairHeals`: the page of a used link lists what its upload has published, except for what
  still lacks metadata; nothing that the repair gave metadata in an unfinished upload shows;
  after a repair without error no page misses anything. It covers `PublishedIntact` for the
  object store, where a PUT may end after the object was deleted.
* `LinksComeFromAdmins`: the password of the request that made a link was right at some
  moment since it arrived.
* `LifetimesAsAsked`: a link and its content last as long as was asked, or the seconds did not
  fit the word. In particular a negative number of hours, which becomes a huge `u64`, never
  yields a date unless the product wraps around.
* `DatesKeptToTheSecond`: texts with and without fractions do not order as their dates, but
  never wrongly by a second: no link goes before its second, none starts an upload after it.

**Bounds.** `MaxRowId`, `MaxClock`, `MaxFiles`, `MaxCrashes` and the number of requests.
Two requests are what the attempt counter is about: one supersedes, one is superseded;
an instance with three requests (one field) was also run, and passed. Two fields in a body distinguish
a first, an empty and a later field. Three rows of files are enough for a complete attempt
beside a failed one, and for a reused id; three rows of tokens for a path that is used,
expires and is used again. With links of one hour, the one hour of `attempts` contains
a link that expires during an upload or after it was used, and the next link of its path.
The two hours of `core` also contain content that expires after its link did, because the
upload ended late. When the rowids run out an upload can only abort: the instance stops there,
the program would go on. One crash is enough to lose the locals at every place; failures
of the cleanup are not bounded. In `service` the browser's upload is the one that can come
between the client's requests; the visitor makes one request, at any moment of the run. In
`garage` a second file in the old database lets the repair fail between two of them; writers are
dropped there by uploads that are cut off one by one (with one crash the instance has 2 998 000
states, and passed). In `gen` the
hours cover a duration that fits the word, one that fits the word but not the calendar, one that
wraps around to a date, and negative ones; the fractions .0, .5 and .51 are those whose
texts order differently from their dates. The theorems of section 6 do without these bounds,
except that the old database of `RepairHolds` is one link with any number of files, and that
those with the condition `ContentOutlivesLink` leave out the links that `hidden_link` is about.

**Deadlock** is checked except in `gen`, where the requests end and the calendar does.

**Fairness.** `live` assumes weak fairness of the cleanup's steps alone: the runtime polls the task,
and `background_cleanup` loops for ever around it. Nothing is assumed of clients, of the admin
or of time. Nobody is obliged to restart the server after a crash, so the property starts
with `[]<>serving`.

## 5. Where the source says otherwise

Each of these runs checks one statement of a comment and finds it violated (`VracClaims`).

| Run | The source says | What happens |
|---|---|---|
| `late_upload` | `valid_until` "only has meaning until some files are uploaded sucessfully" (`db.rs:21`) | A pass that selects the files of an upload in progress on a link that has just expired deletes them after the upload was published |
| `rowid_reuse` | The counter in the WHERE is there "to avoid races if two concurrent uploads" (`db.rs:427`) | Token ids are given out again and counters start at 0: a late upload to a deleted token finalises the next one |
| `stale_served` | Files of a request that failed midway should "not be displayed" (`db.rs:34`) | `get_valid_file` does not compare attempts: once the link is used, a completed file of an earlier attempt is served until a pass removes it |
| `expired_tokens` | "Delete the token in DB that are expired (used or not)" (`db.rs:455`) | A pass without files returns before it deletes tokens: expired links without files stay for ever |
| `stray_blobs` | The counter is there "to delete stray files from previous attempts" (`migrations/20221013175019_token.up.sql:10`) | A blob is created before its row; an upload dropped in between leaves a blob that nothing deletes |
| `hidden_link` | "by construction [...] there can only be one token that at most that is either fresh or used and not yet expired" (`db.rs:602`) | Content that expires before its link: the spent row still matches the query, hides the next link of the path from `LIMIT 1`, and `create_token`, which is told that there is none, adds another |

Known limits without a run of their own:

* An unused row has no `content_expires_at`, and NULL passes the second condition of
  `get_valid_token`: a link stays Fresh after `valid_until`, and an upload to it fails in
  `initiate_upload`. The models have it (`Matching`).
* The page offers "Download all files as zip" (`templates/get_files.html:39`), but
  `get_files_zip` reads the files of the local store with the reader of the object store and
  refuses those of the other (`handlers/upload.rs:376`): the stream of a link with files breaks off
  before its first byte. The models have it (`SendZip`); one request shows it.
* `upload_form` panics in a debug build for a link whose content is given a negative number
  of hours (`handlers/upload.rs:252`).
* A link is created under the path of the form, and its url is decoded once more than it was
  encoded (`handlers/upload.rs:91` and `:130`): a path with a per cent sign in it may not be
  found again, while the file route, which decodes once, finds it.
* The column comment promises that the size of a link's content is limited (`db.rs:18`);
  `max_size_mib` is stored and shown, and nothing compares it with anything. There is no
  behaviour to model.

## 6. Proofs

The theorems on the server hold for every set of requests, paths and links, every bound and
every number of crashes, from three assumptions on the constants: `ConstantsOK` (the links
offered are well formed, sizes and bounds are naturals, `NULL` is not an integer, the backends
are the two known), `NullIsNoName` (`NULL` is not the name of a blob) and `MaxCrashesOK`. Those
on the service add `ClientConstantsOK`: the uploads of clients are some of the requests, the
link that a client asks for is one that the form of `/gen` can describe, as it is the same
form, and the second decoding makes of a path a path or nothing. Those on the repair add no
assumption. Those on `Gen` rest on `GenConstantsOK`.

Those on one live link, the refinement, visitors and urls have the condition
`ContentOutlivesLink`, that the content of every link outlives the link: without it a spent row
may hide a live one (`hidden_link`), and a visitor of kept content may be told that there is no link.

* `TypeCorrect` (`Spec => []TypeOK`). `TypeOK` is not inductive: the name of a blob is
  made of the handler's locals, which are blank at first. The invariant `TypeInv` adds
  `LocalsSet`: from `get_valid_token` on the token and backend are set, and while a field is
  handled its index is not 0. One lemma per statement, per operation of the
  stores and per action.
* `UsedStays` (`Spec => UsedIsFinal`) and `OneLiveToken`
  (`Spec => []UniqueLiveTokenIfContentOutlives`). `StepKind` sorts the steps of the server
  by what they do to tokens and attempts: create a row, start an attempt, compute a date, mark
  used, delete rows, or none. `AttemptInv`: no request is ahead of its token's counter, two requests on
  one token have different attempts, and no request has the attempt that a used token shows.
  So the UPDATE of `finalise_token_upload` never matches a used row. `LinkInv`: a
  token's `valid_until` is covered by its hours counted from now, by the date that an
  upload has computed, and by the date in a used row. So a used row whose content has
  expired is past `valid_until` too and no longer matches, and `get_valid_token` answers
  NotFound only for a path without live row (`NotFoundNotLive`). `ContentOutlivesLink` and
  `~aliased` are needed (sections 5 and 4).
* `FilesAgree` (`Spec => []CompletedIffMetadata`), with the foreign key of
  `file_metadata` as the strengthening.
* `RowsOutliveBlobs` (`Spec => RowOutlivesBlob`). `NameInv`: a writer has its own request's
  blob open, every file has its token, and no name in the tables or the stores is ahead of
  its token's counter or of the field its upload is at; so a name that is opened is new.
  `RowInv` adds that a request's row has the name the request thinks, that the rows in a
  selection are still those that were read, and that a blob that a pass has deleted is gone
  for good. Hence the rows that `delete_files` takes have no blob any more.
* `PublishedHolds` (`Spec => []PublishedIntact`). `PublishInv` says what the cleanup may hold:
  everything in its selection belongs to a superseded attempt, or to a token that was expired
  when the pass began (`SelectionDoomed`). Then what an upload has stored so far is intact as
  long as its link is (`HeldIntact`), and so are the rows and the bytes of a used link
  (`ShownStored`). The upload that marks its token turns the one into the other. The lemmas
  follow the bytes: opening, writing and dropping a writer touch the blobs of their own attempt
  only, which is nobody else's. None of this speaks of metadata; with `FilesAgree` the page of a
  used link lists all its rows (`ShownIntact`).
* `Implemented` (`ContentOutlivesLink /\ Spec => ImplementsDropBox`). By `ShownIntact` the
  content of a box can be told from its row and the clock (`published`, `by`), so a step that
  leaves both alone leaves the box alone, and what is left is to judge the kinds of `StepKind`:
  a new row is an `Offer`, `finalise_token_upload` a `Seal` with the files stored,
  `delete_expired_tokens` a `Withdraw`, the clock `PassTime`. `SealInv` adds what a seal
  needs: a pass works with a past date, an upload that has counted bytes has stored a file, and the date it
  has computed is one that the box may be kept until.
* `ServesAsAlone` (`ServiceSpec => Spec /\ []ClientTypeOK`). A client that asks for a link does
  what the admin could do, and its upload is one of `Requests`; a visitor changes nothing of
  the server. So `ServerInv` holds of the service. `ServiceTypes`
  (`ServiceSpec => []ServiceTypeOK`) adds that of the visitors between their reads those of a
  file, and no others, have a file in their locals.
* `VisitorsServed` (`ContentOutlivesLink /\ ServiceSpec => []VisitorsGetPublished`). The first
  query is the one that the condition is for: a path with kept content has one live row, so
  `get_valid_token` finds that row and not another (`KeptIsUsed`, `OneAnswer`), and
  `get_valid_file` finds every file published there, as the two columns it looks at agree
  (`UsedDated`). `VisitInv` then holds that, as long as the content is to be kept, a visitor between
  his reads holds the row of the upload he is owed, with its last attempt (`Led`) or with
  the name of one of its blobs (`Found`), and an answer already given was right (`Served`).
  `LivesOn` carries it over every step of the server: a used row whose content is kept is
  neither changed nor deleted. The answer follows from `ShownIntact`. What was published by
  an upload that ended after the link's date is not kept (`late_upload`), so it is not owed.
* `UrlsWork` (`ContentOutlivesLink /\ ServiceSpec => []PrintedUrlWorks`). `ClientInv`: a client
  that posts holds a token of its path, and one that is owed its file has sealed a row of that
  path, which is there until its content is over. `MarkSealsForClient` is the step that makes
  it so: `finalise_token_upload` matches the row before its date, and bytes were stored.
  `get_valid_token` then answers with this row and no other, as a path has one live link
  (`SealedIsUsed`); hence the condition. The path is the one that both requests to the url
  come down to (`PathOfUrl`), so the theorem holds for any decoding.
* `RepairHolds` (`RepairSpec => []RepairHeals`). The repair writes metadata and nothing else, so the
  invariants up to `PublishInv` (`FilesInv`) hold beside it, although `CompletedIffMetadata` does
  not; they hold of an old database, too, which is one used link with any number of files
  (`OldState`, `OldTypes`). `RepairInv` adds `Covered`: a
  completed file without metadata is one that the program has in its list or at hand, unless
  it has not begun or has failed. So when it ends with an empty list, no page misses a file.
* `GenTypeCorrect`, `OnlyAdminsCreate`, `LifetimesKept`, `DatesKept`: the four properties of
  `Gen`, for every width of word and calendar, every hours and every fraction. The first needs
  `GenInv`: a form that was understood holds numbers that fit a half word, and an unused link
  has no date of expiration. The second needs `HeldInv`: a password that would be accepted now
  counts as held. The third rests on `WordOfHours`: a negative number of hours
  becomes a word whose seconds overflow, as an hour has at least two seconds. The fourth rests on
  `TextsOrder`: a text begins with the digits of its second, so the order of texts
  and that of seconds never contradict.

The invariants were checked by TLC on the small instances before they were proved.

Only model-checked: `DoomedFilesGo`, as liveness under fairness is outside the prover's reach.

## 7. Not modelled

* The zip stream beyond its failure: its pipe never holds a byte, so the interplay of writer
  and reader in `ZipAsyncReader` does not happen.
* `fill_metadata --dry-run`, which writes nothing.
* The polling of `GarageWriteBlob` within one copy, and the protocol of the object store below
  "a PUT ends or does not".
* The connection pool, `migrate` and `close` of the database, the command line, configuration
  and logging of the programs.
* In the client: the file, the environment and the encoding of the body.
* Templates, flash messages, error texts and the formatting of sizes and dates for people; the
  browser script, which only adds inputs to a form; the scratch binaries `split` and `test`.
  None keeps any state of the service.
* The contents of files beyond whose bytes they are.
