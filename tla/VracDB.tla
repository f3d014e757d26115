------------------------------- MODULE VracDB -------------------------------
(***************************************************************************)
(* The SQLite database of vrac (src/src/db.rs, src/migrations): the tables *)
(* token, file and file_metadata, and the statements and transactions that *)
(* DBService runs on them.  A table is a function whose domain is the set  *)
(* of rowids present.  One operator stands for one transaction, or for one *)
(* statement where the code runs several outside a transaction.            *)
(*                                                                         *)
(* Rowids.  The tables declare `id INTEGER PRIMARY KEY` without            *)
(* AUTOINCREMENT, so SQLite gives a new row the largest rowid present plus *)
(* one: the id of a deleted last row is given out again.                   *)
(*                                                                         *)
(* Foreign keys.  sqlx opens SQLite with foreign_keys=ON, so inserting a   *)
(* file for a missing token, inserting metadata for a missing file and     *)
(* deleting a token that still has files are all errors.                   *)
(***************************************************************************)
EXTENDS Integers, Functions

CONSTANTS
    Requests,     \* the POST /f/:path requests of the run, each served once
    Paths,        \* the url paths the admin uses
    Options,      \* what the admin may fill in the form of /gen
    Backends,     \* the storage backends in use
    Sizes,        \* how many bytes an uploaded field may hold
    MaxFiles,     \* fields in one multipart body
    MaxRowId,     \* rowids stay at or under this bound
    MaxClock,     \* the clock stops there, one tick is one hour
    NULL          \* SQL's NULL

OptionType ==
    [valid_for : Nat,
     content_expires_after_hours : Nat \cup {NULL},
     max_size : Nat \cup {NULL},
     backend_type : Backends]

ASSUME ConstantsOK ==
    /\ Options \subseteq OptionType
    /\ Sizes \subseteq Nat
    /\ {MaxFiles, MaxRowId, MaxClock} \subseteq Nat
    /\ NULL \notin Int
    /\ Backends \subseteq {"local_fs", "garage"}

VARIABLES
    clock,        \* OffsetDateTime::now_utc()
    tokens,       \* table token
    files,        \* table file
    metadata      \* table file_metadata: file_id -> size_b

dbVars == <<tokens, files, metadata>>

RowIds == 1..MaxRowId

(***************************************************************************)
(* The fields published, by and late of a token row are history: the rows  *)
(* that the request `by` had completed when it marked the token used, and  *)
(* whether it did so after valid_until.  No guard reads them.  used stands *)
(* for `used_at IS NOT NULL`.                                              *)
(***************************************************************************)
TokenType ==
    [path : Paths,
     valid_until : Nat,
     content_expires_after_hours : Nat \cup {NULL},
     max_size : Nat \cup {NULL},
     backend_type : Backends,
     attempt_counter : Nat,
     used : BOOLEAN,
     content_expires_at : Nat \cup {NULL},
     published : SUBSET RowIds,
     by : Requests \cup {NULL},
     late : BOOLEAN]

\* backend_data: the name of a blob is made of these three numbers, and
\* backend_type says which store it is in.
BlobType ==
    [backend_type : Backends,
     token_id : RowIds,
     attempt_counter : Nat,
     file_index : 1..MaxFiles]

ASSUME NullIsNoName == NULL \notin BlobType

FileType == [data : BlobType, completed : BOOLEAN]

TablesOK ==
    /\ DOMAIN tokens \subseteq RowIds
    /\ tokens \in [DOMAIN tokens -> TokenType]
    /\ DOMAIN files \subseteq RowIds
    /\ files \in [DOMAIN files -> FileType]
    /\ DOMAIN metadata \subseteq RowIds
    /\ metadata \in [DOMAIN metadata -> Nat]

DBTypeOK == clock \in Nat /\ TablesOK

DBInit ==
    /\ clock = 0
    /\ tokens = [t \in {} |-> {}]
    /\ files = [f \in {} |-> {}]
    /\ metadata = [f \in {} |-> {}]

-----------------------------------------------------------------------------
(* SQL *)

\* The rowid SQLite picks for the next row of a table.
IsNextRowId(table, id) ==
    IF DOMAIN table = {}
    THEN id = 1
    ELSE id - 1 \in DOMAIN table /\ \A i \in DOMAIN table : i < id

Insert(table, id, row) ==
    [i \in DOMAIN table \cup {id} |-> IF i = id THEN row ELSE table[i]]

Delete(table, ids) == Restrict(table, DOMAIN table \ ids)

\* `column <= ?`, which is not true of NULL.
SqlLeq(column, value) == column # NULL /\ column <= value

-----------------------------------------------------------------------------
(* get_valid_token: at most one row of the table is looked at (LIMIT 1), the *)
(* one with the smallest rowid since path has no index.                      *)

\* Mutant: the query forgets that SQL's comparison with NULL is not true.
MatchingNotNull(path) ==
    {t \in DOMAIN tokens :
        /\ tokens[t].path = path
        /\ \/ tokens[t].valid_until > clock
           \/ /\ tokens[t].content_expires_at # NULL
              /\ tokens[t].content_expires_at > clock}

Matching(path) ==
    {t \in DOMAIN tokens :
        /\ tokens[t].path = path
        /\ \/ tokens[t].valid_until > clock
           \/ ~SqlLeq(tokens[t].content_expires_at, clock)}

IsFirstMatch(path, t) ==
    t \in Matching(path) /\ \A u \in Matching(path) : t <= u

HasValidContent(t) ==
    \/ tokens[t].content_expires_after_hours = NULL
    \/ ~SqlLeq(tokens[t].content_expires_at, clock)

\* GetTokenResult::Fresh, ::Used and ::NotFound
IsFresh(path, t) == IsFirstMatch(path, t) /\ ~tokens[t].used
IsUsed(path, t) == IsFirstMatch(path, t) /\ tokens[t].used /\ HasValidContent(t)
IsNotFound(path) ==
    \/ Matching(path) = {}
    \/ \E t \in DOMAIN tokens :
          IsFirstMatch(path, t) /\ tokens[t].used /\ ~HasValidContent(t)

-----------------------------------------------------------------------------
(* Tokens *)

\* handlers::gen::create_token and db.create_token, for a path that has no
\* valid token.  When there is one the answer is AlreadyExist and nothing
\* changes.
CreateToken(path, o) ==
    /\ IsNotFound(path)
    /\ \E t \in RowIds :
          /\ IsNextRowId(tokens, t)
          /\ tokens' = Insert(tokens, t,
                [path |-> path,
                 valid_until |-> clock + o.valid_for,
                 content_expires_after_hours |-> o.content_expires_after_hours,
                 max_size |-> o.max_size,
                 backend_type |-> o.backend_type,
                 attempt_counter |-> 0,
                 used |-> FALSE,
                 content_expires_at |-> NULL,
                 published |-> {}, by |-> NULL, late |-> FALSE])
    /\ UNCHANGED <<files, metadata>>

\* Mutant: without `used_at IS NULL`
CanInitiateUsed(t) ==
    /\ t \in DOMAIN tokens
    /\ tokens[t].valid_until > clock

CanInitiate(t) ==
    /\ t \in DOMAIN tokens
    /\ tokens[t].valid_until > clock
    /\ ~tokens[t].used

\* db.initiate_upload, when it finds the row
InitiateUpload(t) ==
    /\ CanInitiate(t)
    /\ tokens' = [tokens EXCEPT ![t].attempt_counter = @ + 1]
    /\ UNCHANGED <<files, metadata>>

\* Mutant: the hours of the content count from the end of the link.
ContentExpiryFromLink(t) ==
    IF tokens[t].content_expires_after_hours = NULL
    THEN NULL
    ELSE tokens[t].valid_until + tokens[t].content_expires_after_hours

\* content_expires_at, from the row that finalise_token_upload selects
ContentExpiry(t) ==
    IF tokens[t].content_expires_after_hours = NULL
    THEN NULL
    ELSE clock + tokens[t].content_expires_after_hours

\* Mutant: without `AND attempt_counter=?`
MarkUsedAnyAttempt(t, attempt, expires_at, stored, r) ==
    /\ tokens' =
          IF t \in DOMAIN tokens
          THEN [tokens EXCEPT ![t].used = TRUE,
                              ![t].content_expires_at = expires_at,
                              ![t].published = stored,
                              ![t].by = r,
                              ![t].late = (tokens[t].valid_until <= clock)]
          ELSE tokens
    /\ UNCHANGED <<files, metadata>>

\* The UPDATE of db.finalise_token_upload.  It matches no row when the
\* token is gone or has seen another attempt, and that is not an error.
MarkUsed(t, attempt, expires_at, stored, r) ==
    /\ tokens' =
          IF t \in DOMAIN tokens /\ tokens[t].attempt_counter = attempt
          THEN [tokens EXCEPT ![t].used = TRUE,
                              ![t].content_expires_at = expires_at,
                              ![t].published = stored,
                              ![t].by = r,
                              ![t].late = (tokens[t].valid_until <= clock)]
          ELSE tokens
    /\ UNCHANGED <<files, metadata>>

\* A row that `delete_expired_tokens` matches
IsExpired(t, now) ==
    \/ SqlLeq(tokens[t].content_expires_at, now)
    \/ ~tokens[t].used /\ tokens[t].valid_until <= now

ExpiredTokens(now) == {t \in DOMAIN tokens : IsExpired(t, now)}

HasFiles(t) == \E f \in DOMAIN files : files[f].data.token_id = t

\* db.delete_expired_tokens, one DELETE: a single expired token that still
\* has files makes the whole statement fail (foreign key).
DeleteExpiredTokens(now) ==
    /\ \A t \in ExpiredTokens(now) : ~HasFiles(t)
    /\ tokens' = Delete(tokens, ExpiredTokens(now))
    /\ UNCHANGED <<files, metadata>>

-----------------------------------------------------------------------------
(* Files *)

\* db.create_file
CreateFile(f, data) ==
    /\ IsNextRowId(files, f)
    /\ data.token_id \in DOMAIN tokens
    /\ files' = Insert(files, f, [data |-> data, completed |-> FALSE])
    /\ UNCHANGED <<tokens, metadata>>

\* The transaction of db.finalise_file_upload commits: the row is there
\* (foreign key of file_metadata) and has no metadata yet (its primary key).
CanFinaliseFile(f) == f \in DOMAIN files \ DOMAIN metadata

\* Mutant: the UPDATE of completed_at is lost.
FinaliseMetadataOnly(f, size) ==
    /\ CanFinaliseFile(f)
    /\ metadata' = Insert(metadata, f, size)
    /\ UNCHANGED <<tokens, files>>

FinaliseFileUpload(f, size) ==
    /\ CanFinaliseFile(f)
    /\ files' = [files EXCEPT ![f].completed = TRUE]
    /\ metadata' = Insert(metadata, f, size)
    /\ UNCHANGED tokens

\* db.delete_files
DeleteFiles(ids) ==
    /\ metadata' = Delete(metadata, ids)
    /\ files' = Delete(files, ids)
    /\ UNCHANGED tokens

\* Mutant: an attempt supersedes itself (>= for >).
FilesToDeleteEagerly(now) ==
    {f \in DOMAIN files :
        LET t == files[f].data.token_id IN
        /\ t \in DOMAIN tokens
        /\ \/ IsExpired(t, now)
           \/ tokens[t].attempt_counter >= files[f].data.attempt_counter}

\* db.get_files_to_delete
FilesToDelete(now) ==
    {f \in DOMAIN files :
        LET t == files[f].data.token_id IN
        /\ t \in DOMAIN tokens
        /\ \/ IsExpired(t, now)
           \/ tokens[t].attempt_counter > files[f].data.attempt_counter}

\* db.get_files, for the token's own id and attempt_counter: what the page
\* of a used token lists.  The JOIN drops the files without metadata.
ListedFiles(t) ==
    {f \in DOMAIN files \cap DOMAIN metadata :
        /\ files[f].data.token_id = t
        /\ files[f].data.attempt_counter = tokens[t].attempt_counter}

\* db.get_valid_file: what GET /f/:path/:file_id serves
IsServed(path, f) ==
    /\ f \in DOMAIN files
    /\ files[f].completed
    /\ LET t == files[f].data.token_id IN
       /\ t \in DOMAIN tokens
       /\ tokens[t].path = path
       /\ tokens[t].used
       /\ \/ tokens[t].content_expires_after_hours = NULL
          \/ /\ tokens[t].content_expires_at # NULL
             /\ tokens[t].content_expires_at > clock
=============================================================================
