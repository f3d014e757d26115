----------------------------- MODULE VracProofs -----------------------------
(***************************************************************************)
(* Vrac keeps its types, and its tables file and file_metadata in step, for *)
(* any requests, paths, links and bounds.  TypeOK is not inductive: the     *)
(* name of a blob is made of locals of the handler, and the handler must    *)
(* have set them before it uses them.                                       *)
(***************************************************************************)
EXTENDS Vrac, TLAPS

-----------------------------------------------------------------------------
(* Tables: partial functions from rowids to rows                           *)

\* A table over the keys K with rows in S.
IsTable(table, K, S) == DOMAIN table \subseteq K /\ table \in [DOMAIN table -> S]

\* Inserting a row of S under a key of K keeps a table a table.
LEMMA InsertTable ==
    ASSUME NEW K, NEW S, NEW table, IsTable(table, K, S),
           NEW id \in K, NEW row \in S
    PROVE  IsTable(Insert(table, id, row), K, S)
BY DEF IsTable, Insert

\* Deleting rows keeps a table a table.
LEMMA DeleteTable ==
    ASSUME NEW K, NEW S, NEW table, IsTable(table, K, S), NEW ids
    PROVE  IsTable(Delete(table, ids), K, S)
BY DEF IsTable, Delete, Restrict

\* So does replacing one row.
LEMMA UpdateTable ==
    ASSUME NEW K, NEW S, NEW table, IsTable(table, K, S),
           NEW id \in DOMAIN table, NEW row \in S
    PROVE  IsTable([table EXCEPT ![id] = row], K, S)
BY DEF IsTable

\* The empty table
LEMMA EmptyTable ==
    ASSUME NEW K, NEW S, NEW row
    PROVE  IsTable([i \in {} |-> row], K, S)
BY DEF IsTable

-----------------------------------------------------------------------------
(* The statements of DBService                                             *)

\* The database is three tables.
LEMMA TablesAreTables ==
    TablesOK <=>
        /\ IsTable(tokens, RowIds, TokenType)
        /\ IsTable(files, RowIds, FileType)
        /\ IsTable(metadata, RowIds, Nat)
BY DEF TablesOK, IsTable

\* So it is after a step.
LEMMA TablesAreTablesNext ==
    TablesOK' <=>
        /\ IsTable(tokens', RowIds, TokenType)
        /\ IsTable(files', RowIds, FileType)
        /\ IsTable(metadata', RowIds, Nat)
BY DEF TablesOK, IsTable

\* A new link: POST /gen keeps the types.
LEMMA CreateTokenType ==
    ASSUME DBTypeOK, NEW path \in Paths, NEW o \in Options, CreateToken(path, o)
    PROVE  TablesOK'
<1>1. PICK t \in RowIds :
          tokens' = Insert(tokens, t,
                [path |-> path,
                 valid_until |-> clock + o.valid_for,
                 content_expires_after_hours |-> o.content_expires_after_hours,
                 max_size |-> o.max_size,
                 backend_type |-> o.backend_type,
                 attempt_counter |-> 0,
                 used |-> FALSE,
                 content_expires_at |-> NULL,
                 published |-> {}, by |-> NULL, late |-> FALSE])
    BY DEF CreateToken
<1>2. o \in OptionType
    BY ConstantsOK
<1>3. clock + o.valid_for \in Nat
    BY <1>2 DEF DBTypeOK, OptionType
<1>4. [path |-> path,
       valid_until |-> clock + o.valid_for,
       content_expires_after_hours |-> o.content_expires_after_hours,
       max_size |-> o.max_size,
       backend_type |-> o.backend_type,
       attempt_counter |-> 0,
       used |-> FALSE,
       content_expires_at |-> NULL,
       published |-> {}, by |-> NULL, late |-> FALSE] \in TokenType
    BY <1>2, <1>3 DEF OptionType, TokenType
<1>5. IsTable(tokens', RowIds, TokenType)
    BY <1>1, <1>4, InsertTable, TablesAreTables DEF DBTypeOK
<1>6. QED
    BY <1>5, TablesAreTables, TablesAreTablesNext DEF DBTypeOK, CreateToken

\* A new attempt
LEMMA InitiateUploadType ==
    ASSUME TablesOK, NEW t, InitiateUpload(t)
    PROVE  TablesOK' /\ tokens[t].attempt_counter \in Nat
<1>1. t \in DOMAIN tokens /\ tokens[t] \in TokenType
    BY DEF InitiateUpload, CanInitiate, TablesOK
<1>2. [tokens[t] EXCEPT !.attempt_counter = @ + 1] \in TokenType
    BY <1>1 DEF TokenType
<1>3. tokens' = [tokens EXCEPT ![t] = [tokens[t] EXCEPT !.attempt_counter = @ + 1]]
    BY <1>1 DEF InitiateUpload
<1>4. IsTable(tokens', RowIds, TokenType)
    BY <1>1, <1>2, <1>3, UpdateTable, TablesAreTables
<1>5. QED
    BY <1>1, <1>4, TablesAreTables, TablesAreTablesNext DEF InitiateUpload, TokenType

\* The row of a link that an upload has used
LEMMA UsedRowType ==
    ASSUME NEW row \in TokenType, NEW expires_at \in Nat \cup {NULL},
           NEW stored \in SUBSET RowIds, NEW r \in Requests, NEW late \in BOOLEAN
    PROVE  [row EXCEPT !.used = TRUE, !.content_expires_at = expires_at,
                       !.published = stored, !.by = r, !.late = late] \in TokenType
BY DEF TokenType

\* The end of an upload
LEMMA MarkUsedType ==
    ASSUME DBTypeOK, NEW t, NEW attempt, NEW expires_at \in Nat \cup {NULL},
           NEW stored \in SUBSET RowIds, NEW r \in Requests,
           MarkUsed(t, attempt, expires_at, stored, r)
    PROVE  TablesOK'
<1>1. CASE t \in DOMAIN tokens /\ tokens[t].attempt_counter = attempt
  <2> DEFINE row == [tokens[t] EXCEPT !.used = TRUE,
                                      !.content_expires_at = expires_at,
                                      !.published = stored,
                                      !.by = r,
                                      !.late = (tokens[t].valid_until <= clock)]
  <2>1. tokens[t] \in TokenType
      BY <1>1 DEF DBTypeOK, TablesOK
  <2>2. row \in TokenType
    <3>1. (tokens[t].valid_until <= clock) \in BOOLEAN
        OBVIOUS
    <3>2. QED
        BY <2>1, <3>1, UsedRowType
  <2>3. tokens' = [tokens EXCEPT ![t] = row]
      BY <1>1 DEF MarkUsed
  <2>4. IsTable(tokens', RowIds, TokenType)
      BY <1>1, <2>2, <2>3, UpdateTable, TablesAreTables DEF DBTypeOK
  <2>5. QED
      BY <2>4, TablesAreTables, TablesAreTablesNext DEF DBTypeOK, MarkUsed
<1>2. CASE ~(t \in DOMAIN tokens /\ tokens[t].attempt_counter = attempt)
    BY <1>2 DEF DBTypeOK, MarkUsed, TablesOK
<1>3. QED
    BY <1>1, <1>2

\* The DELETE of the expired tokens
LEMMA DeleteExpiredTokensType ==
    ASSUME TablesOK, NEW now, DeleteExpiredTokens(now)
    PROVE  TablesOK'
BY DeleteTable, TablesAreTables, TablesAreTablesNext DEF DeleteExpiredTokens

\* A new file
LEMMA CreateFileType ==
    ASSUME TablesOK, NEW f \in RowIds, NEW data \in BlobType, CreateFile(f, data)
    PROVE  TablesOK'
<1>1. [data |-> data, completed |-> FALSE] \in FileType
    BY DEF FileType
<1>2. IsTable(files', RowIds, FileType)
    BY <1>1, InsertTable, TablesAreTables DEF CreateFile
<1>3. QED
    BY <1>2, TablesAreTables, TablesAreTablesNext DEF CreateFile

\* A completed file
LEMMA FinaliseFileUploadType ==
    ASSUME TablesOK, NEW f, NEW size \in Nat, FinaliseFileUpload(f, size)
    PROVE  TablesOK'
<1>1. f \in DOMAIN files /\ f \in RowIds /\ files[f] \in FileType
    BY DEF FinaliseFileUpload, CanFinaliseFile, TablesOK
<1>2. [files[f] EXCEPT !.completed = TRUE] \in FileType
    BY <1>1 DEF FileType
<1>3. files' = [files EXCEPT ![f] = [files[f] EXCEPT !.completed = TRUE]]
    BY <1>1 DEF FinaliseFileUpload
<1>4. IsTable(files', RowIds, FileType)
    BY <1>1, <1>2, <1>3, UpdateTable, TablesAreTables
<1>5. IsTable(metadata', RowIds, Nat)
    BY <1>1, InsertTable, TablesAreTables DEF FinaliseFileUpload
<1>6. QED
    BY <1>4, <1>5, TablesAreTables, TablesAreTablesNext DEF FinaliseFileUpload

\* Deleted files
LEMMA DeleteFilesType ==
    ASSUME TablesOK, NEW ids, DeleteFiles(ids)
    PROVE  TablesOK'
<1>1. IsTable(metadata', RowIds, Nat) /\ IsTable(files', RowIds, FileType)
    BY DeleteTable, TablesAreTables DEF DeleteFiles
<1>2. QED
    BY <1>1, TablesAreTables, TablesAreTablesNext DEF DeleteFiles

-----------------------------------------------------------------------------
(* Types                                                                   *)

\* Where the handler is, its locals are set: the token and its backend from
\* get_valid_token on, the index of the field from next_field on.
GoodRequest ==
    {x \in RequestType :
        /\ x.pc \notin {"idle", "done"} =>
              x.token_id \in RowIds /\ x.backend_type \in Backends
        /\ x.pc \in {"opened", "copying", "copied", "stored", "empty", "emptied"} =>
              x.file_index # 0}

LocalsSet == req \in [Requests -> GoodRequest]

TypeInv == TypeOK /\ LocalsSet

-----------------------------------------------------------------------------
(* The blob stores                                                         *)

\* A store is a table of blobs, and a writer has the name of one.
LEMMA StorageIsTable ==
    StorageTypeOK <=>
        /\ IsTable(blobs, BlobType, SUBSET Requests)
        /\ open \in [Requests -> BlobType \cup {NULL}]
BY DEF StorageTypeOK, IsTable

\* So it is after a step.
LEMMA StorageIsTableNext ==
    StorageTypeOK' <=>
        /\ IsTable(blobs', BlobType, SUBSET Requests)
        /\ open' \in [Requests -> BlobType \cup {NULL}]
BY DEF StorageTypeOK, IsTable

\* initiate_upload of a store keeps its types.
LEMMA OpenBlobType ==
    ASSUME StorageTypeOK, NEW r \in Requests, NEW b \in BlobType, OpenBlob(r, b)
    PROVE  StorageTypeOK'
<1>1. open' \in [Requests -> BlobType \cup {NULL}]
    BY DEF OpenBlob, StorageTypeOK
<1>2. IsTable(blobs', BlobType, SUBSET Requests)
    BY InsertTable, StorageIsTable DEF OpenBlob
<1>3. QED
    BY <1>1, <1>2, StorageIsTableNext

\* The end of a PUT keeps them.
LEMMA PutEndsType ==
    ASSUME StorageTypeOK, NEW r \in Requests, open[r] # NULL, PutEnds(r)
    PROVE  StorageTypeOK'
<1>1. open' \in [Requests -> BlobType \cup {NULL}]
    BY DEF PutEnds, StorageTypeOK
<1>2. open[r] \in BlobType /\ {r} \in SUBSET Requests
    BY DEF StorageTypeOK
<1>3. IsTable(blobs', BlobType, SUBSET Requests)
    BY <1>2, InsertTable, StorageIsTable DEF PutEnds
<1>4. QED
    BY <1>1, <1>3, StorageIsTableNext

\* So does copying the bytes of a field.
LEMMA WriteBlobType ==
    ASSUME StorageTypeOK, NEW r \in Requests, WriteBlob(r)
    PROVE  StorageTypeOK'
<1>1. CASE UNCHANGED storageVars
    BY <1>1 DEF storageVars, StorageTypeOK
<1>2. CASE open[r] # NULL /\ PutEnds(r)
    BY <1>2, PutEndsType
<1>3. CASE blobs' = [blobs EXCEPT ![open[r]] = @ \cup {r}] /\ UNCHANGED open
    BY <1>3 DEF StorageTypeOK
<1>4. QED
    BY <1>1, <1>2, <1>3 DEF WriteBlob

\* So does finalize_upload.
LEMMA FinalizeBlobType ==
    ASSUME StorageTypeOK, NEW r \in Requests, FinalizeBlob(r)
    PROVE  StorageTypeOK'
<1>1. CASE open[r] # NULL /\ ~IsLocal(open[r])
    BY <1>1, PutEndsType DEF FinalizeBlob
<1>2. CASE ~(open[r] # NULL /\ ~IsLocal(open[r]))
    BY <1>2 DEF FinalizeBlob, StorageTypeOK
<1>3. QED
    BY <1>1, <1>2

\* So does delete_blob, whatever it is given.
LEMMA DeleteBlobType ==
    ASSUME StorageTypeOK, NEW b, DeleteBlob(b)
    PROVE  StorageTypeOK'
<1>1. open' \in [Requests -> BlobType \cup {NULL}]
    BY DEF DeleteBlob, StorageTypeOK
<1>2. IsTable(blobs', BlobType, SUBSET Requests)
    BY DeleteTable, StorageIsTable DEF DeleteBlob
<1>3. QED
    BY <1>1, <1>2, StorageIsTableNext

\* So does dropping writers, whichever PUTs the store completes.
LEMMA DropWritersType ==
    ASSUME StorageTypeOK, NEW rs \in SUBSET Requests, NEW sent, DropWriters(rs, sent)
    PROVE  StorageTypeOK'
<1>1. open' \in [Requests -> BlobType \cup {NULL}]
    BY DEF DropWriters, StorageTypeOK
<1>2. PICK put \in SUBSET {r \in rs \cap sent : open[r] # NULL /\ ~IsLocal(open[r])} :
          blobs' = [b \in DOMAIN blobs \cup {open[r] : r \in put} |->
                       IF \E r \in put : open[r] = b
                       THEN {r \in put : open[r] = b}
                       ELSE blobs[b]]
    BY DEF DropWriters
<1>3. put \subseteq Requests /\ \A r \in put : open[r] \in BlobType
    BY <1>2 DEF StorageTypeOK
<1>4. DOMAIN blobs' \subseteq BlobType
    BY <1>2, <1>3 DEF StorageTypeOK
<1>5. ASSUME NEW b \in DOMAIN blobs'
      PROVE  blobs'[b] \in SUBSET Requests
  <2>1. CASE \E r \in put : open[r] = b
      BY <1>2, <1>3, <2>1
  <2>2. CASE ~\E r \in put : open[r] = b
      BY <1>2, <1>5, <2>2 DEF StorageTypeOK
  <2>3. QED
      BY <2>1, <2>2
<1>6. blobs' = [b \in DOMAIN blobs' |-> blobs'[b]]
    BY <1>2
<1>7. QED
    BY <1>1, <1>4, <1>5, <1>6 DEF StorageTypeOK

-----------------------------------------------------------------------------
(* The upload handler                                                      *)

\* A handler that has not started or has returned has its locals set.
LEMMA BlankIsGood ==
    /\ Blank("idle") \in GoodRequest
    /\ Blank("done") \in GoodRequest
BY ConstantsOK DEF Blank, GoodRequest, RequestType

\* A step that leaves its own handler with good locals leaves all with them.
LEMMA StepIsGood ==
    ASSUME LocalsSet, NEW r \in Requests, NEW x \in GoodRequest,
           req' = [req EXCEPT ![r] = x]
    PROVE  LocalsSet'
BY DEF LocalsSet

\* A handler may return at any time.
LEMMA ReturnIsGood ==
    ASSUME LocalsSet, NEW r \in Requests, Return(r)
    PROVE  LocalsSet'
BY BlankIsGood DEF Return, LocalsSet

\* init_file names a blob once a field was read.
LEMMA BlobOfType ==
    ASSUME LocalsSet, NEW r \in Requests, Active(r), NEW i \in 1..MaxFiles
    PROVE  [BlobOf(r) EXCEPT !.file_index = i] \in BlobType
BY DEF LocalsSet, GoodRequest, RequestType, BlobOf, BlobType, Active

\* get_valid_token gives the handler a row and a backend.
LEMMA LookUpTokenType ==
    ASSUME TypeInv, NEW r \in Requests, LookUpToken(r)
    PROVE  LocalsSet'
<1>1. \/ \E path \in Paths : \E t \in Matching(path) :
             req' = [req EXCEPT ![r].pc = "valid",
                                ![r].token_id = t,
                                ![r].backend_type = tokens[t].backend_type]
      \/ Return(r)
    BY DEF LookUpToken, LookUpTokenAt, RefusePath
<1>2. ASSUME NEW path \in Paths, NEW t \in Matching(path),
             req' = [req EXCEPT ![r].pc = "valid",
                                ![r].token_id = t,
                                ![r].backend_type = tokens[t].backend_type]
      PROVE  LocalsSet'
  <2>1. t \in RowIds /\ tokens[t].backend_type \in Backends
      BY DEF Matching, TypeInv, TypeOK, DBTypeOK, TablesOK, TokenType
  <2> DEFINE x == [req[r] EXCEPT !.pc = "valid", !.token_id = t,
                                 !.backend_type = tokens[t].backend_type]
  <2>2. req[r] \in RequestType /\ req' = [req EXCEPT ![r] = x]
      BY <1>2 DEF TypeInv, LocalsSet, GoodRequest
  <2>3. x \in GoodRequest
      BY <2>1, <2>2 DEF GoodRequest, RequestType
  <2>4. QED
      BY <2>2, <2>3, StepIsGood DEF TypeInv
<1>3. QED
    BY <1>1, <1>2, ReturnIsGood DEF TypeInv

\* db.initiate_upload gives it an attempt.
LEMMA StartAttemptType ==
    ASSUME TypeInv, NEW r \in Requests, StartAttempt(r)
    PROVE  TablesOK' /\ LocalsSet'
<1>1. CASE InitiateUpload(req[r].token_id)
  <2>1. TablesOK' /\ tokens[req[r].token_id].attempt_counter \in Nat
      BY <1>1, InitiateUploadType DEF TypeInv, TypeOK, DBTypeOK
  <2>2. CASE req' = [req EXCEPT ![r].pc = "fields",
                    ![r].attempt_counter = tokens[req[r].token_id].attempt_counter + 1]
    <3> DEFINE x == [req[r] EXCEPT !.pc = "fields",
                    !.attempt_counter = tokens[req[r].token_id].attempt_counter + 1]
    <3>1. req[r] \in GoodRequest /\ req[r].pc = "valid" /\ req' = [req EXCEPT ![r] = x]
        BY <2>2 DEF TypeInv, LocalsSet, StartAttempt
    <3>2. ASSUME NEW n \in Nat
          PROVE  [req[r] EXCEPT !.pc = "fields", !.attempt_counter = n] \in GoodRequest
        BY <3>1 DEF GoodRequest, RequestType
    <3>3. tokens[req[r].token_id].attempt_counter + 1 \in Nat
        BY <2>1
    <3>4. x \in GoodRequest
        BY <3>2, <3>3
    <3> HIDE DEF x
    <3>5. QED
        BY <2>1, <3>1, <3>4, StepIsGood DEF TypeInv
  <2>3. QED
      BY <1>1, <2>1, <2>2 DEF StartAttempt, InitiateUpload
<1>2. CASE Return(r) /\ UNCHANGED dbVars
    BY <1>2, ReturnIsGood DEF TypeInv, TypeOK, DBTypeOK, TablesOK, dbVars
<1>3. QED
    BY <1>1, <1>2 DEF StartAttempt

\* The next field has an index within the body, and its blob a name.
LEMMA NextFieldType ==
    ASSUME TypeInv, NEW r \in Requests, NextField(r)
    PROVE  StorageTypeOK' /\ LocalsSet'
<1>1. req[r] \in GoodRequest
    BY DEF TypeInv, LocalsSet
<1>2. req[r].file_index + 1 \in 1..MaxFiles
    BY <1>1, ConstantsOK DEF NextField, GoodRequest, RequestType
<1>3. [BlobOf(r) EXCEPT !.file_index = req[r].file_index + 1] \in BlobType
    BY <1>2, BlobOfType DEF TypeInv, NextField, Active
<1>4. OpenBlob(r, [BlobOf(r) EXCEPT !.file_index = req[r].file_index + 1])
    BY DEF NextField, BlobOf
<1>5. StorageTypeOK'
    BY <1>3, <1>4, OpenBlobType DEF TypeInv, TypeOK
<1>6. LocalsSet'
    BY <1>1, <1>2 DEF NextField, TypeInv, LocalsSet, GoodRequest, RequestType
<1>7. QED
    BY <1>5, <1>6

\* db.create_file gets a name that is set, and gives a row.
LEMMA RecordFileType ==
    ASSUME TypeInv, NEW r \in Requests, RecordFile(r)
    PROVE  TablesOK' /\ StorageTypeOK' /\ LocalsSet'
<1>1. ASSUME NEW f \in RowIds, CreateFile(f, BlobOf(r)), UNCHANGED storageVars,
             req' = [req EXCEPT ![r].pc = "copying", ![r].file_id = f]
      PROVE  TablesOK' /\ StorageTypeOK' /\ LocalsSet'
  <2>1. BlobOf(r) \in BlobType
      BY DEF RecordFile, TypeInv, LocalsSet, GoodRequest, RequestType, BlobOf, BlobType
  <2>2. TablesOK'
      BY <1>1, <2>1, CreateFileType DEF TypeInv, TypeOK, DBTypeOK
  <2>3. LocalsSet'
    <3> DEFINE x == [req[r] EXCEPT !.pc = "copying", !.file_id = f]
    <3>1. req[r] \in GoodRequest /\ req[r].pc = "opened" /\ req' = [req EXCEPT ![r] = x]
        BY <1>1 DEF TypeInv, LocalsSet, RecordFile
    <3>2. x \in GoodRequest
        BY <3>1 DEF GoodRequest, RequestType
    <3>3. QED
        BY <3>1, <3>2, StepIsGood DEF TypeInv
  <2>4. QED
      BY <1>1, <2>2, <2>3 DEF storageVars, TypeInv, TypeOK, StorageTypeOK
<1>2. ASSUME Return(r), DropWriters({r}, {}), UNCHANGED dbVars
      PROVE  TablesOK' /\ StorageTypeOK' /\ LocalsSet'
    BY <1>2, ReturnIsGood, DropWritersType
       DEF TypeInv, TypeOK, DBTypeOK, TablesOK, dbVars
<1>3. QED
    BY <1>1, <1>2 DEF RecordFile

\* The handler moves on and changes nothing else in its locals.
LEMMA GotoIsGood ==
    ASSUME LocalsSet, NEW r \in Requests, NEW pc,
           \/ req[r].pc = "copying" /\ pc = "empty"
           \/ req[r].pc = "empty" /\ pc = "emptied"
           \/ req[r].pc = "copied" /\ pc = "stored",
           Goto(r, pc)
    PROVE  LocalsSet'
<1>1. req[r] \in GoodRequest
    BY DEF LocalsSet
<1>2. [req[r] EXCEPT !.pc = pc] \in GoodRequest
    BY <1>1 DEF GoodRequest, RequestType
<1>3. QED
    BY <1>2, StepIsGood DEF Goto, LocalsSet

\* Copying a field counts its bytes.
LEMMA CopyBytesType ==
    ASSUME TypeInv, NEW r \in Requests, CopyBytes(r)
    PROVE  StorageTypeOK' /\ LocalsSet'
<1>1. PICK size \in Sizes :
          IF size = 0
          THEN Goto(r, "empty") /\ UNCHANGED storageVars
          ELSE /\ req' = [req EXCEPT ![r].pc = "copied",
                                     ![r].size = size,
                                     ![r].total = @ + size]
               /\ WriteBlob(r)
    BY DEF CopyBytes
<1>2. CASE size = 0
    BY <1>1, <1>2, GotoIsGood
       DEF CopyBytes, TypeInv, TypeOK, StorageTypeOK, storageVars
<1>3. CASE size # 0
  <2>1. req[r] \in GoodRequest /\ req[r].pc = "copying" /\ size \in Nat
      BY ConstantsOK DEF TypeInv, LocalsSet, CopyBytes
  <2>2. ASSUME NEW n \in Nat
        PROVE  [req[r] EXCEPT !.pc = "copied", !.size = size, !.total = n] \in GoodRequest
      BY <2>1 DEF GoodRequest, RequestType
  <2>3. req[r].total + size \in Nat
      BY <2>1 DEF GoodRequest, RequestType
  <2> DEFINE x == [req[r] EXCEPT !.pc = "copied", !.size = size,
                                 !.total = req[r].total + size]
  <2>4. x \in GoodRequest
      BY <2>2, <2>3
  <2>5. req' = [req EXCEPT ![r] = x]
      BY <1>1, <1>3 DEF TypeInv, LocalsSet
  <2> HIDE DEF x
  <2>6. LocalsSet'
      BY <2>4, <2>5, StepIsGood DEF TypeInv
  <2>7. QED
      BY <1>1, <1>3, <2>6, WriteBlobType DEF TypeInv, TypeOK
<1>4. QED
    BY <1>2, <1>3

\* Deleting the blob of an empty field keeps the types.
LEMMA DeleteEmptyBlobType ==
    ASSUME TypeInv, NEW r \in Requests, DeleteEmptyBlob(r)
    PROVE  StorageTypeOK' /\ LocalsSet'
BY DeleteBlobType, GotoIsGood DEF DeleteEmptyBlob, TypeInv, TypeOK

\* So does deleting its row.
LEMMA DeleteEmptyFileType ==
    ASSUME TypeInv, NEW r \in Requests, DeleteEmptyFile(r)
    PROVE  TablesOK' /\ StorageTypeOK' /\ LocalsSet'
<1>1. TablesOK' /\ StorageTypeOK'
    BY DeleteFilesType, DropWritersType DEF DeleteEmptyFile, TypeInv, TypeOK, DBTypeOK
<1>2. req[r] \in GoodRequest /\ req[r].pc = "emptied"
    BY DEF TypeInv, LocalsSet, DeleteEmptyFile
<1>3. [req[r] EXCEPT !.pc = "fields", !.file_id = 0] \in GoodRequest
    BY <1>2 DEF GoodRequest, RequestType
<1>4. req' = [req EXCEPT ![r] = [req[r] EXCEPT !.pc = "fields", !.file_id = 0]]
    BY DEF DeleteEmptyFile, TypeInv, LocalsSet
<1>5. QED
    BY <1>1, <1>3, <1>4, StepIsGood DEF TypeInv

\* So does finalizing the blob of another.
LEMMA StoreBlobType ==
    ASSUME TypeInv, NEW r \in Requests, StoreBlob(r)
    PROVE  StorageTypeOK' /\ LocalsSet'
BY FinalizeBlobType, GotoIsGood DEF StoreBlob, TypeInv, TypeOK

\* db.finalise_file_upload completes a row that is there, or the handler returns.
LEMMA CompleteFileType ==
    ASSUME TypeInv, NEW r \in Requests, CompleteFile(r)
    PROVE  TablesOK' /\ LocalsSet'
<1> DEFINE f == req[r].file_id
<1>1. ASSUME FinaliseFileUpload(f, req[r].size),
             req' = [req EXCEPT ![r].pc = "fields",
                                ![r].file_id = 0,
                                ![r].size = 0,
                                ![r].stored = @ \cup {f}]
      PROVE  TablesOK' /\ LocalsSet'
  <2>1. req[r] \in GoodRequest /\ req[r].pc = "stored"
      BY DEF TypeInv, LocalsSet, CompleteFile
  <2>2. TablesOK'
      BY <1>1, <2>1, FinaliseFileUploadType
         DEF TypeInv, TypeOK, DBTypeOK, GoodRequest, RequestType
  <2>3. f \in RowIds
      BY <1>1 DEF FinaliseFileUpload, CanFinaliseFile, TypeInv, TypeOK, DBTypeOK, TablesOK
  <2>4. req[r].stored \cup {f} \in SUBSET RowIds
      BY <2>1, <2>3 DEF GoodRequest, RequestType
  <2>5. ASSUME NEW S \in SUBSET RowIds
        PROVE  [req[r] EXCEPT !.pc = "fields", !.file_id = 0, !.size = 0, !.stored = S]
                  \in GoodRequest
      BY <2>1 DEF GoodRequest, RequestType
  <2> DEFINE x == [req[r] EXCEPT !.pc = "fields", !.file_id = 0, !.size = 0,
                                 !.stored = req[r].stored \cup {f}]
  <2>6. x \in GoodRequest
      BY <2>4, <2>5
  <2>7. req' = [req EXCEPT ![r] = x]
      BY <1>1 DEF TypeInv, LocalsSet
  <2> HIDE DEF x
  <2>8. QED
      BY <2>2, <2>6, <2>7, StepIsGood DEF TypeInv
<1>2. CASE Return(r) /\ UNCHANGED dbVars
    BY <1>2, ReturnIsGood DEF TypeInv, TypeOK, DBTypeOK, TablesOK, dbVars
<1>3. QED
    BY <1>1, <1>2 DEF CompleteFile

\* The date from finalise_token_upload is a date or NULL.
LEMMA EndOfBodyType ==
    ASSUME TypeInv, NEW r \in Requests, EndOfBody(r)
    PROVE  LocalsSet'
<1> DEFINE t == req[r].token_id
<1>1. ASSUME t \in DOMAIN tokens,
             req' = [req EXCEPT ![r].pc = "mark", ![r].expires_at = ContentExpiry(t)]
      PROVE  LocalsSet'
  <2>1. req[r] \in GoodRequest /\ req[r].pc = "fields"
      BY DEF TypeInv, LocalsSet, EndOfBody
  <2>2. tokens[t] \in TokenType
      BY <1>1 DEF TypeInv, TypeOK, DBTypeOK, TablesOK
  <2>3. ContentExpiry(t) \in Nat \cup {NULL}
      BY <2>2 DEF ContentExpiry, TokenType, TypeInv, TypeOK, DBTypeOK
  <2>4. ASSUME NEW e \in Nat \cup {NULL}
        PROVE  [req[r] EXCEPT !.pc = "mark", !.expires_at = e] \in GoodRequest
      BY <2>1 DEF GoodRequest, RequestType
  <2> DEFINE x == [req[r] EXCEPT !.pc = "mark", !.expires_at = ContentExpiry(t)]
  <2>5. x \in GoodRequest
      BY <2>3, <2>4
  <2>6. req' = [req EXCEPT ![r] = x]
      BY <1>1 DEF TypeInv, LocalsSet
  <2> HIDE DEF x
  <2>7. QED
      BY <2>5, <2>6, StepIsGood DEF TypeInv
<1>2. CASE Return(r)
    BY <1>2, ReturnIsGood DEF TypeInv
<1>3. QED
    BY <1>1, <1>2 DEF EndOfBody

\* The UPDATE of finalise_token_upload keeps the types.
LEMMA MarkTokenUsedType ==
    ASSUME TypeInv, NEW r \in Requests, MarkTokenUsed(r)
    PROVE  TablesOK' /\ LocalsSet'
<1>1. req[r].expires_at \in Nat \cup {NULL} /\ req[r].stored \in SUBSET RowIds
    BY DEF TypeInv, LocalsSet, GoodRequest, RequestType
<1>2. QED
    BY <1>1, MarkUsedType, ReturnIsGood DEF MarkTokenUsed, TypeInv, TypeOK

\* So does an upload that is dropped.
LEMMA AbortType ==
    ASSUME TypeInv, NEW r \in Requests, Abort(r)
    PROVE  StorageTypeOK' /\ LocalsSet'
BY ReturnIsGood, DropWritersType DEF Abort, TypeInv, TypeOK

\* Every step of an upload keeps the tables, the stores and the locals typed.
LEMMA UploadStepType ==
    ASSUME TypeInv, NEW r \in Requests, UploadStep(r)
    PROVE  TablesOK' /\ StorageTypeOK' /\ LocalsSet'
<1>1. UNCHANGED dbVars => TablesOK'
    BY DEF dbVars, TypeInv, TypeOK, DBTypeOK, TablesOK
<1>2. UNCHANGED storageVars => StorageTypeOK'
    BY DEF storageVars, TypeInv, TypeOK, StorageTypeOK
<1>3. CASE LookUpToken(r)
    BY <1>1, <1>2, <1>3, LookUpTokenType DEF LookUpToken, LookUpTokenAt, RefusePath
<1>4. CASE StartAttempt(r)
    BY <1>2, <1>4, StartAttemptType DEF StartAttempt
<1>5. CASE NextField(r)
    BY <1>1, <1>5, NextFieldType DEF NextField
<1>6. CASE RecordFile(r)
    BY <1>6, RecordFileType
<1>7. CASE CopyBytes(r)
    BY <1>1, <1>7, CopyBytesType DEF CopyBytes
<1>8. CASE DeleteEmptyBlob(r)
    BY <1>1, <1>8, DeleteEmptyBlobType DEF DeleteEmptyBlob
<1>9. CASE DeleteEmptyFile(r)
    BY <1>9, DeleteEmptyFileType
<1>10. CASE StoreBlob(r)
    BY <1>1, <1>10, StoreBlobType DEF StoreBlob
<1>11. CASE CompleteFile(r)
    BY <1>2, <1>11, CompleteFileType DEF CompleteFile
<1>12. CASE EndOfBody(r)
    BY <1>1, <1>2, <1>12, EndOfBodyType DEF EndOfBody
<1>13. CASE MarkTokenUsed(r)
    BY <1>2, <1>13, MarkTokenUsedType DEF MarkTokenUsed
<1>14. CASE Abort(r)
    BY <1>1, <1>14, AbortType DEF Abort
<1>15. QED
    BY <1>3, <1>4, <1>5, <1>6, <1>7, <1>8, <1>9, <1>10, <1>11, <1>12, <1>13, <1>14
       DEF UploadStep

-----------------------------------------------------------------------------
(* The cleanup and the server                                              *)

\* Every step of a cleanup pass keeps the tables, the stores and its locals typed.
LEMMA CleanupStepType ==
    ASSUME TypeInv, CleanupStep
    PROVE  TablesOK' /\ StorageTypeOK' /\ LocalsSet' /\ CleanupTypeOK'
<1>1. UNCHANGED dbVars => TablesOK'
    BY DEF dbVars, TypeInv, TypeOK, DBTypeOK, TablesOK
<1>2. UNCHANGED storageVars => StorageTypeOK'
    BY DEF storageVars, TypeInv, TypeOK, StorageTypeOK
<1>3. UNCHANGED req => LocalsSet'
    BY DEF TypeInv, LocalsSet
<1>4. cleaner \in CleanerType
    BY DEF TypeInv, TypeOK, CleanupTypeOK
<1>5. CASE SelectFiles
  <2> DEFINE sel == {[id |-> f, data |-> files[f].data] : f \in FilesToDelete(clock)}
  <2>1. \A f \in FilesToDelete(clock) : f \in RowIds /\ files[f].data \in BlobType
      BY DEF FilesToDelete, TypeInv, TypeOK, DBTypeOK, TablesOK, FileType
  <2>2. sel \in SUBSET [id : RowIds, data : BlobType]
      BY <2>1
  <2>3. cleaner' \in CleanerType
      BY <1>5, <2>2 DEF SelectFiles, CleanerType, TypeInv, TypeOK, DBTypeOK
  <2>4. QED
      BY <1>1, <1>2, <1>3, <1>5, <2>3 DEF SelectFiles, CleanupTypeOK
<1>6. CASE NothingToDelete
    BY <1>1, <1>2, <1>3, <1>4, <1>6 DEF NothingToDelete, CleanupTypeOK
<1>7. CASE DeleteOneBlob
  <2>1. StorageTypeOK'
      BY <1>7, DeleteBlobType DEF DeleteOneBlob, TypeInv, TypeOK
  <2>2. PICK file \in cleaner.todo : cleaner' = [cleaner EXCEPT !.todo = @ \ {file}]
      BY <1>7 DEF DeleteOneBlob
  <2>3. cleaner' \in CleanerType
      BY <1>4, <2>2 DEF CleanerType
  <2>4. QED
      BY <1>1, <1>3, <1>7, <2>1, <2>3 DEF DeleteOneBlob, CleanupTypeOK
<1>8. CASE DeleteFileRows
  <2>1. TablesOK'
      BY <1>8, DeleteFilesType DEF DeleteFileRows, TypeInv, TypeOK, DBTypeOK
  <2>2. cleaner' \in CleanerType
      BY <1>4, <1>8 DEF DeleteFileRows, CleanerType
  <2>3. QED
      BY <1>2, <1>3, <1>8, <2>1, <2>2 DEF DeleteFileRows, CleanupTypeOK
<1>9. CASE DeleteTokens
  <2>1. TablesOK'
      BY <1>9, DeleteExpiredTokensType DEF DeleteTokens, TypeInv, TypeOK, DBTypeOK
  <2>2. cleaner' \in CleanerType
      BY <1>9 DEF DeleteTokens, Asleep, CleanerType
  <2>3. QED
      BY <1>2, <1>3, <1>9, <2>1, <2>2 DEF DeleteTokens, CleanupTypeOK
<1>10. QED
    BY <1>5, <1>6, <1>7, <1>8, <1>9 DEF CleanupStep

\* So does the end of the process.
LEMMA ProcessEndsType ==
    ASSUME TypeInv, ProcessEnds
    PROVE  DBTypeOK' /\ StorageTypeOK' /\ LocalsSet' /\ CleanupTypeOK' /\ serving' \in BOOLEAN
<1>1. DBTypeOK'
    BY DEF ProcessEnds, dbVars, TypeInv, TypeOK, DBTypeOK, TablesOK
<1>2. StorageTypeOK'
    BY DropWritersType DEF ProcessEnds, TypeInv, TypeOK
<1>3. LocalsSet'
    BY BlankIsGood DEF ProcessEnds, TypeInv, LocalsSet
<1>4. CleanupTypeOK'
    BY DEF ProcessEnds, Asleep, CleanupTypeOK, CleanerType
<1>5. QED
    BY <1>1, <1>2, <1>3, <1>4 DEF ProcessEnds

\* The initial states are typed.
LEMMA TypeInit == Init => TypeInv
<1> SUFFICES ASSUME Init PROVE TypeInv
    OBVIOUS
<1>1. DBTypeOK
    BY DEF Init, DBInit, DBTypeOK, TablesOK
<1>2. StorageTypeOK
    BY DEF Init, StorageInit, StorageTypeOK
<1>3. LocalsSet
    BY BlankIsGood DEF Init, UploadInit, LocalsSet
<1>4. CleanupTypeOK
    BY DEF Init, CleanupInit, CleanupTypeOK, Asleep, CleanerType
<1>5. UploadTypeOK
    BY <1>3 DEF LocalsSet, GoodRequest, UploadTypeOK
<1>6. serving \in BOOLEAN /\ aliased \in BOOLEAN
    BY DEF Init
<1>7. crashes \in 0..MaxCrashes
    BY MaxCrashesOK DEF Init
<1>8. QED
    BY <1>1, <1>2, <1>3, <1>4, <1>5, <1>6, <1>7 DEF TypeInv, TypeOK

\* Every step keeps the types and the locals set.
LEMMA TypeNext == TypeInv /\ [Next]_vars => TypeInv'
<1> SUFFICES ASSUME TypeInv, [Next]_vars PROVE TypeInv'
    OBVIOUS
<1> DEFINE Parts == /\ DBTypeOK' /\ StorageTypeOK' /\ LocalsSet' /\ CleanupTypeOK'
                    /\ serving' \in BOOLEAN /\ crashes' \in 0..MaxCrashes
<1>1. ASSUME Parts, aliased' \in BOOLEAN PROVE TypeInv'
    BY <1>1 DEF TypeInv, TypeOK, LocalsSet, GoodRequest, UploadTypeOK
<1>2. TypeInv => /\ clock \in Nat /\ serving \in BOOLEAN /\ crashes \in 0..MaxCrashes
                 /\ aliased \in BOOLEAN
    BY DEF TypeInv, TypeOK, DBTypeOK
<1>3. UNCHANGED storageVars => StorageTypeOK'
    BY DEF storageVars, TypeInv, TypeOK, StorageTypeOK
<1>4. UNCHANGED req => LocalsSet'
    BY DEF TypeInv, LocalsSet
<1>5. UNCHANGED cleaner => CleanupTypeOK'
    BY DEF TypeInv, TypeOK, CleanupTypeOK
<1>6. UNCHANGED dbVars => TablesOK'
    BY DEF dbVars, TypeInv, TypeOK, DBTypeOK, TablesOK
<1>7. ASSUME Serve PROVE Parts
  <2>1. CASE GenerateToken
    <3>1. TablesOK'
        BY <2>1, CreateTokenType DEF GenerateToken, TypeInv, TypeOK
    <3>2. QED
        BY <1>2, <1>3, <1>4, <1>5, <1>7, <2>1, <3>1 DEF Serve, GenerateToken, DBTypeOK
  <2>2. CASE \E r \in Requests : HandleUpload(r)
    <3>1. TablesOK' /\ StorageTypeOK' /\ LocalsSet'
        BY <2>2, UploadStepType DEF HandleUpload
    <3>2. QED
        BY <1>2, <1>5, <1>7, <2>2, <3>1 DEF Serve, HandleUpload, DBTypeOK
  <2>3. QED
      BY <1>7, <2>1, <2>2 DEF Serve
<1>8. ASSUME BackgroundCleanup PROVE Parts
  <2>1. CASE CleanupFails
      BY <1>2, <2>1, ProcessEndsType DEF CleanupFails
  <2>2. CASE CleanupStep /\ UNCHANGED <<clock, serving, crashes>>
      BY <1>2, <2>2, CleanupStepType DEF DBTypeOK
  <2>3. QED
      BY <1>8, <2>1, <2>2 DEF BackgroundCleanup
<1>9. ASSUME Tick PROVE Parts
    BY <1>2, <1>3, <1>4, <1>5, <1>6, <1>9 DEF Tick, DBTypeOK
<1>10. ASSUME Crash PROVE Parts
  <2>1. crashes' \in 0..MaxCrashes
      BY <1>2, <1>10, MaxCrashesOK DEF Crash
  <2>2. QED
      BY <1>10, <2>1, ProcessEndsType DEF Crash
<1>11. ASSUME Restart PROVE Parts
    BY <1>2, <1>3, <1>4, <1>5, <1>6, <1>11 DEF Restart, DBTypeOK
<1>12. CASE UNCHANGED vars
    BY <1>12 DEF vars, TypeInv, TypeOK, DBTypeOK, TablesOK, StorageTypeOK,
                 UploadTypeOK, CleanupTypeOK, LocalsSet
<1>13. CASE Next
  <2>1. Parts
      BY <1>7, <1>8, <1>9, <1>10, <1>11, <1>13 DEF Next
  <2>2. aliased' \in BOOLEAN
      BY <1>2, <1>13 DEF Next, RecordReuse
  <2>3. QED
      BY <1>1, <2>1, <2>2
<1>14. QED
    BY <1>12, <1>13

\* The inductive invariant: the types, and the locals that are set where they are used.
THEOREM TypesHold == Spec => []TypeInv
<1>1. QED
    BY TypeInit, TypeNext, PTL DEF Spec

\* The tables, the stores and the locals of every handler and of the cleanup
\* stay within their types, whatever uploads, cleanups and crashes do.
THEOREM TypeCorrect == Spec => []TypeOK
<1>1. TypeInv => TypeOK
    BY DEF TypeInv
<1>2. QED
    BY <1>1, TypesHold, PTL

-----------------------------------------------------------------------------
(* The tables file and file_metadata                                       *)

\* Metadata belongs to a file: its foreign key.  Without this a new file
\* could find metadata under its id.
MetadataOwned == DOMAIN metadata \subseteq DOMAIN files

FileInv == MetadataOwned /\ CompletedIffMetadata

\* What the server may do to the two tables in one step
FileStatement ==
    \/ UNCHANGED <<files, metadata>>
    \/ \E f \in RowIds : \E data : CreateFile(f, data)
    \/ \E f, size : FinaliseFileUpload(f, size)
    \/ \E ids : DeleteFiles(ids)

\* Every such statement keeps them in step.
LEMMA FileTables ==
    ASSUME TypeInv, FileInv, FileStatement
    PROVE  FileInv'
<1>1. files \in [DOMAIN files -> FileType]
    BY DEF TypeInv, TypeOK, DBTypeOK, TablesOK
<1>2. CASE UNCHANGED <<files, metadata>>
    BY <1>2 DEF FileInv, MetadataOwned, CompletedIffMetadata
<1>3. ASSUME NEW f \in RowIds, NEW data, CreateFile(f, data)
      PROVE  FileInv'
  <2>1. f \notin DOMAIN files
      BY <1>3 DEF CreateFile, IsNextRowId, RowIds
  <2>2. QED
      BY <1>3, <2>1 DEF CreateFile, Insert, FileInv, MetadataOwned, CompletedIffMetadata
<1>4. ASSUME NEW f, NEW size, FinaliseFileUpload(f, size)
      PROVE  FileInv'
  <2>1. /\ f \in DOMAIN files
        /\ DOMAIN files' = DOMAIN files
        /\ files'[f].completed
        /\ \A g \in DOMAIN files \ {f} : files'[g] = files[g]
        /\ DOMAIN metadata' = DOMAIN metadata \cup {f}
      BY <1>1, <1>4 DEF FinaliseFileUpload, CanFinaliseFile, Insert, FileType
  <2>2. QED
      BY <2>1 DEF FileInv, MetadataOwned, CompletedIffMetadata
<1>5. ASSUME NEW ids, DeleteFiles(ids)
      PROVE  FileInv'
    BY <1>5 DEF DeleteFiles, Delete, Restrict, FileInv, MetadataOwned, CompletedIffMetadata
<1>6. QED
    BY <1>2, <1>3, <1>4, <1>5 DEF FileStatement

\* No step does anything else to them.
LEMMA StepIsStatement ==
    ASSUME [Next]_vars
    PROVE  FileStatement
<1>1. UNCHANGED <<files, metadata>> => FileStatement
    BY DEF FileStatement
<1>2. ASSUME NEW r \in Requests, UploadStep(r) PROVE FileStatement
  <2>1. CASE RecordFile(r)
      BY <1>1, <2>1 DEF RecordFile, dbVars, FileStatement
  <2>2. CASE DeleteEmptyFile(r)
      BY <2>2 DEF DeleteEmptyFile, FileStatement
  <2>3. CASE CompleteFile(r)
      BY <1>1, <2>3 DEF CompleteFile, dbVars, FileStatement
  <2>4. CASE \/ LookUpToken(r) \/ StartAttempt(r) \/ NextField(r) \/ CopyBytes(r)
             \/ DeleteEmptyBlob(r) \/ StoreBlob(r) \/ EndOfBody(r)
             \/ MarkTokenUsed(r) \/ Abort(r)
      BY <1>1, <2>4
         DEF LookUpToken, LookUpTokenAt, RefusePath, StartAttempt, InitiateUpload, NextField, CopyBytes,
             DeleteEmptyBlob, StoreBlob, EndOfBody, MarkTokenUsed, MarkUsed, Abort, dbVars
  <2>5. QED
      BY <1>2, <2>1, <2>2, <2>3, <2>4 DEF UploadStep
<1>3. ASSUME CleanupStep PROVE FileStatement
  <2>1. CASE DeleteFileRows
      BY <2>1 DEF DeleteFileRows, FileStatement
  <2>2. CASE SelectFiles \/ NothingToDelete \/ DeleteOneBlob \/ DeleteTokens
      BY <1>1, <2>2
         DEF SelectFiles, NothingToDelete, DeleteOneBlob, DeleteTokens,
             DeleteExpiredTokens, dbVars
  <2>3. QED
      BY <1>3, <2>1, <2>2 DEF CleanupStep
<1>4. CASE UNCHANGED vars
    BY <1>1, <1>4 DEF vars
<1>5. CASE Next
  <2>1. CASE Serve
      BY <1>1, <1>2, <2>1 DEF Serve, GenerateToken, CreateToken, HandleUpload
  <2>2. CASE BackgroundCleanup
      BY <1>1, <1>3, <2>2 DEF BackgroundCleanup, CleanupFails, ProcessEnds, dbVars
  <2>3. CASE Tick \/ Crash \/ Restart
      BY <1>1, <2>3 DEF Tick, Crash, ProcessEnds, Restart, dbVars
  <2>4. QED
      BY <1>5, <2>1, <2>2, <2>3 DEF Next
<1>6. QED
    BY <1>4, <1>5

\* So the two tables stay in step.
LEMMA FileStep == TypeInv /\ FileInv /\ [Next]_vars => FileInv'
BY StepIsStatement, FileTables

\* At first there is no file.
LEMMA FileInit == Init => FileInv
BY DEF Init, DBInit, FileInv, MetadataOwned, CompletedIffMetadata

\* A file is completed exactly when it has metadata, whatever uploads,
\* cleanups and crashes come between: the page and the file route never
\* disagree on which files are there.
THEOREM FilesAgree == Spec => []CompletedIffMetadata
<1>1. Init => TypeInv /\ FileInv
    BY TypeInit, FileInit
<1>2. TypeInv /\ FileInv /\ [Next]_vars => (TypeInv /\ FileInv)'
    BY TypeNext, FileStep
<1>3. FileInv => CompletedIffMetadata
    BY DEF FileInv
<1>4. QED
    BY <1>1, <1>2, <1>3, PTL DEF Spec
=============================================================================
