---------------------------- MODULE VracDropBox ----------------------------
(***************************************************************************)
(* The server implements the drop box: a row of the table token is a box,  *)
(* and the content of a box is what a visitor of its page would be shown   *)
(* at this moment, read from the tables and the stores as they are.        *)
(***************************************************************************)
EXTENDS Vrac

\* What the page of the link lists, and the bytes behind each entry.
ShownContent(t) ==
    IF IsShown(t) /\ ~tokens[t].late
    THEN [f \in ListedFiles(t) |->
             IF files[f].data \in DOMAIN blobs THEN blobs[files[f].data] ELSE {}]
    ELSE [f \in {} |-> {}]

BoxOf(t) ==
    [path |-> tokens[t].path,
     sealed |-> tokens[t].used,
     until |-> IF tokens[t].used THEN tokens[t].content_expires_at
               ELSE tokens[t].valid_until,
     hours |-> tokens[t].content_expires_after_hours,
     content |-> ShownContent(t)]

Promise ==
    INSTANCE DropBox WITH
        Ids <- RowIds,
        Files <- RowIds,
        Uploads <- Requests,
        Offers <- Options,
        box <- [t \in IF aliased THEN {} ELSE DOMAIN tokens |-> BoxOf(t)],
        trusted <- ~aliased

\* Every step of the server, whatever uploads, cleanups and crashes do to
\* each other, is a step of the drop box or changes nothing of it: a link is
\* sealed in a single step with the files of one upload, what its page shows
\* then stays, file by file and byte by byte, until it is over, and only then
\* may the link go or another one take its path.
ImplementsDropBox == Promise!Spec
=============================================================================
