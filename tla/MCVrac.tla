------------------------------- MODULE MCVrac -------------------------------
(* Instances of Vrac for TLC. *)
EXTENDS VracClaims, VracDropBox, TLC

Link(valid_for, hours, backend) ==
    [valid_for |-> valid_for, content_expires_after_hours |-> hours,
     max_size |-> 1, backend_type |-> backend]

\* Content that lasts as long as its link, and content that lasts for ever
LocalLinks == {Link(1, 1, "local_fs"), Link(1, NULL, "local_fs")}
LocalLink == {Link(1, 1, "local_fs")}

\* Content that expires before its link
ShortContent == {Link(2, 1, "local_fs")}

AnyRequest == Permutations(Requests)
=============================================================================
