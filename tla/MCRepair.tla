------------------------------ MODULE MCRepair ------------------------------
(* Instances of Repair for TLC. *)
EXTENDS Repair, TLC

Link(valid_for, hours, backend) ==
    [valid_for |-> valid_for, content_expires_after_hours |-> hours,
     max_size |-> 1, backend_type |-> backend]

GarageLink == {Link(1, 1, "garage")}

AnyRequest == Permutations(Requests)
=============================================================================
