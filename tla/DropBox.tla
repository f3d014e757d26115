------------------------------ MODULE DropBox ------------------------------
(***************************************************************************)
(* What vrac promises, without requests, attempts, stores or cleanup.  A   *)
(* box is offered at a path.  One upload seals it, in one step, with all   *)
(* of its files; from then on a visitor sees these files, unchanged, until *)
(* the box is over.  A box is withdrawn only when its date has passed, and *)
(* a path never has two live boxes.                                        *)
(*                                                                         *)
(* An upload that ends after the box should have been sealed gets no       *)
(* promise, and there is none left for anybody once the ids of two boxes   *)
(* have been mixed up.                                                     *)
(***************************************************************************)
EXTENDS Integers, Functions

CONSTANTS
    Ids,        \* of boxes
    Paths,
    Files,
    Uploads,
    Offers,     \* how long a box may be sealed, and how long it is kept then
    NULL        \* for ever

VARIABLES
    clock,
    box,        \* the boxes there are
    trusted     \* no two boxes were mixed up

vars == <<clock, box, trusted>>

Nothing == [f \in {} |-> {}]

\* Nobody has sealed it, or what it was sealed with is still to be kept.
IsOver(b) == b.sealed /\ b.until # NULL /\ b.until <= clock

IsLive(b) == ~IsOver(b)

Init ==
    /\ clock = 0
    /\ box = Nothing
    /\ trusted = TRUE

Offer(t, path, o) ==
    /\ t \notin DOMAIN box
    /\ \A u \in DOMAIN box : box[u].path = path => ~IsLive(box[u])
    /\ box' = [u \in DOMAIN box \cup {t} |->
                  IF u # t THEN box[u]
                  ELSE [path |-> path, sealed |-> FALSE,
                        until |-> clock + o.valid_for,
                        hours |-> o.content_expires_after_hours,
                        content |-> Nothing]]

\* The dates that a box sealed now may be kept until: its hours count from
\* some moment before the seal.
Until(hours) == IF hours = NULL THEN {NULL} ELSE hours .. clock + hours

Sealed(b, until, content) ==
    [path |-> b.path, sealed |-> TRUE, until |-> until, hours |-> b.hours,
     content |-> content]

\* The content is there at once, and all of it comes from one upload.  A
\* seal after the box's date, or one that comes when the content is over
\* already, shows nothing that could be relied upon.
Seal(t, until) ==
    /\ t \in DOMAIN box
    /\ ~box[t].sealed
    /\ until \in Until(box[t].hours)
    /\ \E upload \in Uploads, fs \in (SUBSET Files) \ {{}} :
          box' = [box EXCEPT ![t] =
                     Sealed(@, until,
                            IF clock < box[t].until /\ (until = NULL \/ clock < until)
                            THEN [f \in fs |-> {upload}]
                            ELSE Nothing)]

Withdraw ==
    \E gone \in SUBSET {t \in DOMAIN box :
                           box[t].until # NULL /\ box[t].until <= clock} :
        box' = Restrict(box, DOMAIN box \ gone)

\* An hour passes, and the content of some boxes is over.
PassTime ==
    /\ clock' = clock + 1
    /\ box' = [t \in DOMAIN box |->
                  IF box[t].sealed /\ box[t].until # NULL /\ box[t].until <= clock'
                  THEN [box[t] EXCEPT !.content = Nothing]
                  ELSE box[t]]

Serve ==
    /\ \/ \E t \in Ids, path \in Paths, o \in Offers : Offer(t, path, o)
       \/ \E t \in DOMAIN box : \E until \in Until(box[t].hours) : Seal(t, until)
       \/ Withdraw
    /\ UNCHANGED clock

\* All bets are off.
LoseTrust == trusted' = FALSE

Next ==
    \/ /\ Serve \/ PassTime
       /\ UNCHANGED trusted
    \/ LoseTrust

Spec == Init /\ [][Next]_vars
=============================================================================
