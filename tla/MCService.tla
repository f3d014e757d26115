----------------------------- MODULE MCService -----------------------------
(* Instances of Service for TLC. *)
EXTENDS Service, TLC

\* The links that the client asks for, which the admin may offer, too
LinksWanted == {LinkWanted(hours) : hours \in ExpiresHours}

\* Names without a per cent sign, which decoding leaves as they are
PlainNames == [path \in Paths |-> path]
=============================================================================
