------------------------------ MODULE Service ------------------------------
(***************************************************************************)
(* The server together with those who use it: the admin, uploads from      *)
(* browsers, the command-line client, and the visitors.                    *)
(***************************************************************************)
EXTENDS Downloads, Client

serviceVars == <<vars, visits, clients>>

ServiceInit ==
    /\ Init
    /\ DownloadsInit
    /\ ClientInit

\* A step of the server for anybody else than the clients and visitors
ServerStep ==
    /\ Next
    /\ \A c \in Clients : req'[c] = req[c] \/ ~serving'
    /\ IF serving /\ ~serving'
       THEN VisitsEnd /\ ClientsCutOff
       ELSE UNCHANGED <<visits, clients>>

ServiceNext ==
    \/ ServerStep
    \/ RunClients /\ UNCHANGED visits
    \/ Browse /\ UNCHANGED clients

ServiceSpec == ServiceInit /\ [][ServiceNext]_serviceVars

\* The types of the processes around the server
ServiceTypeOK ==
    /\ TypeOK
    /\ DownloadsTypeOK
    /\ ClientTypeOK
=============================================================================
