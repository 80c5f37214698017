------------------------------- MODULE Board -------------------------------
(***************************************************************************)
(* What a board promises its servers: it talks to one server at a time,    *)
(* and only to a server it has heard a broadcast of since it lost the last *)
(* one ("Flush UDP port to prevent reconnecting to dead server", main.c).  *)
(***************************************************************************)
CONSTANTS Servers, NoServer    \* NoServer is not one of Servers

VARIABLES
    peer,    \* the server the board is connected to
    heard    \* servers heard since the last disconnection, not yet forgotten

Init == peer = NoServer /\ heard = {}

\* a broadcast arrives, or those that a flush has left are found
Hear(S) == heard' = heard \cup S /\ UNCHANGED peer

\* broadcasts are dropped: no room, or the server did not answer
Forget == heard' \in SUBSET heard /\ UNCHANGED peer

\* the board connects to a server it has heard
Connect(s) ==
    /\ peer = NoServer /\ s \in heard
    /\ peer' = s
    /\ heard' \in SUBSET heard

\* the board leaves its server and everything heard until now
Disconnect ==
    /\ peer # NoServer
    /\ peer' = NoServer
    /\ heard' = {}

Next ==
    \/ \E S \in SUBSET Servers : Hear(S)
    \/ \E s \in Servers : Connect(s)
    \/ Forget
    \/ Disconnect

Spec == Init /\ [][Next]_<<peer, heard>>
=============================================================================
