--------------------------- MODULE ReliableChannel ---------------------------
(***************************************************************************)
(* What a reliable channel of an ENet connection promises, one way: the    *)
(* packets given to enet_peer_send come out of enet_host_service at the    *)
(* other end once each and in that order, all of them unless the sender    *)
(* gives the connection up.  Transport is built on this promise;           *)
(* EnetChannel keeps it.                                                   *)
(***************************************************************************)
EXTENDS Naturals

VARIABLES
    accepted,   \* packets taken by enet_peer_send
    delivered,  \* number of the last packet handed over, 0 before the first
    closed      \* the sender has given up

channelVars == <<accepted, delivered, closed>>

Init == accepted = 0 /\ delivered = 0 /\ closed = FALSE

Send == /\ ~closed
        /\ accepted' = accepted + 1
        /\ UNCHANGED <<delivered, closed>>

\* the packet after the last one: never an older one, never a later one
Deliver == /\ delivered < accepted
           /\ delivered' = delivered + 1
           /\ UNCHANGED <<accepted, closed>>

Close == ~closed /\ closed' = TRUE /\ UNCHANGED <<accepted, delivered>>

Next == Send \/ Deliver \/ Close

\* What is on its way when the sender gives up may arrive, or may not.
Spec == Init /\ [][Next]_channelVars /\ WF_channelVars(~closed /\ Deliver)
==============================================================================
