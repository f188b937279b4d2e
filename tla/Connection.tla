------------------------------ MODULE Connection ------------------------------
(***************************************************************************)
(* What the handshake of ENet promises about one connection: the client    *)
(* asks for it, it is up at the client, then at the server, it is over at  *)
(* each end at its own time, and it never comes back.  Transport takes     *)
(* this for granted; EnetConnection shows what it rests on.                *)
(***************************************************************************)
CONSTANT Connections    \* every connection a client ever asks for

VARIABLES
    clientEnd,   \* of each connection
    serverEnd

endVars == <<clientEnd, serverEnd>>

Init == /\ clientEnd = [k \in Connections |-> "none"]
        /\ serverEnd = [k \in Connections |-> "none"]

Moves(end, k, from, to) == end[k] \in from /\ end' = [end EXCEPT ![k] = to]

Ask(k)        == Moves(clientEnd, k, {"none"}, "asked") /\ UNCHANGED serverEnd
ClientUp(k)   == Moves(clientEnd, k, {"asked"}, "up") /\ UNCHANGED serverEnd
ClientOver(k) == Moves(clientEnd, k, {"asked", "up"}, "over") /\ UNCHANGED serverEnd

\* The server has a connection only when the client has had it.
ServerUp(k)   == /\ clientEnd[k] \in {"up", "over"}
                 /\ Moves(serverEnd, k, {"none"}, "up")
                 /\ UNCHANGED clientEnd
ServerOver(k) == Moves(serverEnd, k, {"up"}, "over") /\ UNCHANGED clientEnd

Next == \E k \in Connections : \/ Ask(k) \/ ClientUp(k) \/ ClientOver(k)
                               \/ ServerUp(k) \/ ServerOver(k)

InOrder == Init /\ [][Next]_endVars

\* A connection that one end no longer has, or never gets, ends at the other.
NotHalfOpen ==
    \A k \in Connections :
        /\ (clientEnd[k] = "up" /\ serverEnd[k] # "up")
               ~> (clientEnd[k] = "over" \/ serverEnd[k] = "up")
        /\ (clientEnd[k] = "over" /\ serverEnd[k] = "up") ~> serverEnd[k] = "over"

Spec == InOrder /\ NotHalfOpen
==============================================================================
