------------------------------ MODULE Transport ------------------------------
(***************************************************************************)
(* ENet between the clients and the server, as src/ uses it: every packet  *)
(* is sent on channel 0 with ENET_PACKET_FLAG_RELIABLE, so what one end    *)
(* sends over a connection the other end gets once and in order, or not at *)
(* all because the connection is lost.  The server's host has a fixed      *)
(* array of ENetPeer, its slots; a connection occupies one of them, and    *)
(* when it is gone the slot is free for another.                           *)
(*                                                                         *)
(* A client makes one connection in its life, so it stands for its         *)
(* connection too; a client that is started again is another client.       *)
(***************************************************************************)
EXTENDS Naturals, Sequences

CONSTANTS
    Clients,   \* client processes
    Slots,     \* the peers of the server's host
    NoClient,  \* occupies a free slot
    MaxCuts    \* bound on the connections that are lost

ASSUME TransportAssumption == NoClient \notin Clients /\ MaxCuts \in Nat

VARIABLES
    link,      \* state of each client's own peer
    up,        \* packets from each client to the server
    down,      \* packets from the server to each client
    occupant,  \* the client in each slot
    open,      \* the slots in state CONNECTED
    cuts       \* connections lost so far

transportVars == <<link, up, down, occupant, open, cuts>>

TransportInit == /\ link = [c \in Clients |-> "idle"]
                 /\ up = [c \in Clients |-> << >>]
                 /\ down = [c \in Clients |-> << >>]
                 /\ occupant = [s \in Slots |-> NoClient]
                 /\ open = {}
                 /\ cuts = 0

\* enet_peer_send by a client, with wire already under way: refused unless its
\* peer is connected
UpAfter(wire, c, packet) ==
    IF link[c] = "connected" THEN [wire EXCEPT ![c] = Append(@, packet)] ELSE wire

\* what the server puts on the wire for client c
DownAfter(c, packet) ==
    IF link[c] = "connected" THEN [down EXCEPT ![c] = Append(@, packet)] ELSE down

\* the packets of com_netEvents.cpp and ENet's own confirmation of a connection,
\* reduced to what is told apart: an ID, a script that is damaged or not
Requests    == [type : {"INIT_SCRIPT", "IMAGE"}, id : Nat]
UpPackets   == [type : {"ACK"}] \cup Requests
Data        == [type : {"NEW_CLIENT_ID"}, id : Nat] \cup [type : {"SCRIPT"}, good : BOOLEAN]
                   \cup [type : {"IMAGE"}]
DownPackets == [type : {"CONNECT"}] \cup Data

\* The server's host takes a client's request to connect into a free slot and
\* verifies it.  The slot is not CONNECTED before the client has confirmed.
Accept(c, s) ==
    /\ link[c] = "idle"
    /\ occupant[s] = NoClient
    /\ link' = [link EXCEPT ![c] = "connecting"]
    /\ occupant' = [occupant EXCEPT ![s] = c]
    /\ down' = [down EXCEPT ![c] = <<[type |-> "CONNECT"]>>]
    /\ UNCHANGED <<up, open, cuts>>

\* Nothing gets through any more, either way.
Cut(c) ==
    /\ cuts < MaxCuts
    /\ link[c] \in {"connecting", "connected"}
    /\ link' = [link EXCEPT ![c] = "cut"]
    /\ up' = [up EXCEPT ![c] = << >>]
    /\ down' = [down EXCEPT ![c] = << >>]
    /\ cuts' = cuts + 1
    /\ UNCHANGED <<occupant, open>>

\* The process of c has ended: the server hears nothing more of it.
ClientGone(c) ==
    /\ link' = [link EXCEPT ![c] = "lost"]
    /\ up' = [up EXCEPT ![c] = << >>]
    /\ down' = [down EXCEPT ![c] = << >>]
    /\ UNCHANGED <<occupant, open, cuts>>

\* The server's process has ended: no client hears any more of it.
AllCut ==
    /\ link' = [c \in Clients |->
                    IF link[c] \in {"connecting", "connected"} THEN "cut" ELSE link[c]]
    /\ up' = [c \in Clients |-> << >>]
    /\ down' = [c \in Clients |-> << >>]
    /\ UNCHANGED <<occupant, open, cuts>>

TransportTypeOK ==
    /\ link \in [Clients -> {"idle", "connecting", "connected", "cut", "lost"}]
    /\ up \in [Clients -> Seq(UpPackets)]
    /\ down \in [Clients -> Seq(DownPackets)]
    /\ occupant \in [Slots -> Clients \cup {NoClient}]
    /\ open \subseteq Slots
    /\ cuts \in 0..MaxCuts
==============================================================================
