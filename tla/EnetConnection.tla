---------------------------- MODULE EnetConnection ----------------------------
(***************************************************************************)
(* How ENet makes and ends connections: the handshake between the one peer *)
(* of a client's host and the slots of the server's, over datagrams that   *)
(* are lost, doubled, delayed and overtaken.  A client that has lost its   *)
(* connection, or has failed to get one, may connect again from the same   *)
(* address, while the server still serves the old one and datagrams of the *)
(* old one are still under way.  What tells them apart is two bits of      *)
(* session ID in each direction, and the random connectID in CONNECT and   *)
(* VERIFY_CONNECT only.  (netDroid never calls enet_peer_disconnect: a     *)
(* connection ends when an end has waited too long for an answer.)         *)
(***************************************************************************)
EXTENDS Naturals, FiniteSets

CONSTANTS
    Clients,       \* each with an address of its own
    PeerCount,     \* slots of the server's host, 16 in server.cpp
    MaxConnects,   \* connections the clients ask for, one after the other
    MaxOnWire      \* bound on the datagrams under way

ASSUME ConnectionAssumption ==
    /\ IsFiniteSet(Clients)
    /\ PeerCount \in Nat \ {0} /\ MaxConnects \in Nat \ {0} /\ MaxOnWire \in Nat \ {0}

Slots       == 1..PeerCount
Nobody      == 0                       \* ENET_PROTOCOL_MAXIMUM_PEER_ID
OnlyPeer    == 1                       \* that of a client's host
SessionIDs  == 4                       \* two bits of the header
NoSessionID == 255
Connections == Clients \X (1..MaxConnects)    \* their connectIDs are all different
NoConnection == <<"none", 0>>

VARIABLES
    client,     \* the peer of each client's host
    slot,       \* the peers of the server's host
    asked,      \* connections each client has asked for
    reported,   \* those the server has reported as CONNECT events
    wire        \* datagrams under way
vars == <<client, slot, asked, reported, wire>>

-----------------------------------------------------------------------------
(* A peer, and what enet_peer_reset leaves of it: the session IDs stay.     *)
NewPeer == [state |-> "DISCONNECTED", connectID |-> NoConnection, outgoingPeerID |-> Nobody,
            incomingSessionID |-> NoSessionID, outgoingSessionID |-> NoSessionID,
            address |-> "none", sent |-> FALSE, waited |-> {}]

Reset(peer) == [peer EXCEPT !.state = "DISCONNECTED", !.connectID = NoConnection,
                            !.outgoingPeerID = Nobody, !.sent = FALSE, !.waited = {}]

Init == /\ client = [c \in Clients |-> [NewPeer EXCEPT !.address = c]]
        /\ slot = [s \in Slots |-> NewPeer]
        /\ asked = [c \in Clients |-> 0]
        /\ reported = {}
        /\ wire = {}

(* A datagram goes between an address and the server; peerID is the slot it *)
(* is for, or was sent from.  The connection it belongs to is in it only    *)
(* when it carries CONNECT or VERIFY_CONNECT.  Of the other commands, ACK   *)
(* is the acknowledgement of VERIFY_CONNECT and DATA any other.  waited is  *)
(* the peers that have timed out since it was sent.                         *)
Datagram(to, address, peerID, sessionID, command, connectID, incoming, outgoing) ==
    [to |-> to, address |-> address, peerID |-> peerID, sessionID |-> sessionID,
     command |-> command, connectID |-> connectID, incoming |-> incoming,
     outgoing |-> outgoing, waited |-> {}]

FromClient(c, command) ==
    LET peer == client'[c] IN
    Datagram("server", c, peer.outgoingPeerID, peer.outgoingSessionID, command,
             peer.connectID, 0, 0)

Connect(c) ==
    Datagram("server", c, Nobody, 0, "CONNECT", client[c].connectID,
             client[c].incomingSessionID, client[c].outgoingSessionID)

FromSlot(s, command) ==
    Datagram("client", slot[s].address, s, slot[s].outgoingSessionID, command,
             slot[s].connectID, slot[s].outgoingSessionID, slot[s].incomingSessionID)

\* d is sent, in place of an older copy of it
Puts(d) == /\ wire' = {b \in wire : [b EXCEPT !.waited = {}] # d} \cup {d}
           /\ Cardinality(wire') <= MaxOnWire

-----------------------------------------------------------------------------
(* Faulty variants of the definitions below, for the properties to catch.   *)
NextSessionIDKept(id, own) == IF id = NoSessionID THEN 0 ELSE id

NextSessionIDUnmasked(id, own) == (IF id = NoSessionID THEN own ELSE id) + 1

PassesAnySession(peer, d) ==
    peer.state \notin {"DISCONNECTED", "ZOMBIE"} /\ peer.address = d.address

TimesOutBeforeConnected(peer) ==
    peer.sent /\ peer.state \in {"CONNECTING", "ACKNOWLEDGING_CONNECT"}

ConfirmsAlways(s, d) == slot[s].state = "ACKNOWLEDGING_CONNECT"

-----------------------------------------------------------------------------
(* The client.                                                              *)

\* enet_host_connect, when the one peer is free
HostConnect(c) ==
    /\ client[c].state = "DISCONNECTED"
    /\ Cardinality({k \in Connections : k[2] <= asked[k[1]]}) < MaxConnects
    /\ asked' = [asked EXCEPT ![c] = @ + 1]
    /\ client' = [client EXCEPT ![c].state = "CONNECTING",
                                ![c].connectID = <<c, asked'[c]>>]
    /\ UNCHANGED <<slot, reported, wire>>

\* CONNECT is sent, and sent again when no answer comes in time.
SendConnect(c) ==
    /\ client[c].state = "CONNECTING"
    /\ Puts(Connect(c))
    /\ client' = [client EXCEPT ![c].sent = TRUE]
    /\ UNCHANGED <<slot, asked, reported>>

\* Which datagrams a peer takes.  Until it knows the other end's peer ID, the
\* session ID is not looked at.
Passes(peer, d) ==
    /\ peer.state \notin {"DISCONNECTED", "ZOMBIE"}
    /\ peer.address = d.address
    /\ peer.outgoingPeerID # Nobody => d.sessionID = peer.incomingSessionID

\* handle_verify_connect, and the acknowledgement of the command, which a peer
\* sends that is connected already, too
ReceiveVerify(c, d) ==
    /\ d \in wire /\ d.to = "client" /\ d.command = "VERIFY_CONNECT"
    /\ d.address = c /\ Passes(client[c], d)
    /\ client' =
           IF client[c].state # "CONNECTING" THEN client
           ELSE IF d.connectID # client[c].connectID
           THEN [client EXCEPT ![c].state = "ZOMBIE"]
           ELSE [client EXCEPT ![c].state = "CONNECTED", ![c].outgoingPeerID = d.peerID,
                               ![c].incomingSessionID = d.incoming,
                               ![c].outgoingSessionID = d.outgoing]
    /\ IF client'[c].state = "ZOMBIE" THEN UNCHANGED wire
       ELSE Puts(FromClient(c, "ACK"))
    /\ UNCHANGED <<slot, asked, reported>>

\* dispatch_incoming_commands: the DISCONNECT event of a ZOMBIE
DispatchZombie(c) ==
    /\ client[c].state = "ZOMBIE"
    /\ client' = [client EXCEPT ![c] = Reset(@)]
    /\ UNCHANGED <<slot, asked, reported, wire>>

-----------------------------------------------------------------------------
(* The server.                                                              *)

\* a session ID that is neither the client's last one nor the slot's
NextSessionID(id, own) ==
    LET last == IF id = NoSessionID THEN own ELSE id
        next == (last + 1) % SessionIDs
    IN  IF next = own THEN (next + 1) % SessionIDs ELSE next

\* a copy of a CONNECT that has been answered
Known(d) == \E s \in Slots : /\ slot[s].state # "DISCONNECTED"
                             /\ slot[s].address = d.address
                             /\ slot[s].connectID = d.connectID

FirstFree(s) == /\ slot[s].state = "DISCONNECTED"
                /\ \A t \in 1..s - 1 : slot[t].state # "DISCONNECTED"

ReceiveConnect(s, d) ==
    /\ d \in wire /\ d.command = "CONNECT"
    /\ ~Known(d)
    /\ FirstFree(s)
    /\ slot' = [slot EXCEPT ![s] =
           [state |-> "ACKNOWLEDGING_CONNECT", connectID |-> d.connectID,
            outgoingPeerID |-> OnlyPeer, address |-> d.address, sent |-> FALSE, waited |-> {},
            outgoingSessionID |-> NextSessionID(d.incoming, @.outgoingSessionID),
            incomingSessionID |-> NextSessionID(d.outgoing, @.incomingSessionID)]]
    /\ UNCHANGED <<client, asked, reported, wire>>

SendVerify(s) ==
    /\ slot[s].state = "ACKNOWLEDGING_CONNECT"
    /\ Puts(FromSlot(s, "VERIFY_CONNECT"))
    /\ slot' = [slot EXCEPT ![s].sent = TRUE]
    /\ UNCHANGED <<client, asked, reported>>

\* handle_acknowledge: the VERIFY_CONNECT that has been sent is confirmed
Confirms(s, d) == /\ slot[s].state = "ACKNOWLEDGING_CONNECT"
                  /\ slot[s].sent
                  /\ Passes(slot[s], d)

ReceiveAck(s, d) ==
    /\ d \in wire /\ d.command = "ACK" /\ d.peerID = s
    /\ Confirms(s, d)
    /\ slot' = [slot EXCEPT ![s].state = "CONNECTED"]
    /\ reported' = reported \cup {slot[s].connectID}
    /\ UNCHANGED <<client, asked, wire>>

-----------------------------------------------------------------------------
(* Both.                                                                    *)

\* A connected peer sends reliable commands, of the program or pings.
ClientSends(c) == /\ client[c].state = "CONNECTED"
                  /\ UNCHANGED client
                  /\ Puts(FromClient(c, "DATA"))
                  /\ UNCHANGED <<slot, asked, reported>>

SlotSends(s) == /\ slot[s].state = "CONNECTED"
                /\ Puts(FromSlot(s, "DATA"))
                /\ UNCHANGED <<client, slot, asked, reported>>

\* check_timeouts: a reliable command has gone without an answer for too long;
\* a connected peer always has one, for it pings
TimesOut(peer) == peer.sent /\ peer.state \in
                      {"CONNECTING", "ACKNOWLEDGING_CONNECT", "CONNECTED"}

(* Time.  The shortest timeout, 5 seconds, is longer than a datagram lives: *)
(* none is there any more when the same peer times out once again.  And a   *)
(* peer without an answer does not last while another times out twice.      *)
WireWaits(p) == wire' = {[d EXCEPT !.waited = @ \cup {p}] : d \in {b \in wire : p \notin b.waited}}

Waits(peer, alone, p) ==
    [peer EXCEPT !.waited = IF alone /\ peer.state # "DISCONNECTED" THEN @ \cup {p} ELSE {}]

Connected(peer, k) == peer.state = "CONNECTED" /\ peer.connectID = k

\* No answer comes to what this end of the connection sends.
ClientAlone(c) == \A s \in Slots : ~Connected(slot[s], client[c].connectID)
SlotAlone(s)   == \A c \in Clients : ~Connected(client[c], slot[s].connectID)

TurnToTimeOut(p) ==
    /\ \A c \in Clients : ClientAlone(c) => p \notin client[c].waited
    /\ \A s \in Slots : SlotAlone(s) => p \notin slot[s].waited

ClientTimesOut(c) ==
    /\ TimesOut(client[c])
    /\ TurnToTimeOut(c)
    /\ client' = [b \in Clients |-> IF b = c THEN Reset(client[c])
                                   ELSE Waits(client[b], ClientAlone(b), c)]
    /\ slot' = [s \in Slots |->
                   Waits(slot[s], SlotAlone(s) \/ slot[s].connectID = client[c].connectID, c)]
    /\ WireWaits(c)
    /\ UNCHANGED <<asked, reported>>

SlotTimesOut(s) ==
    /\ TimesOut(slot[s])
    /\ TurnToTimeOut(s)
    /\ slot' = [t \in Slots |-> IF t = s THEN Reset(slot[s])
                               ELSE Waits(slot[t], SlotAlone(t), s)]
    /\ client' = [c \in Clients |->
                   Waits(client[c], ClientAlone(c) \/ client[c].connectID = slot[s].connectID, s)]
    /\ WireWaits(s)
    /\ UNCHANGED <<asked, reported>>

Lose == \E d \in wire : wire' = wire \ {d} /\ UNCHANGED <<client, slot, asked, reported>>

Next ==
    \/ \E c \in Clients : \/ HostConnect(c) \/ SendConnect(c) \/ DispatchZombie(c)
                          \/ ClientSends(c) \/ ClientTimesOut(c)
    \/ \E s \in Slots : SendVerify(s) \/ SlotSends(s) \/ SlotTimesOut(s)
    \/ \E d \in wire : \/ \E c \in Clients : ReceiveVerify(c, d)
                       \/ \E s \in Slots : ReceiveConnect(s, d) \/ ReceiveAck(s, d)
    \/ Lose

(* Both hosts are serviced for ever: what is to be sent is sent once (SF,   *)
(* because the model lets it wait while the wire is full), and an end that  *)
(* goes on without an answer times out.  Nothing else need ever happen: no  *)
(* datagram need arrive.                                                    *)
Fairness ==
    /\ \A c \in Clients : SF_vars(~client[c].sent /\ SendConnect(c))
    /\ \A s \in Slots : SF_vars(~slot[s].sent /\ SendVerify(s))
    /\ WF_vars(Lose)
    /\ \A c \in Clients : WF_vars(ClientAlone(c) /\ ClientTimesOut(c))
    /\ \A s \in Slots : WF_vars(slot[s].state # "DISCONNECTED" /\ SlotAlone(s)
                                 /\ SlotTimesOut(s))

Spec     == Init /\ [][Next]_vars
FairSpec == Spec /\ Fairness

-----------------------------------------------------------------------------
Peers == [state : {"DISCONNECTED", "CONNECTING", "ACKNOWLEDGING_CONNECT", "CONNECTED", "ZOMBIE"},
          connectID : Connections \cup {NoConnection}, outgoingPeerID : Slots \cup {Nobody},
          incomingSessionID : 0..SessionIDs - 1 \cup {NoSessionID},
          outgoingSessionID : 0..SessionIDs - 1 \cup {NoSessionID},
          address : Clients \cup {"none"}, sent : BOOLEAN,
          waited : SUBSET (Clients \cup Slots)]

Datagrams == [to : {"client", "server"}, address : Clients, peerID : Slots \cup {Nobody},
              sessionID : 0..SessionIDs - 1,
              command : {"CONNECT", "VERIFY_CONNECT", "ACK", "DATA"}, connectID : Connections,
              incoming : 0..SessionIDs - 1 \cup {NoSessionID},
              outgoing : 0..SessionIDs - 1 \cup {NoSessionID},
              waited : SUBSET (Clients \cup Slots)]

TypeOK == /\ client \in [Clients -> Peers] /\ slot \in [Slots -> Peers]
          /\ asked \in [Clients -> 0..MaxConnects]
          /\ reported \subseteq Connections
          /\ wire \subseteq Datagrams

ClientEnd(k) == LET peer == client[k[1]] IN
    CASE asked[k[1]] < k[2]  -> "none"
      [] Connected(peer, k)  -> "up"
      [] peer.connectID = k /\ ~Connected(peer, k) -> "asked"
      [] OTHER               -> "over"

ServerEnd(k) == CASE \E s \in Slots : Connected(slot[s], k) -> "up"
                  [] k \notin reported                      -> "none"
                  [] OTHER                                  -> "over"

Handshake == INSTANCE Connection
                 WITH clientEnd <- [k \in Connections |-> ClientEnd(k)],
                      serverEnd <- [k \in Connections |-> ServerEnd(k)]

(* The server reports a connection only when the client has had it, and     *)
(* never twice, whatever CONNECT and ACK of it or of an older one arrive    *)
(* late or twice.                                                           *)
KeepsOrder == Handshake!InOrder

(* No connection stays up at one end only: a server that has reported it    *)
(* learns that the client is gone, and the client that it was not reported. *)
HalfOpenEnds == Handshake!NotHalfOpen

(* Nothing of another connection, an older one of the same client or one of *)
(* another client that had the slot, would be taken by a slot for its own:  *)
(* the two bits of session ID are enough, as long as no datagram outlives   *)
(* two timeouts of one peer and no unanswered peer does.  (The other way    *)
(* round they are not.  A late VERIFY_CONNECT of the connection before may  *)
(* pass at a client, which acknowledges it in the place of the right one,   *)
(* had by then.  And what a slot goes on sending to a client that has timed *)
(* out may reach it in its next connection but one, with another slot,      *)
(* under the session ID of the first.)                                      *)
ToServer(d) == d.to = "server" /\ d.command # "CONNECT"

NoMixUp == \A d \in wire : ToServer(d) /\ Passes(slot[d.peerID], d)
                               => d.connectID = slot[d.peerID].connectID

(* Two ends that both have a connection hear each other: they agree on the  *)
(* slot and on both session IDs, though each has set its own at another     *)
(* time, and a connection may have been answered by two slots in turn.      *)
EndsAgree ==
    \A c \in Clients, s \in Slots :
        Connected(slot[s], client[c].connectID) /\ client[c].state = "CONNECTED" =>
            /\ client[c].outgoingPeerID = s /\ slot[s].address = c
            /\ client[c].incomingSessionID = slot[s].outgoingSessionID
            /\ client[c].outgoingSessionID = slot[s].incomingSessionID

-----------------------------------------------------------------------------
(* Why the session IDs are enough.  A slot and a session of it are named by *)
(* the client that has the connection, by every datagram it sends in it,    *)
(* and by the VERIFY_CONNECT that has told it.  The slot still serves that  *)
(* session, or it has timed out once: then it has the session ID left as    *)
(* its own, or serves another session, which is another ID.  Before it can  *)
(* time out again, the client must have, and what was under way at the      *)
(* first timeout has gone at the second: the VERIFY_CONNECT itself, and the *)
(* CONNECT of older connections.  Those of younger ones name the ID as the  *)
(* client's last, and the slot takes another.                               *)
Serves(s, k, session) == /\ slot[s].state # "DISCONNECTED"
                         /\ slot[s].connectID = k
                         /\ slot[s].incomingSessionID = session

LeftOnce(s, session) ==
    (slot[s].state = "DISCONNECTED") <=> (slot[s].incomingSessionID = session)

Asks(d, c) == d.command = "CONNECT" /\ d.address = c

OlderWaited(s, k) == \A d \in wire : Asks(d, k[1]) /\ d.connectID[2] < k[2] => s \in d.waited
NoneOlder(k)      == \A d \in wire : Asks(d, k[1]) => d.connectID[2] >= k[2]
CopiesWaited(s, k) == \A d \in wire : d.command = "CONNECT" /\ d.connectID = k => s \in d.waited
NoCopies(k)        == \A d \in wire : d.command = "CONNECT" => d.connectID # k

VerifyNames(d) ==
    LET s == d.peerID  k == d.connectID  peer == client[d.address] IN
    \/ Serves(s, k, d.outgoing) /\ slot[s].outgoingSessionID = d.incoming
    \/ /\ LeftOnce(s, d.outgoing) /\ s \in d.waited /\ OlderWaited(s, k)
       /\ peer.state = "CONNECTING" /\ peer.connectID = k => s \in peer.waited

ClientNames(c) ==
    LET peer == client[c]  s == peer.outgoingPeerID  k == peer.connectID IN
    /\ \/ /\ Serves(s, k, peer.outgoingSessionID)
          /\ slot[s].outgoingSessionID = peer.incomingSessionID
       \/ LeftOnce(s, peer.outgoingSessionID) /\ s \in peer.waited /\ OlderWaited(s, k)
    /\ k \in reported =>
           \/ Serves(s, k, peer.outgoingSessionID) /\ slot[s].state = "CONNECTED"
           \/ LeftOnce(s, peer.outgoingSessionID) /\ CopiesWaited(s, k)

\* The client that sent d agrees with it, or has timed out since.
SenderAgrees(d) ==
    LET peer == client[d.address] IN
    IF peer.connectID = d.connectID
    THEN /\ peer.state = "CONNECTED" /\ peer.outgoingPeerID = d.peerID
         /\ peer.outgoingSessionID = d.sessionID
    ELSE /\ d.address \in d.waited
         /\ peer.state # "CONNECTED" => peer.outgoingSessionID = d.sessionID

YoungerAvoid(d) == \A b \in wire : Asks(b, d.address) /\ b.connectID[2] > d.connectID[2]
                                       => b.outgoing = d.sessionID

OneName(d) == \A b \in wire : ToServer(b) /\ b.connectID = d.connectID
                                  => b.peerID = d.peerID /\ b.sessionID = d.sessionID

SlotKnows(d) ==
    LET s == d.peerID  k == d.connectID IN
    \/ Serves(s, k, d.sessionID)
    \/ LeftOnce(s, d.sessionID) /\ OlderWaited(s, k)
    \/ /\ NoneOlder(k)
       /\ \A j \in Connections : j[1] = k[1] /\ Serves(s, j, d.sessionID) => j = k

ReportedOnce(d) ==
    LET s == d.peerID  k == d.connectID IN
    k \in reported => \/ Serves(s, k, d.sessionID) /\ slot[s].state = "CONNECTED"
                      \/ LeftOnce(s, d.sessionID) /\ CopiesWaited(s, k)
                      \/ NoCopies(k) /\ slot[s].connectID # k

DatagramNames(d) == /\ SenderAgrees(d) /\ YoungerAvoid(d) /\ OneName(d)
                    /\ SlotKnows(d) /\ ReportedOnce(d)

(* What the server has, the client has had; and while the client has it,    *)
(* it names the slot.                                                       *)
SlotNamed(s) ==
    LET k == slot[s].connectID  peer == client[k[1]] IN
    /\ k \in reported
    /\ peer.connectID = k => /\ peer.outgoingPeerID = s
                             /\ peer.outgoingSessionID = slot[s].incomingSessionID

(* The wire, the server and the client name the same slot and session of a  *)
(* connection until none of them can be mistaken for another's.             *)
NamesInv ==
    /\ \A d \in wire : d.command = "VERIFY_CONNECT" => VerifyNames(d)
    /\ \A d \in wire : ToServer(d) => DatagramNames(d)
    /\ \A c \in Clients : client[c].state = "CONNECTED" => ClientNames(c)
    /\ \A s \in Slots : slot[s].state = "CONNECTED" => SlotNamed(s)
    /\ \A k \in reported : client[k[1]].connectID = k => client[k[1]].state = "CONNECTED"
===============================================================================
