------------------------ MODULE EnetConnection_proof ------------------------
(***************************************************************************)
(* What TLC checks of the handshake for two slots, three connections and   *)
(* two datagrams under way, proved for any number of clients, slots,       *)
(* connections and datagrams: the types, NoMixUp, EndsAgree, and that the  *)
(* two ends go through a connection as Connection says.  The invariant     *)
(* behind them is NamesInv; FormInv says what a client, a slot and a       *)
(* datagram look like.  First comes what an action does to the fields of   *)
(* the peers and to the wire, then that each keeps FormInv, then NamesInv. *)
(***************************************************************************)
EXTENDS EnetConnection, FiniteSetTheorems, TLAPS

SessionIDSet == 0..SessionIDs - 1
PeerStates == {"DISCONNECTED", "CONNECTING", "ACKNOWLEDGING_CONNECT", "CONNECTED", "ZOMBIE"}
AskedFor(k) == k[2] <= asked[k[1]]

ClientForm(c) ==
    LET peer == client[c] IN
    /\ peer.address = c /\ peer.state # "ACKNOWLEDGING_CONNECT"
    /\ peer.state = "DISCONNECTED" => peer.connectID = NoConnection
    /\ peer.state # "DISCONNECTED" => peer.connectID = <<c, asked[c]>> /\ asked[c] > 0
    /\ peer.state # "CONNECTED" => peer.outgoingPeerID = Nobody
    /\ peer.state = "CONNECTED" => /\ peer.outgoingPeerID \in Slots
                                   /\ peer.incomingSessionID \in SessionIDSet
                                   /\ peer.outgoingSessionID \in SessionIDSet

SlotForm(s) ==
    LET peer == slot[s] IN
    /\ peer.state \notin {"CONNECTING", "ZOMBIE"}
    /\ peer.state = "DISCONNECTED" => peer.connectID = NoConnection
    /\ peer.state # "DISCONNECTED" =>
           /\ peer.connectID \in Connections /\ AskedFor(peer.connectID)
           /\ peer.address = peer.connectID[1] /\ peer.outgoingPeerID = OnlyPeer
           /\ peer.incomingSessionID \in SessionIDSet
           /\ peer.outgoingSessionID \in SessionIDSet
           /\ \A t \in Slots : slot[t].connectID = peer.connectID => t = s

DatagramForm(d) ==
    /\ d.address = d.connectID[1]
    /\ d.command \in {"CONNECT", "ACK"} => d.to = "server"
    /\ d.command = "VERIFY_CONNECT" => /\ d.to = "client"
                                       /\ d.incoming \in SessionIDSet
                                       /\ d.outgoing \in SessionIDSet
    /\ d.command # "CONNECT" => d.peerID \in Slots

FormInv ==
    /\ TypeOK
    /\ \A c \in Clients : ClientForm(c)
    /\ \A s \in Slots : SlotForm(s)
    /\ \A d \in wire : DatagramForm(d) /\ AskedFor(d.connectID)
    /\ \A k \in reported : AskedFor(k)

-----------------------------------------------------------------------------
(* Connections, session IDs and sets of numbers.                            *)
LEMMA ConnectionParts ==
    /\ \A k \in Connections : /\ k[1] \in Clients /\ k[2] \in 1..MaxConnects
                              /\ k = <<k[1], k[2]>>
    /\ \A c \in Clients, n \in 1..MaxConnects :
           <<c, n>> \in Connections /\ <<c, n>>[1] = c /\ <<c, n>>[2] = n
    /\ NoConnection \notin Connections
    /\ MaxConnects \in Nat
BY ConnectionAssumption DEF Connections, NoConnection

\* The ID is new to the slot and to the client.
LEMMA NewSessionID ==
    ASSUME NEW id \in SessionIDSet \cup {NoSessionID},
           NEW own \in SessionIDSet \cup {NoSessionID}
    PROVE  /\ NextSessionID(id, own) \in SessionIDSet
           /\ NextSessionID(id, own) # own /\ NextSessionID(id, own) # id
BY DEF NextSessionID, SessionIDSet, SessionIDs, NoSessionID

\* Not all connections have been asked for while one is to be asked for.
LEMMA RoomToAsk ==
    ASSUME TypeOK, NEW c \in Clients,
           Cardinality({k \in Connections : k[2] <= asked[k[1]]}) < MaxConnects
    PROVE  asked[c] + 1 \in 1..MaxConnects
<1> DEFINE K == {k \in Connections : k[2] <= asked[k[1]]}
           f == [n \in 1..MaxConnects |-> <<c, n>>]
<1>1. asked[c] \in 0..MaxConnects /\ MaxConnects \in Nat
    BY ConnectionAssumption DEF TypeOK
<1>2. asked[c] # MaxConnects
    <2> SUFFICES ASSUME asked[c] = MaxConnects PROVE FALSE
        OBVIOUS
    <2>1. IsFiniteSet(1..MaxConnects) /\ Cardinality(1..MaxConnects) = MaxConnects
        BY <1>1, FS_Interval
    <2>2. IsFiniteSet(Connections)
        BY <2>1, ConnectionAssumption, FS_Product DEF Connections
    <2>3. IsFiniteSet(K)
        BY <2>2, FS_Subset
    <2>4. f \in Injection(1..MaxConnects, K)
        <3>1. \A n \in 1..MaxConnects : <<c, n>> \in K
            BY <1>1 DEF Connections
        <3>2. f \in [1..MaxConnects -> K]
            BY <3>1
        <3>3. \A m, n \in 1..MaxConnects : f[m] = f[n] => m = n
            OBVIOUS
        <3> QED  BY <3>2, <3>3 DEF Injection, IsInjective
    <2>5. Cardinality(1..MaxConnects) <= Cardinality(K)
        BY <2>3, <2>4, FS_Injection
    <2> HIDE DEF K
    <2>6. Cardinality(K) < MaxConnects
        BY DEF K
    <2>7. Cardinality(K) \in Nat
        BY <2>3, FS_CardinalityType
    <2> QED  BY <1>1, <2>1, <2>5, <2>6, <2>7
<1> QED  BY <1>1, <1>2

-----------------------------------------------------------------------------
(* Fields.                                                                  *)
Alike(p, q) ==
    /\ p.state = q.state /\ p.connectID = q.connectID /\ p.address = q.address
    /\ p.outgoingPeerID = q.outgoingPeerID
    /\ p.incomingSessionID = q.incomingSessionID
    /\ p.outgoingSessionID = q.outgoingSessionID

SameDatagram(x, d) ==
    /\ x.to = d.to /\ x.address = d.address /\ x.peerID = d.peerID
    /\ x.sessionID = d.sessionID /\ x.command = d.command /\ x.connectID = d.connectID
    /\ x.incoming = d.incoming /\ x.outgoing = d.outgoing

LEMMA PeerReset ==
    ASSUME NEW p \in Peers
    PROVE  /\ Reset(p) \in Peers
           /\ Reset(p).state = "DISCONNECTED" /\ Reset(p).connectID = NoConnection
           /\ Reset(p).outgoingPeerID = Nobody /\ Reset(p).address = p.address
           /\ Reset(p).incomingSessionID = p.incomingSessionID
           /\ Reset(p).outgoingSessionID = p.outgoingSessionID
BY DEF Reset, Peers

LEMMA PeerWaits ==
    ASSUME NEW p \in Peers, NEW alone \in BOOLEAN, NEW w \in Clients \cup Slots
    PROVE  /\ Waits(p, alone, w) \in Peers /\ Alike(Waits(p, alone, w), p)
           /\ alone /\ p.state # "DISCONNECTED"
                  => Waits(p, alone, w).waited = p.waited \cup {w}
BY DEF Waits, Peers, Alike

\* One more datagram.
LEMMA PutsOne ==
    ASSUME wire \subseteq Datagrams, NEW d \in Datagrams, Puts(d)
    PROVE  wire' \subseteq Datagrams /\ \A x \in wire' : x \in wire \/ x = d
BY DEF Puts

\* Those left when a peer has timed out.
LEMMA WireWaited ==
    ASSUME wire \subseteq Datagrams, NEW w \in Clients \cup Slots, WireWaits(w)
    PROVE  /\ wire' \subseteq Datagrams
           /\ \A x \in wire' : \E d \in wire : /\ SameDatagram(x, d) /\ w \notin d.waited
                                             /\ x.waited = d.waited \cup {w}
<1>1. \A d \in Datagrams : LET x == [d EXCEPT !.waited = @ \cup {w}] IN
          x \in Datagrams /\ SameDatagram(x, d) /\ x.waited = d.waited \cup {w}
    BY DEF Datagrams, SameDatagram
<1> QED  BY <1>1 DEF WireWaits


-----------------------------------------------------------------------------
(* What is sent.                                                            *)
Sent(d, to, c, s, session, command, k) ==
    /\ d \in Datagrams /\ DatagramForm(d) /\ d.waited = {}
    /\ d.to = to /\ d.address = c /\ d.peerID = s /\ d.sessionID = session
    /\ d.command = command /\ d.connectID = k

LEMMA ConnectSent ==
    ASSUME FormInv, NEW c \in Clients, client[c].state = "CONNECTING"
    PROVE  /\ Sent(Connect(c), "server", c, Nobody, 0, "CONNECT", client[c].connectID)
           /\ AskedFor(client[c].connectID)
           /\ Connect(c).outgoing = client[c].outgoingSessionID
<1>1. client[c] \in Peers /\ asked[c] \in 0..MaxConnects
    BY DEF FormInv, TypeOK
<1>2. client[c].connectID = <<c, asked[c]>> /\ asked[c] \in 1..MaxConnects
    BY <1>1, ConnectionParts DEF FormInv, ClientForm
<1>3. /\ client[c].connectID \in Connections /\ client[c].connectID[1] = c
      /\ client[c].connectID[2] = asked[c]
    BY <1>2, ConnectionParts
<1> QED  BY <1>1, <1>3 DEF Connect, Sent, Datagram, Datagrams, DatagramForm, AskedFor, Peers,
                           SessionIDs

LEMMA SlotSent ==
    ASSUME FormInv, NEW s \in Slots, slot[s].state # "DISCONNECTED",
           NEW command \in {"VERIFY_CONNECT", "DATA"}
    PROVE  LET d == FromSlot(s, command) IN
           /\ Sent(d, "client", slot[s].address, s, slot[s].outgoingSessionID, command,
                   slot[s].connectID)
           /\ AskedFor(slot[s].connectID)
           /\ d.incoming = slot[s].outgoingSessionID /\ d.outgoing = slot[s].incomingSessionID
<1>1. slot[s] \in Peers /\ SlotForm(s)
    BY DEF FormInv, TypeOK
<1>2. slot[s].address \in Clients
    BY <1>1, ConnectionParts DEF SlotForm
<1> QED  BY <1>1, <1>2 DEF SlotForm, FromSlot, Sent, Datagram, Datagrams, DatagramForm, Peers,
                           SessionIDSet

\* client' is that of the state in which the client sends.
LEMMA ClientSent ==
    ASSUME client' \in [Clients -> Peers], NEW c \in Clients, ClientForm(c)',
           asked[c] \in 0..MaxConnects, asked' = asked,
           client'[c].state = "CONNECTED", NEW command \in {"ACK", "DATA"}
    PROVE  /\ Sent(FromClient(c, command), "server", c, client'[c].outgoingPeerID,
                   client'[c].outgoingSessionID, command, client'[c].connectID)
           /\ AskedFor(client'[c].connectID)
           /\ client'[c].outgoingPeerID \in Slots
<1>1. client'[c] \in Peers
    OBVIOUS
<1>2. client'[c].connectID = <<c, asked[c]>> /\ asked[c] \in 1..MaxConnects
    BY <1>1, ConnectionParts DEF ClientForm
<1>3. /\ client'[c].connectID \in Connections /\ client'[c].connectID[1] = c
      /\ client'[c].connectID[2] = asked[c]
    BY <1>2, ConnectionParts
<1>4. /\ client'[c].outgoingPeerID \in Slots /\ client'[c].outgoingSessionID \in SessionIDSet
    BY DEF ClientForm
<1> QED  BY <1>1, <1>3, <1>4 DEF FromClient, Sent, Datagram, Datagrams, DatagramForm, AskedFor,
                                 SessionIDSet, SessionIDs

-----------------------------------------------------------------------------
(* FormInv.                                                                 *)
LEMMA InitForm == Init => FormInv
<1> SUFFICES ASSUME Init PROVE FormInv
    OBVIOUS
<1>1. \A a \in Clients \cup {"none"} : /\ [NewPeer EXCEPT !.address = a] \in Peers
                                       /\ [NewPeer EXCEPT !.address = a].address = a
                                       /\ [NewPeer EXCEPT !.address = a].state = "DISCONNECTED"
                                       /\ [NewPeer EXCEPT !.address = a].connectID = NoConnection
                                       /\ [NewPeer EXCEPT !.address = a].outgoingPeerID = Nobody
    BY DEF NewPeer, Peers
<1>2. NewPeer \in Peers /\ NewPeer.state = "DISCONNECTED" /\ NewPeer.connectID = NoConnection
    BY DEF NewPeer, Peers
<1>3. TypeOK
    BY <1>1, <1>2, ConnectionParts DEF Init, TypeOK
<1>4. \A c \in Clients : ClientForm(c)
    BY <1>1 DEF Init, ClientForm
<1>5. \A s \in Slots : SlotForm(s)
    BY <1>2 DEF Init, SlotForm
<1> QED  BY <1>3, <1>4, <1>5 DEF Init, FormInv

\* Steps that leave what FormInv is about alone, but for the wire.
LEMMA QuietForm ==
    ASSUME FormInv,
           client' \in [Clients -> Peers], \A c \in Clients : Alike(client'[c], client[c]),
           slot' \in [Slots -> Peers], \A s \in Slots : Alike(slot'[s], slot[s]),
           asked' = asked, reported' = reported, wire' \subseteq Datagrams,
           \A x \in wire' : \/ \E d \in wire : SameDatagram(x, d)
                            \/ DatagramForm(x) /\ AskedFor(x.connectID)
    PROVE  FormInv'
<1>1. TypeOK'
    BY DEF FormInv, TypeOK
<1>2. ASSUME NEW c \in Clients PROVE ClientForm(c)'
    <2>1. ClientForm(c) /\ Alike(client'[c], client[c])
        BY DEF FormInv
    <2> QED  BY <2>1 DEF ClientForm, Alike
<1>3. ASSUME NEW s \in Slots PROVE SlotForm(s)'
    <2>1. SlotForm(s) /\ \A t \in Slots : Alike(slot'[t], slot[t])
        BY DEF FormInv
    <2> QED  BY <2>1 DEF SlotForm, Alike, AskedFor
<1>4. ASSUME NEW x \in wire' PROVE DatagramForm(x)' /\ AskedFor(x.connectID)'
    <2>1. CASE \E d \in wire : SameDatagram(x, d)
        <3>1. PICK d \in wire : SameDatagram(x, d)
            BY <2>1
        <3>2. DatagramForm(d) /\ AskedFor(d.connectID)
            BY DEF FormInv
        <3> QED  BY <3>1, <3>2 DEF SameDatagram, DatagramForm, AskedFor
    <2>2. CASE DatagramForm(x) /\ AskedFor(x.connectID)
        BY <2>2 DEF DatagramForm, AskedFor
    <2> QED  BY <2>1, <2>2
<1>5. \A k \in reported' : AskedFor(k)'
    BY DEF FormInv, AskedFor
<1> QED  BY <1>1, <1>2, <1>3, <1>4, <1>5 DEF FormInv

-----------------------------------------------------------------------------
(* Steps that only send, or lose, a datagram.                               *)
New(d) ==
    LET c == d.address  s == d.peerID IN
    /\ DatagramForm(d) /\ AskedFor(d.connectID) /\ d.waited = {}
    /\ d.command = "CONNECT" => /\ client[c].state = "CONNECTING"
                                /\ d.connectID = client[c].connectID
                                /\ d.outgoing = client[c].outgoingSessionID
    /\ d.command = "VERIFY_CONNECT" => /\ Serves(s, d.connectID, d.outgoing)
                                       /\ slot[s].outgoingSessionID = d.incoming
    /\ ToServer(d) => /\ client[c].state = "CONNECTED" /\ d.connectID = client[c].connectID
                      /\ s = client[c].outgoingPeerID
                      /\ d.sessionID = client[c].outgoingSessionID

SendStep ==
    /\ client' \in [Clients -> Peers] /\ slot' \in [Slots -> Peers]
    /\ \A c \in Clients : Alike(client'[c], client[c]) /\ client'[c].waited = client[c].waited
    /\ \A s \in Slots : Alike(slot'[s], slot[s])
    /\ asked' = asked /\ reported' = reported
    /\ wire' \subseteq Datagrams /\ \A x \in wire' : x \in wire \/ New(x)

LEMMA SendStepForm == FormInv /\ SendStep => FormInv'
<1>1. \A d : SameDatagram(d, d)
    BY DEF SameDatagram
<1> QED  BY <1>1, QuietForm DEF SendStep, New

LEMMA SendConnectStep ==
    ASSUME FormInv, NEW c \in Clients, SendConnect(c)
    PROVE  SendStep
<1>1. /\ client \in [Clients -> Peers] /\ slot \in [Slots -> Peers] /\ wire \subseteq Datagrams
    BY DEF FormInv, TypeOK
<1>2. client[c].state = "CONNECTING"
    BY DEF SendConnect
<1>3. New(Connect(c)) /\ Connect(c) \in Datagrams
    BY <1>2, ConnectSent DEF New, Sent, ToServer
<1>4. wire' \subseteq Datagrams /\ \A x \in wire' : x \in wire \/ New(x)
    BY <1>1, <1>3, PutsOne DEF SendConnect
<1>5. client' = [client EXCEPT ![c].sent = TRUE] /\ UNCHANGED <<slot, asked, reported>>
    BY DEF SendConnect
<1>6. client' \in [Clients -> Peers]
    <2>1. \A p \in Peers : [p EXCEPT !.sent = TRUE] \in Peers
        BY DEF Peers
    <2> QED  BY <1>1, <1>5, <2>1
<1>7. \A b \in Clients : Alike(client'[b], client[b]) /\ client'[b].waited = client[b].waited
    BY <1>1, <1>5 DEF Peers, Alike
<1>8. \A s \in Slots : Alike(slot'[s], slot[s])
    BY <1>5 DEF Alike
<1> QED  BY <1>1, <1>4, <1>5, <1>6, <1>7, <1>8 DEF SendStep

LEMMA SendVerifyStep ==
    ASSUME FormInv, NEW s \in Slots, SendVerify(s)
    PROVE  SendStep
<1>1. /\ client \in [Clients -> Peers] /\ slot \in [Slots -> Peers] /\ wire \subseteq Datagrams
    BY DEF FormInv, TypeOK
<1>2. slot[s].state # "DISCONNECTED"
    BY DEF SendVerify
<1> DEFINE d == FromSlot(s, "VERIFY_CONNECT")
<1>3. New(d) /\ d \in Datagrams
    BY <1>2, SlotSent DEF New, Sent, ToServer, Serves
<1>4. wire' \subseteq Datagrams /\ \A x \in wire' : x \in wire \/ New(x)
    BY <1>1, <1>3, PutsOne DEF SendVerify
<1>5. slot' = [slot EXCEPT ![s].sent = TRUE] /\ UNCHANGED <<client, asked, reported>>
    BY DEF SendVerify
<1>6. slot' \in [Slots -> Peers]
    <2>1. \A p \in Peers : [p EXCEPT !.sent = TRUE] \in Peers
        BY DEF Peers
    <2> QED  BY <1>1, <1>5, <2>1
<1>7. \A t \in Slots : Alike(slot'[t], slot[t])
    BY <1>1, <1>5 DEF Peers, Alike
<1>8. \A c \in Clients : Alike(client'[c], client[c]) /\ client'[c].waited = client[c].waited
    BY <1>5 DEF Alike
<1> QED  BY <1>1, <1>4, <1>5, <1>6, <1>7, <1>8 DEF SendStep

LEMMA SlotSendsStep ==
    ASSUME FormInv, NEW s \in Slots, SlotSends(s)
    PROVE  SendStep
<1>1. /\ client \in [Clients -> Peers] /\ slot \in [Slots -> Peers] /\ wire \subseteq Datagrams
    BY DEF FormInv, TypeOK
<1>2. slot[s].state # "DISCONNECTED"
    BY DEF SlotSends
<1> DEFINE d == FromSlot(s, "DATA")
<1>3. New(d) /\ d \in Datagrams
    BY <1>2, SlotSent DEF New, Sent, ToServer
<1>4. wire' \subseteq Datagrams /\ \A x \in wire' : x \in wire \/ New(x)
    BY <1>1, <1>3, PutsOne DEF SlotSends
<1> QED  BY <1>1, <1>4 DEF SendStep, SlotSends, Alike

\* The client is connected already, and sends an ACK or a packet.
LEMMA ConnectedSendsStep ==
    ASSUME FormInv, NEW c \in Clients, client[c].state = "CONNECTED",
           NEW command \in {"ACK", "DATA"}, Puts(FromClient(c, command)),
           UNCHANGED <<client, slot, asked, reported>>
    PROVE  SendStep
<1>1. /\ client \in [Clients -> Peers] /\ slot \in [Slots -> Peers] /\ wire \subseteq Datagrams
      /\ asked[c] \in 0..MaxConnects
    BY DEF FormInv, TypeOK
<1>2. ClientForm(c)'
    BY DEF FormInv, ClientForm
<1> DEFINE d == FromClient(c, command)
<1>3. /\ Sent(d, "server", c, client[c].outgoingPeerID, client[c].outgoingSessionID, command,
              client[c].connectID)
      /\ AskedFor(client[c].connectID)
    BY <1>1, <1>2, ClientSent
<1> HIDE DEF d
<1>4. New(d) /\ d \in Datagrams
    BY <1>3 DEF New, Sent, ToServer
<1>5. wire' \subseteq Datagrams /\ \A x \in wire' : x \in wire \/ New(x)
    BY <1>1, <1>4, PutsOne DEF d
<1> QED  BY <1>1, <1>5 DEF SendStep, Alike

LEMMA LoseStep == FormInv /\ Lose => SendStep
BY DEF FormInv, TypeOK, Lose, SendStep, Alike

-----------------------------------------------------------------------------
(* The steps of a client.                                                   *)
LEMMA HostConnectStep ==
    ASSUME FormInv, NEW c \in Clients, HostConnect(c)
    PROVE  /\ FormInv'
           /\ client[c].state = "DISCONNECTED"
           /\ slot' = slot /\ wire' = wire /\ reported' = reported
           /\ \A b \in Clients \ {c} : client'[b] = client[b] /\ asked'[b] = asked[b]
           /\ asked'[c] = asked[c] + 1 /\ client'[c].state = "CONNECTING"
           /\ client'[c].connectID = <<c, asked[c] + 1>>
           /\ client'[c].outgoingSessionID = client[c].outgoingSessionID
<1>1. TypeOK /\ client \in [Clients -> Peers] /\ asked \in [Clients -> 0..MaxConnects]
    BY DEF FormInv, TypeOK
<1>2. asked[c] \in Nat /\ asked[c] + 1 \in 1..MaxConnects /\ asked[c] + 1 \in 0..MaxConnects
    BY <1>1, RoomToAsk, ConnectionAssumption DEF HostConnect
<1>3. /\ asked' = [asked EXCEPT ![c] = @ + 1] /\ asked'[c] = asked[c] + 1
      /\ client' = [client EXCEPT ![c].state = "CONNECTING", ![c].connectID = <<c, asked'[c]>>]
      /\ UNCHANGED <<slot, reported, wire>> /\ client[c].state = "DISCONNECTED"
    BY <1>1 DEF HostConnect
<1> DEFINE k == <<c, asked[c] + 1>>
<1>4. k \in Connections
    BY <1>2, ConnectionParts
<1>5. /\ client'[c] \in Peers /\ client'[c].state = "CONNECTING" /\ client'[c].connectID = k
      /\ client'[c].address = client[c].address
      /\ client'[c].outgoingPeerID = client[c].outgoingPeerID
      /\ client'[c].outgoingSessionID = client[c].outgoingSessionID
    BY <1>1, <1>3, <1>4 DEF Peers
<1>6. \A b \in Clients \ {c} : client'[b] = client[b] /\ asked'[b] = asked[b]
    BY <1>1, <1>3
<1>7. TypeOK'
    <2>1. client' \in [Clients -> Peers]
        BY <1>1, <1>3, <1>5, <1>6
    <2>2. asked' \in [Clients -> 0..MaxConnects]
        BY <1>1, <1>2, <1>3
    <2> QED  BY <1>1, <1>3, <2>1, <2>2 DEF TypeOK
<1>8. \A x \in Connections : AskedFor(x) => AskedFor(x)'
    BY <1>1, <1>2, <1>3, <1>6, ConnectionParts DEF AskedFor
<1>9. ASSUME NEW b \in Clients PROVE ClientForm(b)'
    <2>1. ClientForm(b)
        BY DEF FormInv
    <2>2. CASE b = c
        <3>1. client[c].address = c /\ client[c].outgoingPeerID = Nobody
            BY <1>3, <2>1, <2>2 DEF ClientForm
        <3>2. ClientForm(c)'
            <4>1. client'[c].connectID = <<c, asked'[c]>>
                BY <1>3, <1>5
            <4>3. asked'[c] > 0
                BY <1>2, <1>3
            <4>2. /\ client'[c].state = "CONNECTING" /\ client'[c].address = c
                  /\ client'[c].outgoingPeerID = Nobody
                BY <1>5, <3>1
            <4> QED  BY <4>1, <4>2, <4>3 DEF ClientForm
        <3> QED  BY <2>2, <3>2
    <2>3. CASE b # c
        BY <1>6, <2>1, <2>3 DEF ClientForm
    <2> QED  BY <2>2, <2>3
<1>10. \A s \in Slots : SlotForm(s)'
    BY <1>3, <1>8 DEF FormInv, SlotForm
<1>11. \A d \in wire' : DatagramForm(d)' /\ AskedFor(d.connectID)'
    <2>1. \A d \in wire : DatagramForm(d) /\ AskedFor(d.connectID) /\ d.connectID \in Connections
        BY DEF FormInv, TypeOK, Datagrams
    <2> QED  BY <1>3, <1>8, <2>1 DEF DatagramForm
<1>12. \A x \in reported' : AskedFor(x)'
    BY <1>3, <1>8 DEF FormInv, TypeOK
<1>13. FormInv'
    BY <1>7, <1>9, <1>10, <1>11, <1>12 DEF FormInv
<1> QED  BY <1>3, <1>5, <1>6, <1>13

\* One client's peer changes, and stays well formed.
LEMMA ClientForms ==
    ASSUME FormInv, NEW c \in Clients, client'[c] \in Peers, client' \in [Clients -> Peers],
           \A b \in Clients \ {c} : Alike(client'[b], client[b]),
           slot' \in [Slots -> Peers], \A s \in Slots : Alike(slot'[s], slot[s]),
           asked' = asked, reported' = reported, ClientForm(c)', wire' \subseteq Datagrams,
           \A x \in wire' : \/ \E d \in wire : SameDatagram(x, d)
                            \/ DatagramForm(x) /\ AskedFor(x.connectID)
    PROVE  FormInv'
<1>1. TypeOK'
    BY DEF FormInv, TypeOK
<1>2. ASSUME NEW b \in Clients PROVE ClientForm(b)'
    <2>1. CASE b = c
        BY <2>1
    <2>2. CASE b # c
        <3>1. ClientForm(b) /\ Alike(client'[b], client[b])
            BY <2>2 DEF FormInv
        <3> QED  BY <3>1 DEF ClientForm, Alike
    <2> QED  BY <2>1, <2>2
<1>3. ASSUME NEW s \in Slots PROVE SlotForm(s)'
    <2>1. SlotForm(s) /\ \A t \in Slots : Alike(slot'[t], slot[t])
        BY DEF FormInv
    <2> QED  BY <2>1 DEF SlotForm, Alike, AskedFor
<1>4. ASSUME NEW x \in wire' PROVE DatagramForm(x)' /\ AskedFor(x.connectID)'
    <2>1. CASE \E d \in wire : SameDatagram(x, d)
        <3>1. PICK d \in wire : SameDatagram(x, d)
            BY <2>1
        <3>2. DatagramForm(d) /\ AskedFor(d.connectID)
            BY DEF FormInv
        <3> QED  BY <3>1, <3>2 DEF SameDatagram, DatagramForm, AskedFor
    <2>2. CASE DatagramForm(x) /\ AskedFor(x.connectID)
        BY <2>2 DEF DatagramForm, AskedFor
    <2> QED  BY <2>1, <2>2
<1>5. \A k \in reported' : AskedFor(k)'
    BY DEF FormInv, AskedFor
<1> QED  BY <1>1, <1>2, <1>3, <1>4, <1>5 DEF FormInv

\* A peer that has no connection, or none any more.
Ends(p, q) ==
    /\ p.state = "DISCONNECTED" /\ p.connectID = NoConnection /\ p.outgoingPeerID = Nobody
    /\ p.address = q.address /\ p.incomingSessionID = q.incomingSessionID
    /\ p.outgoingSessionID = q.outgoingSessionID

LEMMA EndsForm ==
    ASSUME NEW c \in Clients, ClientForm(c), Ends(client'[c], client[c])
    PROVE  ClientForm(c)'
BY DEF ClientForm, Ends

LEMMA DispatchZombieStep ==
    ASSUME FormInv, NEW c \in Clients, DispatchZombie(c)
    PROVE  /\ FormInv'
           /\ client[c].state = "ZOMBIE" /\ Ends(client'[c], client[c])
           /\ \A b \in Clients \ {c} : client'[b] = client[b]
           /\ slot' = slot /\ wire' = wire /\ asked' = asked /\ reported' = reported
<1>1. /\ client \in [Clients -> Peers] /\ slot \in [Slots -> Peers] /\ wire \subseteq Datagrams
      /\ ClientForm(c)
    BY DEF FormInv, TypeOK
<1>2. /\ client' = [client EXCEPT ![c] = Reset(@)] /\ client[c].state = "ZOMBIE"
      /\ slot' = slot /\ wire' = wire /\ asked' = asked /\ reported' = reported
    BY DEF DispatchZombie
<1>3. client'[c] = Reset(client[c]) /\ client[c] \in Peers
    BY <1>1, <1>2
<1>4. client'[c] \in Peers /\ Ends(client'[c], client[c])
    BY <1>3, PeerReset DEF Ends
<1>5. client' \in [Clients -> Peers] /\ \A b \in Clients \ {c} : client'[b] = client[b]
    BY <1>1, <1>2, <1>4
<1>6. ClientForm(c)'
    BY <1>1, <1>4, EndsForm
<1>7. \A d : SameDatagram(d, d) /\ Alike(d, d)
    BY DEF SameDatagram, Alike
<1>8. FormInv'
    BY <1>1, <1>2, <1>4, <1>5, <1>6, <1>7, ClientForms
<1> QED  BY <1>2, <1>4, <1>5, <1>8

\* The client takes the answer for that to its CONNECT.
AcceptStep(c, d) ==
    LET k == d.connectID IN
    /\ d \in wire /\ d.command = "VERIFY_CONNECT" /\ d.address = c /\ d.peerID \in Slots
    /\ client[c].state = "CONNECTING" /\ client[c].connectID = k
    /\ client'[c].state = "CONNECTED" /\ client'[c].connectID = k
    /\ client'[c].outgoingPeerID = d.peerID /\ client'[c].incomingSessionID = d.incoming
    /\ client'[c].outgoingSessionID = d.outgoing /\ client'[c].waited = client[c].waited
    /\ \A b \in Clients \ {c} : client'[b] = client[b]
    /\ \A x \in wire' : x \in wire \/ Sent(x, "server", c, d.peerID, d.outgoing, "ACK", k)
    /\ slot' = slot /\ asked' = asked /\ reported' = reported

\* It takes it for that to an older one.
ZombieStep(c) ==
    /\ client[c].state = "CONNECTING" /\ client'[c].state = "ZOMBIE"
    /\ client'[c].connectID = client[c].connectID
    /\ client'[c].outgoingSessionID = client[c].outgoingSessionID
    /\ \A b \in Clients \ {c} : client'[b] = client[b]
    /\ slot' = slot /\ wire' = wire /\ asked' = asked /\ reported' = reported

LEMMA ReceiveVerifyStep ==
    ASSUME FormInv, NEW c \in Clients, NEW d \in wire, ReceiveVerify(c, d)
    PROVE  SendStep \/ (FormInv' /\ ZombieStep(c)) \/ (FormInv' /\ AcceptStep(c, d))
<1>1. /\ client \in [Clients -> Peers] /\ slot \in [Slots -> Peers] /\ wire \subseteq Datagrams
      /\ ClientForm(c) /\ asked[c] \in 0..MaxConnects /\ client[c] \in Peers
      /\ d \in Datagrams /\ DatagramForm(d)
    BY DEF FormInv, TypeOK
<1>2. /\ d.command = "VERIFY_CONNECT" /\ d.address = c
      /\ client[c].state \notin {"DISCONNECTED", "ZOMBIE"}
      /\ slot' = slot /\ asked' = asked /\ reported' = reported
    BY DEF ReceiveVerify, Passes
<1>3. client[c].state \in {"CONNECTING", "CONNECTED"}
    BY <1>1, <1>2 DEF ClientForm, Peers
<1>4. \A x : SameDatagram(x, x) /\ Alike(x, x)
    BY DEF SameDatagram, Alike
<1>5. CASE client[c].state = "CONNECTED"
    <2>1. client' = client
        BY <1>5 DEF ReceiveVerify
    <2>2. Puts(FromClient(c, "ACK"))
        BY <1>5, <2>1 DEF ReceiveVerify
    <2> QED  BY <1>2, <1>5, <2>1, <2>2, ConnectedSendsStep
<1>6. CASE client[c].state = "CONNECTING" /\ d.connectID # client[c].connectID
    <2>1. client' = [client EXCEPT ![c].state = "ZOMBIE"]
        BY <1>6 DEF ReceiveVerify
    <2>2. /\ client'[c].state = "ZOMBIE" /\ client'[c].connectID = client[c].connectID
          /\ client'[c].outgoingPeerID = client[c].outgoingPeerID
          /\ client'[c].address = client[c].address
          /\ client'[c].outgoingSessionID = client[c].outgoingSessionID
          /\ client'[c] \in Peers
        BY <1>1, <2>1 DEF Peers
    <2>3. client' \in [Clients -> Peers] /\ \A b \in Clients \ {c} : client'[b] = client[b]
        BY <1>1, <2>1, <2>2
    <2>4. wire' = wire
        BY <2>2 DEF ReceiveVerify
    <2>5. ClientForm(c)'
        BY <1>1, <1>2, <1>6, <2>2 DEF ClientForm
    <2>6. FormInv'
        BY <1>1, <1>2, <1>4, <2>2, <2>3, <2>4, <2>5, ClientForms
    <2> QED  BY <1>2, <1>6, <2>2, <2>3, <2>4, <2>6 DEF ZombieStep
<1>7. CASE client[c].state = "CONNECTING" /\ d.connectID = client[c].connectID
    <2>1. client' = [client EXCEPT ![c].state = "CONNECTED", ![c].outgoingPeerID = d.peerID,
                                   ![c].incomingSessionID = d.incoming,
                                   ![c].outgoingSessionID = d.outgoing]
        BY <1>7 DEF ReceiveVerify
    <2>2. /\ d.peerID \in Slots /\ d.incoming \in SessionIDSet /\ d.outgoing \in SessionIDSet
        BY <1>1, <1>2 DEF DatagramForm
    <2>3. /\ client'[c].state = "CONNECTED" /\ client'[c].connectID = client[c].connectID
          /\ client'[c].outgoingPeerID = d.peerID /\ client'[c].incomingSessionID = d.incoming
          /\ client'[c].outgoingSessionID = d.outgoing
          /\ client'[c].waited = client[c].waited
          /\ client'[c].address = client[c].address
        BY <1>1, <2>1 DEF Peers
    <2>4. client'[c] \in Peers
        BY <1>1, <2>1, <2>2 DEF Peers, SessionIDSet
    <2>5. client' \in [Clients -> Peers] /\ \A b \in Clients \ {c} : client'[b] = client[b]
        BY <1>1, <2>1, <2>4
    <2>6. ClientForm(c)'
        BY <1>1, <1>2, <1>7, <2>2, <2>3 DEF ClientForm
    <2>7. Puts(FromClient(c, "ACK"))
        BY <2>3 DEF ReceiveVerify
    <2>8. /\ Sent(FromClient(c, "ACK"), "server", c, d.peerID, d.outgoing, "ACK", d.connectID)
          /\ AskedFor(d.connectID)
        BY <1>1, <1>2, <1>7, <2>3, <2>5, <2>6, ClientSent
    <2>9. /\ wire' \subseteq Datagrams
          /\ \A x \in wire' : x \in wire \/ x = FromClient(c, "ACK")
        BY <1>1, <2>7, <2>8, PutsOne DEF Sent
    <2>10. \A x \in wire' : \/ x \in wire
                            \/ /\ Sent(x, "server", c, d.peerID, d.outgoing, "ACK", d.connectID)
                               /\ AskedFor(d.connectID)
        BY <2>8, <2>9
    <2>11. FormInv'
        <3>1. \A x \in wire' : \/ \E y \in wire : SameDatagram(x, y)
                               \/ DatagramForm(x) /\ AskedFor(x.connectID)
            BY <1>4, <2>10 DEF Sent
        <3> QED  BY <1>1, <1>2, <1>4, <2>4, <2>5, <2>6, <2>9, <3>1, ClientForms
    <2>12. AcceptStep(c, d)
        BY <1>2, <1>7, <2>2, <2>3, <2>5, <2>10 DEF AcceptStep
    <2> QED  BY <2>11, <2>12
<1> QED  BY <1>3, <1>5, <1>6, <1>7

-----------------------------------------------------------------------------
(* The steps of the server.                                                 *)

\* One slot changes, and stays well formed and the only one of its connection.
LEMMA SlotForms ==
    ASSUME FormInv, NEW s \in Slots, slot' \in [Slots -> Peers],
           \A t \in Slots \ {s} : Alike(slot'[t], slot[t]),
           \A t \in Slots \ {s} : slot[t].state # "DISCONNECTED"
                                      => slot'[s].connectID # slot[t].connectID,
           client' \in [Clients -> Peers], \A c \in Clients : Alike(client'[c], client[c]),
           asked' = asked, reported' \subseteq Connections,
           \A k \in reported' \ reported : AskedFor(k),
           SlotForm(s)', wire' \subseteq Datagrams,
           \A x \in wire' : \E d \in wire : SameDatagram(x, d)
    PROVE  FormInv'
<1>1. TypeOK'
    BY DEF FormInv, TypeOK
<1>2. ASSUME NEW c \in Clients PROVE ClientForm(c)'
    <2>1. ClientForm(c) /\ Alike(client'[c], client[c])
        BY DEF FormInv
    <2> QED  BY <2>1 DEF ClientForm, Alike
<1>3. ASSUME NEW t \in Slots PROVE SlotForm(t)'
    <2>1. CASE t = s
        BY <2>1
    <2>2. CASE t # s
        <3>1. SlotForm(t) /\ \A u \in Slots \ {s} : Alike(slot'[u], slot[u])
            BY DEF FormInv
        <3>2. /\ slot'[t].state # "DISCONNECTED" => slot'[s].connectID # slot'[t].connectID
              /\ Alike(slot'[t], slot[t])
            BY <2>2 DEF Alike
        <3>3. slot[t].state # "DISCONNECTED" =>
                  \A u \in Slots : slot'[u].connectID = slot'[t].connectID => u = t
            BY <3>1, <3>2 DEF SlotForm, Alike
        <3> QED  BY <3>1, <3>2, <3>3 DEF SlotForm, Alike, AskedFor
    <2> QED  BY <2>1, <2>2
<1>4. ASSUME NEW x \in wire' PROVE DatagramForm(x)' /\ AskedFor(x.connectID)'
    <2>1. PICK d \in wire : SameDatagram(x, d)
        OBVIOUS
    <2>2. DatagramForm(d) /\ AskedFor(d.connectID)
        BY DEF FormInv
    <2> QED  BY <2>1, <2>2 DEF SameDatagram, DatagramForm, AskedFor
<1>5. \A k \in reported' : AskedFor(k)'
    BY DEF FormInv, AskedFor
<1> QED  BY <1>1, <1>2, <1>3, <1>4, <1>5 DEF FormInv

\* A slot takes a connection, under session IDs new to it and to the client.
TakeStep(s, d) ==
    /\ d \in wire /\ d.command = "CONNECT" /\ slot[s].state = "DISCONNECTED"
    /\ slot'[s].state = "ACKNOWLEDGING_CONNECT"
    /\ slot'[s].connectID = d.connectID /\ slot'[s].address = d.address
    /\ slot'[s].incomingSessionID # slot[s].incomingSessionID
    /\ slot'[s].incomingSessionID # d.outgoing
    /\ \A t \in Slots \ {s} : slot'[t] = slot[t]
    /\ client' = client /\ wire' = wire /\ asked' = asked /\ reported' = reported

LEMMA ReceiveConnectStep ==
    ASSUME FormInv, NEW s \in Slots, NEW d \in wire, ReceiveConnect(s, d)
    PROVE  FormInv' /\ TakeStep(s, d)
<1>1. /\ client \in [Clients -> Peers] /\ slot \in [Slots -> Peers] /\ wire \subseteq Datagrams
      /\ slot[s] \in Peers /\ d \in Datagrams /\ DatagramForm(d) /\ AskedFor(d.connectID)
      /\ reported \subseteq Connections
    BY DEF FormInv, TypeOK
<1>2. /\ d.command = "CONNECT" /\ ~Known(d) /\ slot[s].state = "DISCONNECTED"
      /\ client' = client /\ wire' = wire /\ asked' = asked /\ reported' = reported
    BY DEF ReceiveConnect, FirstFree
<1> DEFINE out == NextSessionID(d.incoming, slot[s].outgoingSessionID)
           in  == NextSessionID(d.outgoing, slot[s].incomingSessionID)
           p == [state |-> "ACKNOWLEDGING_CONNECT", connectID |-> d.connectID,
                 outgoingPeerID |-> OnlyPeer, address |-> d.address, sent |-> FALSE,
                 waited |-> {}, outgoingSessionID |-> out, incomingSessionID |-> in]
<1>3. slot' = [slot EXCEPT ![s] = p]
    BY DEF ReceiveConnect
<1>4. /\ out \in SessionIDSet /\ in \in SessionIDSet
      /\ in # slot[s].incomingSessionID /\ in # d.outgoing
    <2>1. /\ d.incoming \in SessionIDSet \cup {NoSessionID}
          /\ d.outgoing \in SessionIDSet \cup {NoSessionID}
          /\ slot[s].incomingSessionID \in SessionIDSet \cup {NoSessionID}
          /\ slot[s].outgoingSessionID \in SessionIDSet \cup {NoSessionID}
        BY <1>1 DEF Datagrams, Peers, SessionIDSet
    <2> QED  BY <2>1, NewSessionID
<1> HIDE DEF out, in
<1>5. /\ d.connectID \in Connections /\ d.address \in Clients /\ d.address = d.connectID[1]
    BY <1>1 DEF Datagrams, DatagramForm
<1>6. OnlyPeer \in Slots
    BY ConnectionAssumption DEF OnlyPeer, Slots
<1>7. p \in Peers
    BY <1>4, <1>5, <1>6 DEF Peers, SessionIDSet
<1>8. slot'[s] = p /\ \A t \in Slots \ {s} : slot'[t] = slot[t]
    BY <1>1, <1>3
<1>9. slot' \in [Slots -> Peers]
    BY <1>1, <1>3, <1>7
<1>10. \A t \in Slots \ {s} : slot[t].connectID # d.connectID
    <2> SUFFICES ASSUME NEW t \in Slots, slot[t].connectID = d.connectID PROVE FALSE
        OBVIOUS
    <2>1. SlotForm(t)
        BY DEF FormInv
    <2>2. slot[t].state # "DISCONNECTED"
        BY <1>5, <2>1, ConnectionParts DEF SlotForm
    <2>3. slot[t].address = d.address
        BY <1>5, <2>1, <2>2 DEF SlotForm
    <2> QED  BY <1>2, <2>2, <2>3 DEF Known
<1>11. SlotForm(s)'
    <2>1. \A t \in Slots : slot'[t].connectID = d.connectID => t = s
        BY <1>8, <1>10
    <2> QED  BY <1>1, <1>2, <1>4, <1>5, <1>8, <2>1 DEF SlotForm, AskedFor
<1>12. \A x : SameDatagram(x, x) /\ Alike(x, x)
    BY DEF SameDatagram, Alike
<1>13. FormInv'
    BY <1>1, <1>2, <1>8, <1>9, <1>10, <1>11, <1>12, SlotForms
<1> QED  BY <1>2, <1>4, <1>8, <1>13 DEF TakeStep

\* A slot learns that the client has the connection.
ConfirmStep(s, d) ==
    LET k == slot[s].connectID IN
    /\ d \in wire /\ ToServer(d) /\ d.peerID = s
    /\ d.address = slot[s].address /\ d.sessionID = slot[s].incomingSessionID
    /\ slot[s].state = "ACKNOWLEDGING_CONNECT" /\ slot'[s].state = "CONNECTED"
    /\ slot'[s].connectID = k /\ slot'[s].address = slot[s].address
    /\ slot'[s].incomingSessionID = slot[s].incomingSessionID
    /\ slot'[s].outgoingSessionID = slot[s].outgoingSessionID
    /\ \A t \in Slots \ {s} : slot'[t] = slot[t]
    /\ reported' = reported \cup {k}
    /\ client' = client /\ wire' = wire /\ asked' = asked

LEMMA ReceiveAckStep ==
    ASSUME FormInv, NEW s \in Slots, NEW d \in wire, ReceiveAck(s, d)
    PROVE  FormInv' /\ ConfirmStep(s, d)
<1>1. /\ client \in [Clients -> Peers] /\ slot \in [Slots -> Peers] /\ wire \subseteq Datagrams
      /\ slot[s] \in Peers /\ DatagramForm(d) /\ SlotForm(s)
      /\ reported \subseteq Connections
    BY DEF FormInv, TypeOK
<1>2. /\ d.command = "ACK" /\ d.peerID = s /\ Confirms(s, d)
      /\ slot' = [slot EXCEPT ![s].state = "CONNECTED"]
      /\ reported' = reported \cup {slot[s].connectID}
      /\ client' = client /\ wire' = wire /\ asked' = asked
    BY DEF ReceiveAck
<1>3. ToServer(d)
    BY <1>1, <1>2 DEF ToServer, DatagramForm
<1>4. slot[s].state = "ACKNOWLEDGING_CONNECT" /\ slot[s].outgoingPeerID = OnlyPeer
    BY <1>1, <1>2 DEF Confirms, SlotForm
<1>5. d.address = slot[s].address /\ d.sessionID = slot[s].incomingSessionID
    BY <1>2, <1>4 DEF Confirms, Passes, OnlyPeer, Nobody
<1>6. /\ slot'[s] = [slot[s] EXCEPT !.state = "CONNECTED"]
      /\ \A t \in Slots \ {s} : slot'[t] = slot[t]
    BY <1>1, <1>2
<1>7. /\ slot'[s] \in Peers /\ slot'[s].state = "CONNECTED"
      /\ slot'[s].connectID = slot[s].connectID /\ slot'[s].address = slot[s].address
      /\ slot'[s].outgoingPeerID = slot[s].outgoingPeerID
      /\ slot'[s].incomingSessionID = slot[s].incomingSessionID
      /\ slot'[s].outgoingSessionID = slot[s].outgoingSessionID
    BY <1>1, <1>6 DEF Peers
<1>8. slot' \in [Slots -> Peers]
    BY <1>1, <1>2, <1>6, <1>7
<1>9. SlotForm(s)'
    BY <1>1, <1>2, <1>4, <1>6, <1>7 DEF SlotForm, AskedFor
<1>10. slot[s].connectID \in Connections /\ AskedFor(slot[s].connectID)
    BY <1>1, <1>4 DEF SlotForm
<1>11. \A t \in Slots \ {s} : slot'[s].connectID # slot[t].connectID
    BY <1>1, <1>4, <1>7 DEF SlotForm
<1>12. \A x : SameDatagram(x, x) /\ Alike(x, x)
    BY DEF SameDatagram, Alike
<1>13. FormInv'
    BY <1>1, <1>2, <1>6, <1>8, <1>9, <1>10, <1>11, <1>12, SlotForms
<1> QED  BY <1>2, <1>3, <1>4, <1>5, <1>6, <1>7, <1>13 DEF ConfirmStep

-----------------------------------------------------------------------------
(* Timeouts.                                                                *)

\* What has been under way for a timeout of w.
Waited(w) == \A x \in wire' : \E d \in wire : /\ SameDatagram(x, d) /\ w \notin d.waited
                                              /\ x.waited = d.waited \cup {w}

ClientEndStep(c) ==
    /\ client[c].state # "DISCONNECTED" /\ Ends(client'[c], client[c])
    /\ \A b \in Clients \ {c} :
           /\ Alike(client'[b], client[b])
           /\ ClientAlone(b) /\ client[b].state # "DISCONNECTED"
                  => client'[b].waited = client[b].waited \cup {c}
    /\ \A s \in Slots : Alike(slot'[s], slot[s])
    /\ Waited(c)
    /\ asked' = asked /\ reported' = reported

LEMMA ClientTimesOutStep ==
    ASSUME FormInv, NEW c \in Clients, ClientTimesOut(c)
    PROVE  FormInv' /\ ClientEndStep(c)
<1>1. /\ client \in [Clients -> Peers] /\ slot \in [Slots -> Peers] /\ wire \subseteq Datagrams
      /\ client[c] \in Peers /\ ClientForm(c)
    BY DEF FormInv, TypeOK
<1>2. /\ client' = [b \in Clients |-> IF b = c THEN Reset(client[c])
                                     ELSE Waits(client[b], ClientAlone(b), c)]
      /\ slot' = [s \in Slots |->
                   Waits(slot[s], SlotAlone(s) \/ slot[s].connectID = client[c].connectID, c)]
      /\ WireWaits(c) /\ asked' = asked /\ reported' = reported
      /\ client[c].state # "DISCONNECTED"
    BY DEF ClientTimesOut, TimesOut
<1>3. c \in Clients \cup Slots
    OBVIOUS
<1>4. client'[c] \in Peers /\ Ends(client'[c], client[c])
    BY <1>1, <1>2, PeerReset DEF Ends
<1>5. ASSUME NEW b \in Clients \ {c}
      PROVE  /\ client'[b] \in Peers /\ Alike(client'[b], client[b])
             /\ ClientAlone(b) /\ client[b].state # "DISCONNECTED"
                    => client'[b].waited = client[b].waited \cup {c}
    <2>1. client'[b] = Waits(client[b], ClientAlone(b), c) /\ client[b] \in Peers
        BY <1>1, <1>2
    <2>2. ClientAlone(b) \in BOOLEAN
        BY DEF ClientAlone
    <2> QED  BY <1>3, <2>1, <2>2, PeerWaits
<1>6. ASSUME NEW s \in Slots
      PROVE  slot'[s] \in Peers /\ Alike(slot'[s], slot[s])
    <2> DEFINE alone == SlotAlone(s) \/ slot[s].connectID = client[c].connectID
    <2>1. slot'[s] = Waits(slot[s], alone, c) /\ slot[s] \in Peers
        BY <1>1, <1>2
    <2>2. alone \in BOOLEAN
        OBVIOUS
    <2> HIDE DEF alone
    <2> QED  BY <1>3, <2>1, <2>2, PeerWaits
<1>7. client' \in [Clients -> Peers] /\ slot' \in [Slots -> Peers]
    <2>1. client' \in [Clients -> Peers]
        <3>1. \A b \in Clients : client'[b] \in Peers
            BY <1>4, <1>5
        <3> QED  BY <1>2, <3>1
    <2>2. slot' \in [Slots -> Peers]
        BY <1>2, <1>6
    <2> QED  BY <2>1, <2>2
<1>8. wire' \subseteq Datagrams /\ Waited(c)
    BY <1>1, <1>2, <1>3, WireWaited DEF Waited
<1>9. ClientForm(c)'
    BY <1>1, <1>2, <1>4, EndsForm
<1>10. FormInv'
    BY <1>2, <1>4, <1>5, <1>6, <1>7, <1>8, <1>9, ClientForms DEF Waited
<1> QED  BY <1>2, <1>4, <1>5, <1>6, <1>8, <1>10 DEF ClientEndStep

SlotEndStep(s) ==
    /\ slot[s].state # "DISCONNECTED" /\ Ends(slot'[s], slot[s])
    /\ \A t \in Slots \ {s} : Alike(slot'[t], slot[t])
    /\ \A c \in Clients :
           /\ Alike(client'[c], client[c])
           /\ client[c].state # "DISCONNECTED"
              /\ (ClientAlone(c) \/ client[c].connectID = slot[s].connectID)
                  => client'[c].waited = client[c].waited \cup {s}
           /\ ClientAlone(c) => s \notin client[c].waited
    /\ Waited(s)
    /\ asked' = asked /\ reported' = reported

LEMMA SlotTimesOutStep ==
    ASSUME FormInv, NEW s \in Slots, SlotTimesOut(s)
    PROVE  FormInv' /\ SlotEndStep(s)
<1>1. /\ client \in [Clients -> Peers] /\ slot \in [Slots -> Peers] /\ wire \subseteq Datagrams
      /\ slot[s] \in Peers /\ SlotForm(s) /\ reported \subseteq Connections
    BY DEF FormInv, TypeOK
<1>2. /\ slot' = [t \in Slots |-> IF t = s THEN Reset(slot[s])
                                 ELSE Waits(slot[t], SlotAlone(t), s)]
      /\ client' = [c \in Clients |->
                   Waits(client[c], ClientAlone(c) \/ client[c].connectID = slot[s].connectID, s)]
      /\ WireWaits(s) /\ asked' = asked /\ reported' = reported
      /\ slot[s].state # "DISCONNECTED"
      /\ \A c \in Clients : ClientAlone(c) => s \notin client[c].waited
    BY DEF SlotTimesOut, TimesOut, TurnToTimeOut
<1>3. s \in Clients \cup Slots
    OBVIOUS
<1>4. slot'[s] \in Peers /\ Ends(slot'[s], slot[s])
    BY <1>1, <1>2, PeerReset DEF Ends
<1>5. ASSUME NEW t \in Slots \ {s}
      PROVE  slot'[t] \in Peers /\ Alike(slot'[t], slot[t])
    <2>1. slot'[t] = Waits(slot[t], SlotAlone(t), s) /\ slot[t] \in Peers
        BY <1>1, <1>2
    <2>2. SlotAlone(t) \in BOOLEAN
        BY DEF SlotAlone
    <2> QED  BY <1>3, <2>1, <2>2, PeerWaits
<1>6. ASSUME NEW c \in Clients
      PROVE  /\ client'[c] \in Peers /\ Alike(client'[c], client[c])
             /\ client[c].state # "DISCONNECTED"
                /\ (ClientAlone(c) \/ client[c].connectID = slot[s].connectID)
                    => client'[c].waited = client[c].waited \cup {s}
    <2> DEFINE alone == ClientAlone(c) \/ client[c].connectID = slot[s].connectID
    <2>1. client'[c] = Waits(client[c], alone, s) /\ client[c] \in Peers
        BY <1>1, <1>2
    <2>2. alone \in BOOLEAN
        OBVIOUS
    <2>3. alone <=> (ClientAlone(c) \/ client[c].connectID = slot[s].connectID)
        OBVIOUS
    <2> HIDE DEF alone
    <2> QED  BY <1>3, <2>1, <2>2, <2>3, PeerWaits
<1>7. client' \in [Clients -> Peers] /\ slot' \in [Slots -> Peers]
    <2>1. client' \in [Clients -> Peers]
        BY <1>2, <1>6
    <2>2. slot' \in [Slots -> Peers]
        <3>1. \A t \in Slots : slot'[t] \in Peers
            BY <1>4, <1>5
        <3> QED  BY <1>2, <3>1
    <2> QED  BY <2>1, <2>2
<1>8. wire' \subseteq Datagrams /\ Waited(s)
    BY <1>1, <1>2, <1>3, WireWaited DEF Waited
<1>9. SlotForm(s)'
    BY <1>4 DEF SlotForm, Ends
<1>10. \A t \in Slots \ {s} : slot[t].state # "DISCONNECTED"
                                  => slot'[s].connectID # slot[t].connectID
    BY <1>4, ConnectionParts DEF FormInv, SlotForm, Ends
<1>11. FormInv'
    BY <1>1, <1>2, <1>4, <1>5, <1>6, <1>7, <1>8, <1>9, <1>10, SlotForms DEF Waited
<1> QED  BY <1>2, <1>4, <1>5, <1>6, <1>8, <1>11 DEF SlotEndStep

-----------------------------------------------------------------------------
(* NamesInv: what a step leaves of it.                                      *)
LEMMA SlotKept ==
    ASSUME NEW t, Alike(slot'[t], slot[t]), NEW k, NEW session
    PROVE  /\ Serves(t, k, session)' <=> Serves(t, k, session)
           /\ LeftOnce(t, session)' <=> LeftOnce(t, session)
           /\ slot'[t].state = slot[t].state /\ slot'[t].connectID = slot[t].connectID
           /\ slot'[t].outgoingSessionID = slot[t].outgoingSessionID
BY DEF Alike, Serves, LeftOnce

\* Only a client that is connecting sends CONNECT.
WireGrows == \A x \in wire' : x \in wire \/ (x.command = "CONNECT" =>
                                 /\ client[x.address].state = "CONNECTING"
                                 /\ x.connectID = client[x.address].connectID)

LEMMA ConnectsKept ==
    ASSUME FormInv, FormInv', WireGrows, NEW t, NEW k \in Connections, AskedFor(k)
    PROVE  /\ OlderWaited(t, k) => OlderWaited(t, k)'
           /\ NoneOlder(k) => NoneOlder(k)'
           /\ (client[k[1]].state = "CONNECTING" => client[k[1]].connectID # k)
                  => /\ CopiesWaited(t, k) => CopiesWaited(t, k)'
                     /\ NoCopies(k) => NoCopies(k)'
<1>1. ASSUME NEW x \in wire', x \notin wire, x.command = "CONNECT"
      PROVE  /\ client[x.connectID[1]].state = "CONNECTING"
             /\ x.connectID = client[x.connectID[1]].connectID
             /\ x.address = x.connectID[1]
             /\ x.connectID[2] = asked[x.address] /\ x.address \in Clients
    <2>1. DatagramForm(x) /\ x.address \in Clients
        BY DEF FormInv, TypeOK, Datagrams, DatagramForm
    <2>2. x.address = x.connectID[1] /\ client[x.address].state = "CONNECTING"
          /\ x.connectID = client[x.address].connectID
        BY <1>1, <2>1 DEF WireGrows, DatagramForm
    <2>3. ClientForm(x.address)
        BY <2>1 DEF FormInv
    <2>4. x.connectID = <<x.address, asked[x.address]>>
        BY <2>2, <2>3 DEF ClientForm
    <2>5. x.connectID[2] = asked[x.address]
        BY <2>4
    <2> QED  BY <2>1, <2>2, <2>5
<1>2. k[1] \in Clients /\ k[2] \in Nat /\ k[2] <= asked[k[1]] /\ asked[k[1]] \in Nat
    BY ConnectionParts DEF FormInv, TypeOK, AskedFor
<1>3. ASSUME NEW x \in wire', x \notin wire, Asks(x, k[1])
      PROVE  x.connectID[2] >= k[2] /\ ~(x.connectID[2] < k[2])
    BY <1>1, <1>2, <1>3 DEF Asks
<1>4. OlderWaited(t, k) => OlderWaited(t, k)'
    BY <1>3 DEF OlderWaited, Asks
<1>5. NoneOlder(k) => NoneOlder(k)'
    BY <1>3 DEF NoneOlder, Asks
<1>6. ASSUME client[k[1]].state = "CONNECTING" => client[k[1]].connectID # k,
             NEW x \in wire', x.command = "CONNECT", x.connectID = k
      PROVE  x \in wire
    BY <1>1, <1>6
<1> QED  BY <1>4, <1>5, <1>6 DEF CopiesWaited, NoCopies

\* The same when a peer times out, and what else that gives.
LEMMA ConnectsWaited ==
    ASSUME FormInv, NEW w, Waited(w), NEW k \in Connections
    PROVE  /\ \A t : OlderWaited(t, k) => OlderWaited(t, k)'
           /\ \A t : CopiesWaited(t, k) => CopiesWaited(t, k)'
           /\ NoneOlder(k) => NoneOlder(k)'
           /\ NoCopies(k) => NoCopies(k)'
           /\ OlderWaited(w, k)' /\ CopiesWaited(w, k)'
           /\ OlderWaited(w, k) => NoneOlder(k)'
           /\ CopiesWaited(w, k) => NoCopies(k)'
<1>1. \A x \in wire' : \E d \in wire : /\ x.command = d.command /\ x.address = d.address
                                       /\ x.connectID = d.connectID
                                       /\ w \notin d.waited /\ x.waited = d.waited \cup {w}
    BY DEF Waited, SameDatagram
<1>2. \A t : OlderWaited(t, k) => OlderWaited(t, k)'
    BY <1>1 DEF OlderWaited, Asks
<1>3. \A t : CopiesWaited(t, k) => CopiesWaited(t, k)'
    BY <1>1 DEF CopiesWaited
<1>4. (NoneOlder(k) => NoneOlder(k)') /\ (NoCopies(k) => NoCopies(k)')
    BY <1>1 DEF NoneOlder, NoCopies, Asks
<1>5. OlderWaited(w, k)' /\ CopiesWaited(w, k)'
    BY <1>1 DEF OlderWaited, CopiesWaited
<1>6. OlderWaited(w, k) => NoneOlder(k)'
    <2>1. k[2] \in Nat /\ \A d \in wire : d.connectID[2] \in Nat
        BY ConnectionParts DEF FormInv, TypeOK, Datagrams
    <2>2. \A d \in wire : ~(d.connectID[2] < k[2]) => d.connectID[2] >= k[2]
        BY <2>1
    <2> QED  BY <1>1, <2>2 DEF OlderWaited, NoneOlder, Asks
<1>7. CopiesWaited(w, k) => NoCopies(k)'
    BY <1>1 DEF CopiesWaited, NoCopies
<1> QED  BY <1>2, <1>3, <1>4, <1>5, <1>6, <1>7

LEMMA DatagramParts ==
    ASSUME FormInv, NEW d \in wire
    PROVE  /\ d \in Datagrams /\ d.connectID \in Connections /\ AskedFor(d.connectID)
           /\ d.address = d.connectID[1] /\ d.address \in Clients
           /\ d.command # "CONNECT" => d.peerID \in Slots
           /\ d.command = "VERIFY_CONNECT" => ~ToServer(d)
BY DEF FormInv, TypeOK, Datagrams, DatagramForm, ToServer

LEMMA ClientParts ==
    ASSUME FormInv, NEW c \in Clients, client[c].state # "DISCONNECTED"
    PROVE  LET k == client[c].connectID IN
           /\ k \in Connections /\ AskedFor(k) /\ k[1] = c /\ k[2] = asked[c]
           /\ client[c].state = "CONNECTED" => client[c].outgoingPeerID \in Slots
<1>1. ClientForm(c) /\ asked[c] \in 0..MaxConnects
    BY DEF FormInv, TypeOK
<1>2. client[c].connectID = <<c, asked[c]>> /\ asked[c] \in 1..MaxConnects
    BY <1>1, ConnectionParts DEF ClientForm
<1>3. /\ client[c].connectID \in Connections /\ client[c].connectID[1] = c
      /\ client[c].connectID[2] = asked[c]
    BY <1>2, ConnectionParts
<1> QED  BY <1>1, <1>3, <1>2 DEF ClientForm, AskedFor

\* While the slots stay as they are.
LEMMA DatagramKept ==
    ASSUME FormInv, FormInv', NamesInv, WireGrows, reported' = reported,
           \A s \in Slots : Alike(slot'[s], slot[s]), NEW d \in wire, ToServer(d)
    PROVE  SlotKnows(d)' /\ ReportedOnce(d)'
<1> DEFINE s == d.peerID  k == d.connectID
<1>1. s \in Slots /\ k \in Connections /\ AskedFor(k)
    BY DatagramParts DEF ToServer
<1>2. SlotKnows(d) /\ ReportedOnce(d)
    BY DEF NamesInv, DatagramNames
<1>3. /\ \A j : Serves(s, j, d.sessionID)' <=> Serves(s, j, d.sessionID)
      /\ LeftOnce(s, d.sessionID)' <=> LeftOnce(s, d.sessionID)
      /\ slot'[s].state = slot[s].state /\ slot'[s].connectID = slot[s].connectID
    BY <1>1, SlotKept
<1> HIDE DEF s, k
<1>4. (OlderWaited(s, k) => OlderWaited(s, k)') /\ (NoneOlder(k) => NoneOlder(k)')
    BY <1>1, ConnectsKept
<1>5. k \in reported => /\ CopiesWaited(s, k) => CopiesWaited(s, k)'
                        /\ NoCopies(k) => NoCopies(k)'
    <2>1. k \in reported => (client[k[1]].state = "CONNECTING" => client[k[1]].connectID # k)
        BY DEF NamesInv
    <2> QED  BY <1>1, <2>1, ConnectsKept
<1>6. SlotKnows(d)'
    BY <1>2, <1>3, <1>4 DEF SlotKnows, s, k
<1>7. ReportedOnce(d)'
    BY <1>2, <1>3, <1>5 DEF ReportedOnce, s, k
<1> QED  BY <1>6, <1>7

LEMMA VerifyKept ==
    ASSUME FormInv, FormInv', NamesInv, WireGrows,
           \A s \in Slots : Alike(slot'[s], slot[s]),
           NEW d \in wire, d.command = "VERIFY_CONNECT",
           client'[d.address].state = "CONNECTING" /\ client'[d.address].connectID = d.connectID
               => /\ client[d.address].state = "CONNECTING"
                  /\ client[d.address].connectID = d.connectID
                  /\ client'[d.address].waited = client[d.address].waited
    PROVE  VerifyNames(d)'
<1> DEFINE s == d.peerID  k == d.connectID
<1>1. s \in Slots /\ k \in Connections /\ AskedFor(k)
    BY DatagramParts
<1>2. VerifyNames(d)
    BY DEF NamesInv
<1>3. /\ Serves(s, k, d.outgoing)' <=> Serves(s, k, d.outgoing)
      /\ LeftOnce(s, d.outgoing)' <=> LeftOnce(s, d.outgoing)
      /\ slot'[s].outgoingSessionID = slot[s].outgoingSessionID
    BY <1>1, SlotKept
<1> HIDE DEF s, k
<1>4. OlderWaited(s, k) => OlderWaited(s, k)'
    BY <1>1, ConnectsKept
<1> QED  BY <1>2, <1>3, <1>4 DEF VerifyNames, s, k

LEMMA ClientKept ==
    ASSUME FormInv, FormInv', NamesInv, WireGrows, reported' = reported,
           \A s \in Slots : Alike(slot'[s], slot[s]),
           NEW c \in Clients, client[c].state = "CONNECTED",
           Alike(client'[c], client[c]), client'[c].waited = client[c].waited
    PROVE  ClientNames(c)'
<1>1. PICK s, k, id : /\ s = client[c].outgoingPeerID /\ k = client[c].connectID
                       /\ id = client[c].outgoingSessionID
    OBVIOUS
<1>2. s \in Slots /\ k \in Connections /\ AskedFor(k) /\ k[1] = c
    BY <1>1, ClientParts
<1>3. ClientNames(c)
    BY DEF NamesInv
<1>4. /\ Serves(s, k, id)' <=> Serves(s, k, id)
      /\ LeftOnce(s, id)' <=> LeftOnce(s, id)
      /\ slot'[s].state = slot[s].state
      /\ slot'[s].outgoingSessionID = slot[s].outgoingSessionID
    BY <1>2, SlotKept
<1>5. OlderWaited(s, k) => OlderWaited(s, k)'
    BY <1>2, ConnectsKept
<1>6. CopiesWaited(s, k) => CopiesWaited(s, k)'
    BY <1>1, <1>2, ConnectsKept
<1>7. /\ s = client'[c].outgoingPeerID /\ k = client'[c].connectID
      /\ id = client'[c].outgoingSessionID
      /\ client'[c].incomingSessionID = client[c].incomingSessionID
    BY <1>1 DEF Alike
<1>8. /\ \/ /\ Serves(s, k, id)'
            /\ slot'[s].outgoingSessionID = client'[c].incomingSessionID
         \/ LeftOnce(s, id)' /\ s \in client'[c].waited /\ OlderWaited(s, k)'
      /\ k \in reported' =>
             \/ Serves(s, k, id)' /\ slot'[s].state = "CONNECTED"
             \/ LeftOnce(s, id)' /\ CopiesWaited(s, k)'
    BY <1>1, <1>3, <1>4, <1>5, <1>6, <1>7 DEF ClientNames
<1> QED  BY <1>7, <1>8 DEF ClientNames

\* What the server has reported, while nothing happens to it.
LEMMA ServerKept ==
    ASSUME FormInv, NamesInv, reported' = reported,
           \A s \in Slots : Alike(slot'[s], slot[s]),
           \A c \in Clients : \/ Alike(client'[c], client[c])
                              \/ client[c].state # "CONNECTED"
                                 /\ ~(client'[c].connectID \in reported)
                              \/ client'[c].connectID \notin Connections
    PROVE  /\ \A s \in Slots : slot'[s].state = "CONNECTED" => SlotNamed(s)'
           /\ \A k \in reported' : client'[k[1]].connectID = k => client'[k[1]].state = "CONNECTED"
<1>1. \A k \in reported : k \in Connections /\ k[1] \in Clients
    BY ConnectionParts DEF FormInv, TypeOK
<1>2. ASSUME NEW k \in reported', client'[k[1]].connectID = k
      PROVE  Alike(client'[k[1]], client[k[1]]) /\ client'[k[1]].state = "CONNECTED"
    <2>1. Alike(client'[k[1]], client[k[1]])
        BY <1>1, <1>2
    <2> QED  BY <1>1, <1>2, <2>1 DEF Alike, NamesInv
<1>3. ASSUME NEW s \in Slots, slot'[s].state = "CONNECTED"
      PROVE  SlotNamed(s)'
    <2>1. PICK k : k = slot[s].connectID
        OBVIOUS
    <2>2. slot[s].state = "CONNECTED" /\ slot'[s].connectID = k
          /\ slot'[s].incomingSessionID = slot[s].incomingSessionID
        BY <1>3, <2>1 DEF Alike
    <2>3. SlotNamed(s)
        BY <2>2 DEF NamesInv
    <2>4. k \in reported'
        BY <2>1, <2>3 DEF SlotNamed
    <2> QED  BY <1>2, <2>1, <2>2, <2>3, <2>4 DEF SlotNamed, Alike
<1> QED  BY <1>2, <1>3

LEMMA SendNames == FormInv /\ NamesInv /\ SendStep => NamesInv'
<1> SUFFICES ASSUME FormInv, NamesInv, SendStep PROVE NamesInv'
    OBVIOUS
<1>1. FormInv'
    BY SendStepForm
<1>2. /\ \A c \in Clients : Alike(client'[c], client[c]) /\ client'[c].waited = client[c].waited
      /\ \A s \in Slots : Alike(slot'[s], slot[s])
      /\ reported' = reported /\ \A x \in wire' : x \in wire \/ New(x)
    BY DEF SendStep
<1>3. WireGrows
    BY <1>2 DEF WireGrows, New
<1>4. ASSUME NEW d \in wire', d.command = "VERIFY_CONNECT"
      PROVE  VerifyNames(d)'
    <2>1. CASE d \in wire
        <3>1. d.address \in Clients
            BY <2>1, DatagramParts
        <3> QED  BY <1>1, <1>2, <1>3, <1>4, <2>1, <3>1, VerifyKept DEF Alike
    <2>2. CASE New(d)
        <3>1. d.peerID \in Slots
            BY <1>4, <2>2 DEF New, DatagramForm
        <3> QED  BY <1>2, <1>4, <2>2, <3>1, SlotKept DEF New, VerifyNames
    <2> QED  BY <1>2, <2>1, <2>2
<1>5. ASSUME NEW d \in wire', ToServer(d)
      PROVE  DatagramNames(d)'
    <2>1. d \in Datagrams /\ d.connectID \in Connections /\ AskedFor(d.connectID)
          /\ d.address = d.connectID[1] /\ d.address \in Clients
        <3>1. CASE d \in wire
            BY <3>1, DatagramParts
        <3>2. CASE New(d)
            BY <3>2 DEF New, DatagramForm, SendStep, Datagrams
        <3> QED  BY <1>2, <3>1, <3>2
    <2> DEFINE c == d.address
    <2>2. Alike(client'[c], client[c])
        BY <1>2, <2>1
    <2>3. SenderAgrees(d) /\ (d \in wire => DatagramNames(d))
        <3>1. d \in wire => DatagramNames(d)
            BY <1>5 DEF NamesInv
        <3> QED  BY <1>2, <1>5, <3>1 DEF DatagramNames, SenderAgrees, New
    <2>4. SenderAgrees(d)'
        BY <2>2, <2>3 DEF SenderAgrees, Alike
    <2>5. YoungerAvoid(d)'
        <3> SUFFICES ASSUME NEW b \in wire', Asks(b, c), b.connectID[2] > d.connectID[2]
                     PROVE  b.outgoing = d.sessionID
            BY DEF YoungerAvoid
        <3>1. CASE b \in wire /\ d \in wire
            BY <2>3, <3>1 DEF DatagramNames, YoungerAvoid
        <3>2. CASE New(b)
            <4>1. /\ client[c].state = "CONNECTING" /\ b.connectID = client[c].connectID
                  /\ b.outgoing = client[c].outgoingSessionID
                BY <3>2 DEF New, Asks
            <4>2. client[c].connectID # d.connectID
                BY <2>1, <4>1, ConnectionParts
            <4> QED  BY <2>3, <4>1, <4>2 DEF SenderAgrees
        <3>3. CASE New(d) /\ b \in wire
            <4>1. d.connectID = client[c].connectID /\ client[c].state = "CONNECTED"
                BY <1>5, <3>3 DEF New
            <4>2. d.connectID[2] = asked[c] /\ asked[c] \in Nat
                BY <2>1, <4>1, ClientParts DEF FormInv, TypeOK
            <4>3. b.connectID[2] <= asked[c] /\ b.connectID[2] \in Nat
                BY <3>3, DatagramParts, ConnectionParts DEF Asks, AskedFor
            <4> QED  BY <4>2, <4>3
        <3> QED  BY <1>2, <3>1, <3>2, <3>3
    <2>6. OneName(d)'
        <3> SUFFICES ASSUME NEW b \in wire', ToServer(b), b.connectID = d.connectID
                     PROVE  b.peerID = d.peerID /\ b.sessionID = d.sessionID
            BY DEF OneName
        <3>1. CASE b \in wire /\ d \in wire
            BY <2>3, <3>1 DEF DatagramNames, OneName
        <3>2. b.address = c
            BY <1>2, <2>1, DatagramParts DEF New, DatagramForm
        <3>3. SenderAgrees(b)
            BY <1>2 DEF SenderAgrees, New, NamesInv, DatagramNames
        <3>4. CASE New(b) \/ New(d)
            <4>1. client[c].connectID = d.connectID
                BY <1>5, <3>2, <3>4 DEF New
            <4> QED  BY <2>3, <3>2, <3>3, <4>1 DEF SenderAgrees
        <3> QED  BY <1>2, <3>1, <3>4
    <2>7. SlotKnows(d)' /\ ReportedOnce(d)'
        <3>1. CASE d \in wire
            BY <1>1, <1>2, <1>3, <1>5, <3>1, DatagramKept
        <3>2. CASE New(d)
            <4>1. /\ client[c].state = "CONNECTED" /\ d.connectID = client[c].connectID
                  /\ d.peerID = client[c].outgoingPeerID
                  /\ d.sessionID = client[c].outgoingSessionID
                BY <1>5, <3>2 DEF New
            <4>2. ClientNames(c)'
                BY <1>1, <1>2, <1>3, <2>1, <4>1, ClientKept
            <4>3. /\ d.connectID = client'[c].connectID /\ d.peerID = client'[c].outgoingPeerID
                  /\ d.sessionID = client'[c].outgoingSessionID
                BY <2>2, <4>1 DEF Alike
            <4> QED  BY <4>2, <4>3 DEF ClientNames, SlotKnows, ReportedOnce
        <3> QED  BY <1>2, <3>1, <3>2
    <2> QED  BY <2>4, <2>5, <2>6, <2>7 DEF DatagramNames
<1>6. ASSUME NEW c \in Clients, client'[c].state = "CONNECTED" PROVE ClientNames(c)'
    BY <1>1, <1>2, <1>3, <1>6, ClientKept DEF Alike
<1>7. /\ \A s \in Slots : slot'[s].state = "CONNECTED" => SlotNamed(s)'
      /\ \A k \in reported' : client'[k[1]].connectID = k => client'[k[1]].state = "CONNECTED"
    BY <1>2, ServerKept
<1> QED  BY <1>4, <1>5, <1>6, <1>7 DEF NamesInv

\* A client that is not connected asks, or gives up.
LEMMA UnconnectedNames ==
    ASSUME FormInv, FormInv', NamesInv, slot' = slot, wire' = wire, reported' = reported,
           NEW c \in Clients, \A b \in Clients \ {c} : client'[b] = client[b],
           client[c].state # "CONNECTED", client'[c].state # "CONNECTED",
           client'[c].outgoingSessionID = client[c].outgoingSessionID,
           client'[c].connectID \notin reported,
           \A d \in wire : ToServer(d) \/ client'[c].state = "CONNECTING"
                               => client'[c].connectID # d.connectID
    PROVE  NamesInv'
<1>1. WireGrows /\ \A s \in Slots : Alike(slot'[s], slot[s])
    BY DEF WireGrows, Alike
<1>2. \A b \in Clients : b = c \/ (client'[b] = client[b] /\ Alike(client'[b], client[b]))
    BY DEF Alike
<1>3. ASSUME NEW d \in wire', d.command = "VERIFY_CONNECT"
      PROVE  VerifyNames(d)'
    <2>1. d.address \in Clients
        BY DatagramParts
    <2> QED  BY <1>1, <1>2, <1>3, <2>1, VerifyKept
<1>4. ASSUME NEW d \in wire', ToServer(d)
      PROVE  DatagramNames(d)'
    <2>1. d.address \in Clients /\ DatagramNames(d)
        BY <1>4, DatagramParts DEF NamesInv
    <2>2. SenderAgrees(d)'
        <3>1. CASE d.address = c
            BY <1>4, <2>1, <3>1 DEF DatagramNames, SenderAgrees
        <3>2. CASE d.address # c
            BY <1>2, <2>1, <3>2 DEF DatagramNames, SenderAgrees
        <3> QED  BY <3>1, <3>2
    <2>3. YoungerAvoid(d)' /\ OneName(d)'
        BY <2>1 DEF DatagramNames, YoungerAvoid, OneName
    <2>4. SlotKnows(d)' /\ ReportedOnce(d)'
        BY <1>1, <1>4, DatagramKept
    <2> QED  BY <2>2, <2>3, <2>4 DEF DatagramNames
<1>5. ASSUME NEW b \in Clients, client'[b].state = "CONNECTED" PROVE ClientNames(b)'
    BY <1>1, <1>2, <1>5, ClientKept
<1>6. /\ \A s \in Slots : slot'[s].state = "CONNECTED" => SlotNamed(s)'
      /\ \A k \in reported' : client'[k[1]].connectID = k => client'[k[1]].state = "CONNECTED"
    BY <1>1, <1>2, ServerKept
<1> QED  BY <1>3, <1>4, <1>5, <1>6 DEF NamesInv

LEMMA HostConnectNames ==
    ASSUME FormInv, NamesInv, NEW c \in Clients, HostConnect(c)
    PROVE  NamesInv'
<1>1. asked[c] \in Nat
    BY ConnectionParts DEF FormInv, TypeOK
<1>2. \A k : AskedFor(k) => <<c, asked[c] + 1>> # k
    BY <1>1 DEF AskedFor
<1>3. \A k \in reported : AskedFor(k)
    BY DEF FormInv
<1>4. \A d \in wire : AskedFor(d.connectID)
    BY DatagramParts
<1>5. /\ client[c].state = "DISCONNECTED" /\ client'[c].state = "CONNECTING"
      /\ client'[c].connectID = <<c, asked[c] + 1>>
      /\ client'[c].outgoingSessionID = client[c].outgoingSessionID
      /\ slot' = slot /\ wire' = wire /\ reported' = reported
      /\ \A b \in Clients \ {c} : client'[b] = client[b]
      /\ FormInv'
    BY HostConnectStep
<1> QED  BY <1>2, <1>3, <1>4, <1>5, UnconnectedNames

\* It is not connected, so nothing sent in its connection is there.
LEMMA ConnectingSentNothing ==
    ASSUME FormInv, NamesInv, NEW c \in Clients,
           client[c].state \in {"CONNECTING", "ZOMBIE"}
    PROVE  /\ client[c].connectID \notin reported
           /\ \A d \in wire : ToServer(d) => client[c].connectID # d.connectID
<1>1. client[c].connectID[1] = c
    BY ClientParts
<1>2. client[c].connectID \notin reported
    BY <1>1 DEF NamesInv
<1>3. ASSUME NEW d \in wire, ToServer(d) PROVE client[c].connectID # d.connectID
    BY <1>1, <1>3, DatagramParts DEF NamesInv, DatagramNames, SenderAgrees
<1> QED  BY <1>2, <1>3

LEMMA DispatchZombieNames ==
    ASSUME FormInv, NamesInv, NEW c \in Clients, DispatchZombie(c)
    PROVE  NamesInv'
<1>1. /\ client[c].state = "ZOMBIE" /\ Ends(client'[c], client[c]) /\ FormInv'
      /\ slot' = slot /\ wire' = wire /\ reported' = reported
      /\ \A b \in Clients \ {c} : client'[b] = client[b]
    BY DispatchZombieStep
<1>2. NoConnection \notin reported /\ \A d \in wire : NoConnection # d.connectID
    BY DatagramParts, ConnectionParts DEF FormInv, TypeOK
<1> QED  BY <1>1, <1>2, UnconnectedNames DEF Ends

LEMMA ZombieNames ==
    ASSUME FormInv, FormInv', NamesInv, NEW c \in Clients, ZombieStep(c)
    PROVE  NamesInv'
BY ConnectingSentNothing, UnconnectedNames DEF ZombieStep

LEMMA AcceptNames ==
    ASSUME FormInv, FormInv', NamesInv, NEW c \in Clients, NEW v \in wire, AcceptStep(c, v)
    PROVE  NamesInv'
<1> DEFINE k == v.connectID  Ack(x) == Sent(x, "server", c, v.peerID, v.outgoing, "ACK", k)
<1>1. /\ v.command = "VERIFY_CONNECT" /\ v.address = c /\ v.peerID \in Slots
      /\ client[c].state = "CONNECTING" /\ client[c].connectID = k
      /\ client'[c].state = "CONNECTED" /\ client'[c].connectID = k
      /\ client'[c].outgoingPeerID = v.peerID /\ client'[c].incomingSessionID = v.incoming
      /\ client'[c].outgoingSessionID = v.outgoing /\ client'[c].waited = client[c].waited
      /\ \A b \in Clients \ {c} : client'[b] = client[b]
      /\ \A x \in wire' : x \in wire \/ Ack(x)
      /\ slot' = slot /\ reported' = reported
    BY DEF AcceptStep
<1>2. WireGrows /\ \A s \in Slots : Alike(slot'[s], slot[s])
    BY <1>1 DEF WireGrows, Alike, Sent
<1>3. \A b \in Clients : b = c \/ (client'[b] = client[b] /\ Alike(client'[b], client[b]))
    BY <1>1 DEF Alike
<1>4. /\ k \notin reported /\ \A d \in wire : ToServer(d) => k # d.connectID
      /\ k[1] = c /\ k[2] = asked[c] /\ k \in Connections /\ AskedFor(k)
    BY <1>1, ConnectingSentNothing, ClientParts
<1>5. ASSUME NEW d \in wire', d.command = "VERIFY_CONNECT"
      PROVE  VerifyNames(d)'
    <2>1. d \in wire /\ d.address \in Clients
        BY <1>1, <1>5, DatagramParts DEF Sent
    <2> QED  BY <1>1, <1>2, <1>3, <1>5, <2>1, VerifyKept
<1>6. /\ Serves(v.peerID, k, v.outgoing)' /\ slot'[v.peerID].outgoingSessionID = v.incoming
      \/ /\ LeftOnce(v.peerID, v.outgoing)' /\ OlderWaited(v.peerID, k)'
         /\ v.peerID \in client'[c].waited
    <2>1. VerifyNames(v)
        BY <1>1 DEF NamesInv
    <2>2. /\ Serves(v.peerID, k, v.outgoing)' <=> Serves(v.peerID, k, v.outgoing)
          /\ LeftOnce(v.peerID, v.outgoing)' <=> LeftOnce(v.peerID, v.outgoing)
        BY <1>1, <1>2, SlotKept
    <2>3. OlderWaited(v.peerID, k) => OlderWaited(v.peerID, k)'
        BY <1>2, <1>4, ConnectsKept
    <2> QED  BY <1>1, <2>1, <2>2, <2>3 DEF VerifyNames
<1>7. ASSUME NEW b \in Clients, client'[b].state = "CONNECTED" PROVE ClientNames(b)'
    <2>1. CASE b = c
        BY <1>1, <1>4, <1>6, <2>1 DEF ClientNames
    <2>2. CASE b # c
        BY <1>1, <1>2, <1>3, <1>7, <2>2, ClientKept
    <2> QED  BY <2>1, <2>2
<1>8. ASSUME NEW d \in wire', ToServer(d)
      PROVE  DatagramNames(d)'
    <2>1. CASE d \in wire
        <3>1. d.address \in Clients /\ DatagramNames(d) /\ k # d.connectID
            BY <1>4, <1>8, <2>1, DatagramParts DEF NamesInv
        <3>2. SenderAgrees(d)'
            <4>1. CASE d.address = c
                BY <1>1, <3>1, <4>1 DEF DatagramNames, SenderAgrees
            <4>2. CASE d.address # c
                BY <1>3, <3>1, <4>2 DEF DatagramNames, SenderAgrees
            <4> QED  BY <4>1, <4>2
        <3>3. YoungerAvoid(d)'
            BY <1>1, <3>1 DEF DatagramNames, YoungerAvoid, Asks, Sent
        <3>4. OneName(d)'
            BY <1>1, <3>1 DEF DatagramNames, OneName, Sent
        <3>5. SlotKnows(d)' /\ ReportedOnce(d)'
            BY <1>1, <1>2, <1>8, <2>1, DatagramKept
        <3> QED  BY <3>2, <3>3, <3>4, <3>5 DEF DatagramNames
    <2>2. CASE Ack(d)
        <3>1. /\ d.connectID = k /\ d.address = c /\ d.peerID = v.peerID
              /\ d.sessionID = v.outgoing
            BY <2>2 DEF Sent
        <3>2. SenderAgrees(d)'
            BY <1>1, <3>1 DEF SenderAgrees
        <3>3. YoungerAvoid(d)'
            <4> SUFFICES ASSUME NEW b \in wire', Asks(b, c), b.connectID[2] > k[2]
                         PROVE  FALSE
                BY <3>1 DEF YoungerAvoid
            <4>1. b \in wire
                BY <1>1 DEF Asks, Sent
            <4>2. /\ b.connectID[2] <= asked[c] /\ b.connectID[2] \in Nat
                  /\ asked[c] \in Nat
                BY <4>1, DatagramParts, ConnectionParts DEF Asks, AskedFor, FormInv, TypeOK
            <4> QED  BY <1>4, <4>2
        <3>4. OneName(d)'
            BY <1>1, <1>4, <3>1 DEF OneName, Sent
        <3>5. SlotKnows(d)' /\ ReportedOnce(d)'
            BY <1>1, <1>4, <1>6, <3>1 DEF SlotKnows, ReportedOnce
        <3> QED  BY <3>2, <3>3, <3>4, <3>5 DEF DatagramNames
    <2> QED  BY <1>1, <2>1, <2>2
<1>9. /\ \A s \in Slots : slot'[s].state = "CONNECTED" => SlotNamed(s)'
      /\ \A j \in reported' : client'[j[1]].connectID = j => client'[j[1]].state = "CONNECTED"
    BY <1>1, <1>2, <1>3, <1>4, ServerKept
<1> QED  BY <1>5, <1>7, <1>8, <1>9 DEF NamesInv

LEMMA TakeNames ==
    ASSUME FormInv, FormInv', NamesInv, NEW s \in Slots, NEW d \in wire, TakeStep(s, d)
    PROVE  NamesInv'
<1>1. /\ d.command = "CONNECT" /\ slot[s].state = "DISCONNECTED"
      /\ slot'[s].state = "ACKNOWLEDGING_CONNECT"
      /\ slot'[s].connectID = d.connectID /\ slot'[s].address = d.address
      /\ slot'[s].incomingSessionID # slot[s].incomingSessionID
      /\ slot'[s].incomingSessionID # d.outgoing
      /\ \A t \in Slots \ {s} : slot'[t] = slot[t]
      /\ client' = client /\ wire' = wire /\ asked' = asked /\ reported' = reported
    BY DEF TakeStep
<1>2. \A t, k : /\ OlderWaited(t, k)' <=> OlderWaited(t, k)
                /\ CopiesWaited(t, k)' <=> CopiesWaited(t, k)
                /\ NoneOlder(k)' <=> NoneOlder(k)
                /\ NoCopies(k)' <=> NoCopies(k)
    BY <1>1 DEF OlderWaited, CopiesWaited, NoneOlder, NoCopies
<1>3. ASSUME NEW t \in Slots, NEW k, NEW id
      PROVE  /\ Serves(t, k, id) => /\ Serves(t, k, id)' /\ slot'[t] = slot[t]
             /\ LeftOnce(t, id) => LeftOnce(t, id)'
    BY <1>1 DEF Serves, LeftOnce
<1>4. ASSUME NEW x \in wire', x.command = "VERIFY_CONNECT"
      PROVE  VerifyNames(x)'
    <2>1. x.peerID \in Slots /\ VerifyNames(x)
        BY <1>1, <1>4, DatagramParts DEF NamesInv
    <2> QED  BY <1>1, <1>2, <1>3, <2>1 DEF VerifyNames
<1>5. ASSUME NEW x \in wire', ToServer(x)
      PROVE  DatagramNames(x)'
    <2>1. x.peerID \in Slots /\ DatagramNames(x) /\ x.connectID \in Connections
          /\ x.address = x.connectID[1]
        BY <1>1, <1>5, DatagramParts DEF NamesInv, ToServer
    <2>2. SenderAgrees(x)' /\ YoungerAvoid(x)' /\ OneName(x)'
        BY <1>1, <2>1 DEF DatagramNames, SenderAgrees, YoungerAvoid, OneName
    <2>3. SlotKnows(x)'
        <3>1. CASE Serves(x.peerID, x.connectID, x.sessionID)
            BY <1>3, <2>1, <3>1 DEF SlotKnows
        <3>2. CASE LeftOnce(x.peerID, x.sessionID) /\ OlderWaited(x.peerID, x.connectID)
            BY <1>2, <1>3, <2>1, <3>2 DEF SlotKnows
        <3>3. CASE /\ NoneOlder(x.connectID)
                   /\ \A j \in Connections : j[1] = x.connectID[1]
                          /\ Serves(x.peerID, j, x.sessionID) => j = x.connectID
            <4>1. ASSUME NEW j \in Connections, j[1] = x.connectID[1],
                         Serves(x.peerID, j, x.sessionID)'
                  PROVE  j = x.connectID
                <5>1. CASE x.peerID # s
                    BY <1>1, <2>1, <3>3, <4>1, <5>1 DEF Serves
                <5>2. CASE x.peerID = s
                    <6>1. j = d.connectID /\ x.sessionID # d.outgoing
                        BY <1>1, <4>1, <5>2 DEF Serves
                    <6>2. Asks(d, x.address)
                        BY <1>1, <2>1, <4>1, <6>1, DatagramParts DEF Asks
                    <6>3. ~(d.connectID[2] > x.connectID[2]) /\ d.connectID[2] >= x.connectID[2]
                        BY <2>1, <3>3, <6>1, <6>2 DEF DatagramNames, YoungerAvoid, NoneOlder
                    <6>4. j[2] \in Nat /\ x.connectID[2] \in Nat
                        BY <2>1, ConnectionParts
                    <6>5. j[2] = x.connectID[2]
                        BY <6>1, <6>3, <6>4
                    <6> QED  BY <2>1, <4>1, <6>5, ConnectionParts
                <5> QED  BY <5>1, <5>2
            <4> QED  BY <1>2, <3>3, <4>1 DEF SlotKnows
        <3> QED  BY <2>1, <3>1, <3>2, <3>3 DEF DatagramNames, SlotKnows
    <2>4. ReportedOnce(x)'
        <3>1. NoCopies(x.connectID) => d.connectID # x.connectID
            BY <1>1 DEF NoCopies
        <3>2. slot'[x.peerID].connectID \in {slot[x.peerID].connectID, d.connectID}
            BY <1>1, <2>1
        <3> QED  BY <1>1, <1>2, <1>3, <2>1, <3>1, <3>2 DEF DatagramNames, ReportedOnce
    <2> QED  BY <2>2, <2>3, <2>4 DEF DatagramNames
<1>6. ASSUME NEW c \in Clients, client'[c].state = "CONNECTED" PROVE ClientNames(c)'
    <2>1. PICK t, k, id : /\ t = client[c].outgoingPeerID /\ k = client[c].connectID
                          /\ id = client[c].outgoingSessionID
        OBVIOUS
    <2>2. t \in Slots /\ ClientNames(c)
        BY <1>1, <1>6, <2>1, ClientParts DEF NamesInv
    <2>3. /\ \/ Serves(t, k, id)' /\ slot'[t].outgoingSessionID = client[c].incomingSessionID
             \/ LeftOnce(t, id)' /\ t \in client[c].waited /\ OlderWaited(t, k)'
          /\ k \in reported =>
                 \/ Serves(t, k, id)' /\ slot'[t].state = "CONNECTED"
                 \/ LeftOnce(t, id)' /\ CopiesWaited(t, k)'
        BY <1>2, <1>3, <2>1, <2>2 DEF ClientNames
    <2> QED  BY <1>1, <2>1, <2>3 DEF ClientNames
<1>7. ASSUME NEW t \in Slots, slot'[t].state = "CONNECTED" PROVE SlotNamed(t)'
    <2>1. slot'[t] = slot[t] /\ SlotNamed(t)
        BY <1>1, <1>7 DEF NamesInv
    <2> QED  BY <1>1, <2>1 DEF SlotNamed
<1>8. \A k \in reported' : client'[k[1]].connectID = k => client'[k[1]].state = "CONNECTED"
    BY <1>1 DEF NamesInv
<1> QED  BY <1>4, <1>5, <1>6, <1>7, <1>8 DEF NamesInv

\* A slot takes no datagram of another connection for its own.
LEMMA SlotTakesOwn ==
    ASSUME FormInv, NamesInv, NEW d \in wire, ToServer(d), NEW s \in Slots, d.peerID = s,
           slot[s].state # "DISCONNECTED", d.address = slot[s].address,
           d.sessionID = slot[s].incomingSessionID
    PROVE  d.connectID = slot[s].connectID
<1>1. DatagramNames(d) /\ d.address = d.connectID[1]
    BY DatagramParts DEF NamesInv
<1>2. slot[s].connectID \in Connections /\ slot[s].address = slot[s].connectID[1]
    BY DEF FormInv, SlotForm
<1>3. Serves(s, slot[s].connectID, d.sessionID) /\ ~LeftOnce(s, d.sessionID)
    BY DEF Serves, LeftOnce
<1> QED  BY <1>1, <1>2, <1>3 DEF DatagramNames, SlotKnows, Serves

LEMMA ConfirmNames ==
    ASSUME FormInv, FormInv', NamesInv, NEW s \in Slots, NEW d \in wire, ConfirmStep(s, d)
    PROVE  NamesInv'
<1>1. PICK k : k = slot[s].connectID
    OBVIOUS
<1>2. /\ ToServer(d) /\ d.peerID = s
      /\ d.address = slot[s].address /\ d.sessionID = slot[s].incomingSessionID
      /\ slot[s].state = "ACKNOWLEDGING_CONNECT" /\ slot'[s].state = "CONNECTED"
      /\ slot'[s].connectID = k
      /\ slot'[s].incomingSessionID = slot[s].incomingSessionID
      /\ slot'[s].outgoingSessionID = slot[s].outgoingSessionID
      /\ \A t \in Slots \ {s} : slot'[t] = slot[t]
      /\ reported' = reported \cup {k}
      /\ client' = client /\ wire' = wire
    BY <1>1 DEF ConfirmStep
<1>3. d.connectID = k
    BY <1>1, <1>2, SlotTakesOwn
<1>4. /\ k \in Connections /\ k[1] \in Clients /\ k[1] = d.address /\ DatagramNames(d)
    BY <1>2, <1>3, DatagramParts DEF NamesInv
<1>5. k \notin reported
    BY <1>1, <1>2, <1>3, <1>4 DEF DatagramNames, ReportedOnce, Serves, LeftOnce
<1>6. \A t, j : /\ OlderWaited(t, j)' <=> OlderWaited(t, j)
                /\ CopiesWaited(t, j)' <=> CopiesWaited(t, j)
                /\ NoneOlder(j)' <=> NoneOlder(j)
                /\ NoCopies(j)' <=> NoCopies(j)
    BY <1>2 DEF OlderWaited, CopiesWaited, NoneOlder, NoCopies
<1>7. ASSUME NEW t \in Slots, NEW j, NEW id
      PROVE  /\ Serves(t, j, id)' <=> Serves(t, j, id)
             /\ LeftOnce(t, id)' <=> LeftOnce(t, id)
             /\ slot'[t].outgoingSessionID = slot[t].outgoingSessionID
             /\ slot'[t].connectID = slot[t].connectID
             /\ slot[t].state = "CONNECTED" => slot'[t].state = "CONNECTED"
    BY <1>1, <1>2 DEF Serves, LeftOnce
<1>8. client[k[1]].connectID = k => /\ client[k[1]].state = "CONNECTED"
                                    /\ client[k[1]].outgoingPeerID = s
                                    /\ client[k[1]].outgoingSessionID = slot[s].incomingSessionID
    BY <1>2, <1>3, <1>4 DEF DatagramNames, SenderAgrees
<1>9. ASSUME NEW x \in wire', x.command = "VERIFY_CONNECT"
      PROVE  VerifyNames(x)'
    <2>1. x.peerID \in Slots /\ VerifyNames(x)
        BY <1>2, <1>9, DatagramParts DEF NamesInv
    <2> QED  BY <1>2, <1>6, <1>7, <2>1 DEF VerifyNames
<1>10. ASSUME NEW x \in wire', ToServer(x)
       PROVE  DatagramNames(x)'
    <2>1. x.peerID \in Slots /\ DatagramNames(x)
        BY <1>2, <1>10, DatagramParts DEF NamesInv, ToServer
    <2>2. SenderAgrees(x)' /\ YoungerAvoid(x)' /\ OneName(x)'
        BY <1>2, <2>1 DEF DatagramNames, SenderAgrees, YoungerAvoid, OneName
    <2>3. SlotKnows(x)'
        BY <1>6, <1>7, <2>1 DEF DatagramNames, SlotKnows
    <2>4. ReportedOnce(x)'
        <3>1. CASE x.connectID = k
            <4>1. x.peerID = s /\ x.sessionID = d.sessionID
                BY <1>2, <1>3, <1>4, <1>10, <3>1 DEF DatagramNames, OneName
            <4> QED  BY <1>2, <3>1, <4>1 DEF ReportedOnce, Serves
        <3>2. CASE x.connectID # k
            BY <1>2, <1>6, <1>7, <2>1, <3>2 DEF DatagramNames, ReportedOnce
        <3> QED  BY <3>1, <3>2
    <2> QED  BY <2>2, <2>3, <2>4 DEF DatagramNames
<1>11. ASSUME NEW c \in Clients, client'[c].state = "CONNECTED" PROVE ClientNames(c)'
    <2>1. PICK t, j, id : /\ t = client[c].outgoingPeerID /\ j = client[c].connectID
                          /\ id = client[c].outgoingSessionID
        OBVIOUS
    <2>2. t \in Slots /\ ClientNames(c) /\ j[1] = c
        BY <1>2, <1>11, <2>1, ClientParts DEF NamesInv
    <2>3. \/ Serves(t, j, id)' /\ slot'[t].outgoingSessionID = client[c].incomingSessionID
          \/ LeftOnce(t, id)' /\ t \in client[c].waited /\ OlderWaited(t, j)'
        BY <1>6, <1>7, <2>1, <2>2 DEF ClientNames
    <2>4. j \in reported' => \/ Serves(t, j, id)' /\ slot'[t].state = "CONNECTED"
                             \/ LeftOnce(t, id)' /\ CopiesWaited(t, j)'
        <3>1. CASE j = k
            BY <1>2, <1>8, <2>1, <2>2, <3>1 DEF Serves
        <3>2. CASE j # k
            BY <1>2, <1>6, <1>7, <2>1, <2>2, <3>2 DEF ClientNames
        <3> QED  BY <3>1, <3>2
    <2> QED  BY <1>2, <2>1, <2>3, <2>4 DEF ClientNames
<1>12. ASSUME NEW t \in Slots, slot'[t].state = "CONNECTED" PROVE SlotNamed(t)'
    <2>1. CASE t = s
        BY <1>2, <1>8, <2>1 DEF SlotNamed
    <2>2. CASE t # s
        <3>1. slot'[t] = slot[t] /\ SlotNamed(t)
            BY <1>2, <1>12, <2>2 DEF NamesInv
        <3> QED  BY <1>2, <3>1 DEF SlotNamed
    <2> QED  BY <2>1, <2>2
<1>13. \A j \in reported' : client'[j[1]].connectID = j => client'[j[1]].state = "CONNECTED"
    BY <1>2, <1>8 DEF NamesInv
<1> QED  BY <1>9, <1>10, <1>11, <1>12, <1>13 DEF NamesInv

-----------------------------------------------------------------------------
(* NamesInv: timeouts.                                                      *)

\* Who waits for an answer that does not come.
LEMMA Alone ==
    ASSUME FormInv, NamesInv, NEW c \in Clients
    PROVE  /\ client[c].state = "CONNECTING" => ClientAlone(c)
           /\ /\ client[c].state = "CONNECTED"
              /\ LeftOnce(client[c].outgoingPeerID, client[c].outgoingSessionID)
              => ClientAlone(c)
<1> SUFFICES ASSUME NEW s \in Slots, Connected(slot[s], client[c].connectID),
                    client[c].state # "DISCONNECTED"
             PROVE  /\ client[c].state = "CONNECTED"
                    /\ ~LeftOnce(client[c].outgoingPeerID, client[c].outgoingSessionID)
    BY DEF ClientAlone
<1>1. slot[s].state = "CONNECTED" /\ slot[s].connectID = client[c].connectID
      /\ client[c].connectID[1] = c
    BY ClientParts DEF Connected
<1>2. SlotNamed(s)
    BY <1>1 DEF NamesInv
<1>3. /\ client[c].connectID \in reported
      /\ client[c].outgoingPeerID = s /\ client[c].outgoingSessionID = slot[s].incomingSessionID
    BY <1>1, <1>2 DEF SlotNamed
<1> QED  BY <1>1, <1>3 DEF NamesInv, LeftOnce

\* What is left of what clients have sent and are about to receive.
LEMMA SenderWaits ==
    ASSUME FormInv, NamesInv, NEW w, Waited(w),
           NEW x \in wire', NEW d \in wire, SameDatagram(x, d), w \notin d.waited,
           x.waited = d.waited \cup {w}, ToServer(d),
           \/ Alike(client'[d.address], client[d.address])
           \/ w = d.address /\ Ends(client'[d.address], client[d.address])
    PROVE  SenderAgrees(x)' /\ YoungerAvoid(x)' /\ OneName(x)'
<1>1. /\ DatagramNames(d) /\ d.connectID \in Connections
      /\ x.address = d.address /\ x.connectID = d.connectID /\ x.peerID = d.peerID
      /\ x.sessionID = d.sessionID
    BY DatagramParts DEF NamesInv, SameDatagram
<1>2. SenderAgrees(x)'
    <2>1. CASE Alike(client'[d.address], client[d.address])
        BY <1>1, <2>1 DEF DatagramNames, SenderAgrees, Alike
    <2>2. CASE w = d.address /\ Ends(client'[d.address], client[d.address])
        BY <1>1, <2>2, ConnectionParts DEF DatagramNames, SenderAgrees, Ends
    <2> QED  BY <2>1, <2>2
<1>3. \A b \in wire' : \E e \in wire : SameDatagram(b, e)
    BY DEF Waited
<1>4. YoungerAvoid(x)'
    BY <1>1, <1>3 DEF DatagramNames, YoungerAvoid, Asks, SameDatagram
<1>5. OneName(x)'
    BY <1>1, <1>3 DEF DatagramNames, OneName, ToServer, SameDatagram
<1> QED  BY <1>2, <1>4, <1>5

LEMMA ClientEndNames ==
    ASSUME FormInv, FormInv', NamesInv, NEW c \in Clients, ClientEndStep(c)
    PROVE  NamesInv'
<1>1. /\ Ends(client'[c], client[c]) /\ Waited(c) /\ reported' = reported
      /\ \A b \in Clients \ {c} :
             /\ Alike(client'[b], client[b])
             /\ ClientAlone(b) /\ client[b].state # "DISCONNECTED"
                    => client'[b].waited = client[b].waited \cup {c}
      /\ \A s \in Slots : Alike(slot'[s], slot[s])
    BY DEF ClientEndStep
<1>2. ASSUME NEW x \in wire', x.command = "VERIFY_CONNECT"
      PROVE  VerifyNames(x)'
    <2>1. PICK d \in wire : /\ SameDatagram(x, d) /\ c \notin d.waited
                            /\ x.waited = d.waited \cup {c}
        BY <1>1 DEF Waited
    <2>2. PICK s, k, a : s = d.peerID /\ k = d.connectID /\ a = d.address
        OBVIOUS
    <2>3. /\ s \in Slots /\ k \in Connections /\ a \in Clients /\ VerifyNames(d)
          /\ x.peerID = s /\ x.connectID = k /\ x.address = a
          /\ x.outgoing = d.outgoing /\ x.incoming = d.incoming
        BY <1>2, <2>1, <2>2, DatagramParts DEF SameDatagram, NamesInv
    <2>4. /\ Serves(s, k, d.outgoing)' <=> Serves(s, k, d.outgoing)
          /\ LeftOnce(s, d.outgoing)' <=> LeftOnce(s, d.outgoing)
          /\ slot'[s].outgoingSessionID = slot[s].outgoingSessionID
        BY <1>1, <2>3, SlotKept
    <2>5. OlderWaited(s, k) => OlderWaited(s, k)'
        BY <1>1, <2>3, ConnectsWaited
    <2>6. ASSUME client'[a].state = "CONNECTING"
          PROVE  /\ client[a].state = "CONNECTING"
                 /\ client'[a].connectID = client[a].connectID
                 /\ client'[a].waited = client[a].waited \cup {c}
        BY <1>1, <2>3, <2>6, Alone DEF Ends, Alike
    <2> QED  BY <2>1, <2>2, <2>3, <2>4, <2>5, <2>6 DEF VerifyNames
<1>3. ASSUME NEW x \in wire', ToServer(x)
      PROVE  DatagramNames(x)'
    <2>1. PICK d \in wire : /\ SameDatagram(x, d) /\ c \notin d.waited
                            /\ x.waited = d.waited \cup {c}
        BY <1>1 DEF Waited
    <2>2. PICK s, k, id : s = d.peerID /\ k = d.connectID /\ id = d.sessionID
        OBVIOUS
    <2>3. /\ s \in Slots /\ k \in Connections /\ d.address \in Clients /\ DatagramNames(d)
          /\ x.peerID = s /\ x.connectID = k /\ x.sessionID = id /\ ToServer(d)
        BY <1>3, <2>1, <2>2, DatagramParts DEF SameDatagram, NamesInv, ToServer
    <2>4. SenderAgrees(x)' /\ YoungerAvoid(x)' /\ OneName(x)'
        BY <1>1, <2>1, <2>3, SenderWaits
    <2>5. /\ \A j : Serves(s, j, id)' <=> Serves(s, j, id)
          /\ LeftOnce(s, id)' <=> LeftOnce(s, id)
          /\ slot'[s].state = slot[s].state /\ slot'[s].connectID = slot[s].connectID
        BY <1>1, <2>3, SlotKept
    <2>6. /\ OlderWaited(s, k) => OlderWaited(s, k)'
          /\ CopiesWaited(s, k) => CopiesWaited(s, k)'
          /\ NoneOlder(k) => NoneOlder(k)'
          /\ NoCopies(k) => NoCopies(k)'
        BY <1>1, <2>3, ConnectsWaited
    <2>7. SlotKnows(x)'
        BY <2>2, <2>3, <2>5, <2>6 DEF DatagramNames, SlotKnows
    <2>8. ReportedOnce(x)'
        BY <1>1, <2>2, <2>3, <2>5, <2>6 DEF DatagramNames, ReportedOnce
    <2> QED  BY <2>4, <2>7, <2>8 DEF DatagramNames
<1>4. ASSUME NEW b \in Clients, client'[b].state = "CONNECTED" PROVE ClientNames(b)'
    <2>1. PICK s, k, id : /\ s = client[b].outgoingPeerID /\ k = client[b].connectID
                          /\ id = client[b].outgoingSessionID
        OBVIOUS
    <2>2. b # c
        BY <1>1, <1>4 DEF Ends
    <2>3. /\ client[b].state = "CONNECTED" /\ client'[b].outgoingPeerID = s
          /\ client'[b].connectID = k /\ client'[b].outgoingSessionID = id
          /\ client'[b].incomingSessionID = client[b].incomingSessionID
        BY <1>1, <1>4, <2>1, <2>2 DEF Alike
    <2>4. s \in Slots /\ k \in Connections /\ ClientNames(b)
        BY <2>1, <2>3, ClientParts DEF NamesInv
    <2>5. /\ Serves(s, k, id)' <=> Serves(s, k, id)
          /\ LeftOnce(s, id)' <=> LeftOnce(s, id)
          /\ slot'[s].state = slot[s].state
          /\ slot'[s].outgoingSessionID = slot[s].outgoingSessionID
        BY <1>1, <2>4, SlotKept
    <2>6. /\ OlderWaited(s, k) => OlderWaited(s, k)'
          /\ CopiesWaited(s, k) => CopiesWaited(s, k)'
        BY <1>1, <2>4, ConnectsWaited
    <2>7. LeftOnce(s, id) => client'[b].waited = client[b].waited \cup {c}
        BY <1>1, <2>1, <2>2, <2>3, Alone
    <2>8. \/ Serves(s, k, id)' /\ slot'[s].outgoingSessionID = client[b].incomingSessionID
          \/ LeftOnce(s, id)' /\ s \in client'[b].waited /\ OlderWaited(s, k)'
        BY <2>1, <2>4, <2>5, <2>6, <2>7 DEF ClientNames
    <2>9. k \in reported => \/ Serves(s, k, id)' /\ slot'[s].state = "CONNECTED"
                            \/ LeftOnce(s, id)' /\ CopiesWaited(s, k)'
        BY <2>1, <2>4, <2>5, <2>6 DEF ClientNames
    <2> QED  BY <1>1, <2>3, <2>8, <2>9 DEF ClientNames
<1>5. /\ \A s \in Slots : slot'[s].state = "CONNECTED" => SlotNamed(s)'
      /\ \A k \in reported' : client'[k[1]].connectID = k => client'[k[1]].state = "CONNECTED"
    BY <1>1, ServerKept, ConnectionParts DEF Ends
<1> QED  BY <1>2, <1>3, <1>4, <1>5 DEF NamesInv

LEMMA SlotEndNames ==
    ASSUME FormInv, FormInv', NamesInv, NEW s \in Slots, SlotEndStep(s)
    PROVE  NamesInv'
<1>1. /\ slot[s].state # "DISCONNECTED" /\ Ends(slot'[s], slot[s])
      /\ \A t \in Slots \ {s} : Alike(slot'[t], slot[t])
      /\ \A c \in Clients :
             /\ Alike(client'[c], client[c])
             /\ client[c].state # "DISCONNECTED"
                /\ (ClientAlone(c) \/ client[c].connectID = slot[s].connectID)
                    => client'[c].waited = client[c].waited \cup {s}
             /\ ClientAlone(c) => s \notin client[c].waited
      /\ Waited(s) /\ reported' = reported
    BY DEF SlotEndStep
<1>2. \A k, id : /\ Serves(s, k, id) => LeftOnce(s, id)'
                 /\ ~Serves(s, k, id)'
    BY <1>1 DEF Serves, LeftOnce, Ends
<1>3. slot'[s].connectID = NoConnection /\ slot'[s].state = "DISCONNECTED"
    BY <1>1 DEF Ends
<1>4. ASSUME NEW t \in Slots \ {s}, NEW k, NEW id
      PROVE  /\ Serves(t, k, id)' <=> Serves(t, k, id)
             /\ LeftOnce(t, id)' <=> LeftOnce(t, id)
             /\ slot'[t].state = slot[t].state /\ slot'[t].connectID = slot[t].connectID
             /\ slot'[t].outgoingSessionID = slot[t].outgoingSessionID
    BY <1>1, SlotKept
<1>5. ASSUME NEW t \in Slots, NEW k \in Connections
      PROVE  /\ OlderWaited(t, k) => OlderWaited(t, k)'
             /\ CopiesWaited(t, k) => CopiesWaited(t, k)'
             /\ NoneOlder(k) => NoneOlder(k)'
             /\ NoCopies(k) => NoCopies(k)'
             /\ OlderWaited(s, k)' /\ CopiesWaited(s, k)'
             /\ OlderWaited(s, k) => NoneOlder(k)'
             /\ CopiesWaited(s, k) => NoCopies(k)'
    BY <1>1, ConnectsWaited
<1>6. ASSUME NEW x \in wire', x.command = "VERIFY_CONNECT"
      PROVE  VerifyNames(x)'
    <2>1. PICK d \in wire : /\ SameDatagram(x, d) /\ s \notin d.waited
                            /\ x.waited = d.waited \cup {s}
        BY <1>1 DEF Waited
    <2>2. PICK t, k, a, id : t = d.peerID /\ k = d.connectID /\ a = d.address /\ id = d.outgoing
        OBVIOUS
    <2>3. /\ t \in Slots /\ k \in Connections /\ a \in Clients /\ VerifyNames(d)
          /\ x.peerID = t /\ x.connectID = k /\ x.address = a
          /\ x.outgoing = id /\ x.incoming = d.incoming
        BY <1>6, <2>1, <2>2, DatagramParts DEF SameDatagram, NamesInv
    <2>4. /\ client'[a].state = client[a].state
          /\ client'[a].connectID = client[a].connectID
          /\ client[a].state = "CONNECTING" => client'[a].waited = client[a].waited \cup {s}
        BY <1>1, <2>3, Alone DEF Alike
    <2>5. CASE t = s
        <3>1. LeftOnce(s, id)'
            BY <1>2, <2>1, <2>2, <2>3, <2>5 DEF VerifyNames
        <3> QED  BY <1>5, <2>1, <2>3, <2>4, <2>5, <3>1 DEF VerifyNames
    <2>6. CASE t # s
        BY <1>4, <1>5, <2>1, <2>2, <2>3, <2>4, <2>6 DEF VerifyNames
    <2> QED  BY <2>5, <2>6
<1>7. ASSUME NEW x \in wire', ToServer(x)
      PROVE  DatagramNames(x)'
    <2>1. PICK d \in wire : /\ SameDatagram(x, d) /\ s \notin d.waited
                            /\ x.waited = d.waited \cup {s}
        BY <1>1 DEF Waited
    <2>2. PICK t, k, id : t = d.peerID /\ k = d.connectID /\ id = d.sessionID
        OBVIOUS
    <2>3. /\ t \in Slots /\ k \in Connections /\ d.address \in Clients /\ DatagramNames(d)
          /\ x.peerID = t /\ x.connectID = k /\ x.sessionID = id /\ ToServer(d)
        BY <1>7, <2>1, <2>2, DatagramParts DEF SameDatagram, NamesInv, ToServer
    <2>4. SenderAgrees(x)' /\ YoungerAvoid(x)' /\ OneName(x)'
        BY <1>1, <2>1, <2>3, SenderWaits
    <2>5. SlotKnows(x)'
        <3>1. CASE t = s
            BY <1>2, <1>5, <2>2, <2>3, <3>1 DEF DatagramNames, SlotKnows
        <3>2. CASE t # s
            BY <1>4, <1>5, <2>2, <2>3, <3>2 DEF DatagramNames, SlotKnows
        <3> QED  BY <3>1, <3>2
    <2>6. ReportedOnce(x)'
        <3>1. CASE t = s
            <4>1. slot'[s].connectID # k
                BY <1>3, <2>3, ConnectionParts
            <4>2. k \in reported => LeftOnce(s, id)' \/ NoCopies(k)'
                BY <1>2, <1>5, <2>2, <2>3, <3>1 DEF DatagramNames, ReportedOnce
            <4> QED  BY <1>1, <1>5, <2>3, <3>1, <4>1, <4>2 DEF ReportedOnce
        <3>2. CASE t # s
            BY <1>1, <1>4, <1>5, <2>2, <2>3, <3>2 DEF DatagramNames, ReportedOnce
        <3> QED  BY <3>1, <3>2
    <2> QED  BY <2>4, <2>5, <2>6 DEF DatagramNames
<1>8. ASSUME NEW c \in Clients, client'[c].state = "CONNECTED" PROVE ClientNames(c)'
    <2>1. PICK t, k, id : /\ t = client[c].outgoingPeerID /\ k = client[c].connectID
                          /\ id = client[c].outgoingSessionID
        OBVIOUS
    <2>2. /\ client[c].state = "CONNECTED" /\ client'[c].outgoingPeerID = t
          /\ client'[c].connectID = k /\ client'[c].outgoingSessionID = id
          /\ client'[c].incomingSessionID = client[c].incomingSessionID
        BY <1>1, <1>8, <2>1 DEF Alike
    <2>3. t \in Slots /\ k \in Connections /\ ClientNames(c)
        BY <2>1, <2>2, ClientParts DEF NamesInv
    <2>4. LeftOnce(t, id) => /\ client'[c].waited = client[c].waited \cup {s}
                             /\ s \notin client[c].waited
        BY <1>1, <2>1, <2>2, Alone
    <2>5. CASE t = s
        <3>1. Serves(s, k, id)
            BY <2>1, <2>3, <2>4, <2>5 DEF ClientNames
        <3>2. client'[c].waited = client[c].waited \cup {s}
            BY <1>1, <2>1, <2>2, <3>1 DEF Serves
        <3>3. LeftOnce(s, id)' /\ OlderWaited(s, k)' /\ CopiesWaited(s, k)'
            BY <1>2, <1>5, <2>3, <3>1
        <3> QED  BY <2>2, <2>5, <3>2, <3>3 DEF ClientNames
    <2>6. CASE t # s
        <3>1. \/ Serves(t, k, id)' /\ slot'[t].outgoingSessionID = client[c].incomingSessionID
              \/ LeftOnce(t, id)' /\ t \in client'[c].waited /\ OlderWaited(t, k)'
            BY <1>4, <1>5, <2>1, <2>3, <2>4, <2>6 DEF ClientNames
        <3>2. k \in reported => \/ Serves(t, k, id)' /\ slot'[t].state = "CONNECTED"
                                \/ LeftOnce(t, id)' /\ CopiesWaited(t, k)'
            BY <1>4, <1>5, <2>1, <2>3, <2>6 DEF ClientNames
        <3> QED  BY <1>1, <2>2, <3>1, <3>2 DEF ClientNames
    <2> QED  BY <2>5, <2>6
<1>9. \A k \in reported' : /\ k[1] \in Clients
                           /\ client'[k[1]].connectID = k => client'[k[1]].state = "CONNECTED"
    BY <1>1, ConnectionParts DEF NamesInv, FormInv, TypeOK, Alike
<1>10. ASSUME NEW t \in Slots, slot'[t].state = "CONNECTED" PROVE SlotNamed(t)'
    <2>1. t # s
        BY <1>3, <1>10
    <2>2. PICK k : k = slot[t].connectID
        OBVIOUS
    <2>3. /\ slot[t].state = "CONNECTED" /\ slot'[t].connectID = k
          /\ slot'[t].incomingSessionID = slot[t].incomingSessionID
        BY <1>1, <1>10, <2>1, <2>2 DEF Alike
    <2>4. SlotNamed(t)
        BY <2>3 DEF NamesInv
    <2>5. k \in reported' /\ Alike(client'[k[1]], client[k[1]])
        BY <1>1, <1>9, <2>2, <2>4 DEF SlotNamed
    <2> QED  BY <2>2, <2>3, <2>4, <2>5 DEF SlotNamed, Alike
<1> QED  BY <1>6, <1>7, <1>8, <1>9, <1>10 DEF NamesInv

-----------------------------------------------------------------------------
(* The invariant, and what follows from it.                                 *)
Inv == FormInv /\ NamesInv

LEMMA InitInv == Init => Inv
<1> SUFFICES ASSUME Init PROVE Inv
    OBVIOUS
<1>1. FormInv
    BY InitForm
<1>2. /\ \A c \in Clients : client[c].state = "DISCONNECTED"
      /\ \A s \in Slots : slot[s].state = "DISCONNECTED"
    BY DEF Init, NewPeer
<1>3. NamesInv
    BY <1>2 DEF Init, NamesInv
<1> QED  BY <1>1, <1>3 DEF Inv

\* Every step is one of those above.
Step ==
    \/ SendStep
    \/ \E c \in Clients : HostConnect(c) \/ ZombieStep(c) \/ DispatchZombie(c) \/ ClientEndStep(c)
    \/ \E c \in Clients, d \in wire : AcceptStep(c, d)
    \/ \E s \in Slots, d \in wire : TakeStep(s, d) \/ ConfirmStep(s, d)
    \/ \E s \in Slots : SlotEndStep(s)

LEMMA NextStep == FormInv /\ Next => FormInv' /\ Step
<1> SUFFICES ASSUME FormInv, Next PROVE FormInv' /\ Step
    OBVIOUS
<1>1. ASSUME SendStep PROVE FormInv' /\ Step
    BY <1>1, SendStepForm DEF Step
<1>2. ASSUME NEW c \in Clients, SendConnect(c) \/ ClientSends(c) PROVE FormInv' /\ Step
    <2>1. ClientSends(c) => SendStep
        <3> SUFFICES ASSUME ClientSends(c) PROVE SendStep
            OBVIOUS
        <3>1. /\ client[c].state = "CONNECTED" /\ Puts(FromClient(c, "DATA"))
              /\ UNCHANGED <<client, slot, asked, reported>>
            BY DEF ClientSends
        <3> QED  BY <3>1, ConnectedSendsStep
    <2> QED  BY <1>1, <1>2, <2>1, SendConnectStep
<1>3. ASSUME NEW s \in Slots, SendVerify(s) \/ SlotSends(s) PROVE FormInv' /\ Step
    BY <1>1, <1>3, SendVerifyStep, SlotSendsStep
<1>4. ASSUME NEW c \in Clients, HostConnect(c) \/ DispatchZombie(c) \/ ClientTimesOut(c)
      PROVE  FormInv' /\ Step
    BY <1>4, HostConnectStep, DispatchZombieStep, ClientTimesOutStep DEF Step
<1>5. ASSUME NEW c \in Clients, NEW d \in wire, ReceiveVerify(c, d) PROVE FormInv' /\ Step
    BY <1>1, <1>5, ReceiveVerifyStep DEF Step
<1>6. ASSUME NEW s \in Slots, NEW d \in wire, ReceiveConnect(s, d) \/ ReceiveAck(s, d)
      PROVE  FormInv' /\ Step
    BY <1>6, ReceiveConnectStep, ReceiveAckStep DEF Step
<1>7. ASSUME NEW s \in Slots, SlotTimesOut(s) PROVE FormInv' /\ Step
    BY <1>7, SlotTimesOutStep DEF Step
<1>8. ASSUME Lose PROVE FormInv' /\ Step
    BY <1>1, <1>8, LoseStep
<1> QED  BY <1>2, <1>3, <1>4, <1>5, <1>6, <1>7, <1>8 DEF Next

LEMMA NextInv == Inv /\ [Next]_vars => Inv'
<1> SUFFICES ASSUME Inv, [Next]_vars PROVE Inv'
    OBVIOUS
<1>1. FormInv /\ NamesInv
    BY DEF Inv
<1>2. CASE Next
    <2>1. FormInv' /\ Step
        BY <1>1, <1>2, NextStep
    <2>2. NamesInv'
        <3>1. CASE SendStep
            BY <1>1, <3>1, SendNames
        <3>2. ASSUME NEW c \in Clients,
                     HostConnect(c) \/ ZombieStep(c) \/ DispatchZombie(c) \/ ClientEndStep(c)
              PROVE  NamesInv'
            BY <1>1, <2>1, <3>2, HostConnectNames, ZombieNames, DispatchZombieNames,
               ClientEndNames
        <3>3. ASSUME NEW c \in Clients, NEW d \in wire, AcceptStep(c, d) PROVE NamesInv'
            BY <1>1, <2>1, <3>3, AcceptNames
        <3>4. ASSUME NEW s \in Slots, NEW d \in wire, TakeStep(s, d) \/ ConfirmStep(s, d)
              PROVE  NamesInv'
            BY <1>1, <2>1, <3>4, TakeNames, ConfirmNames
        <3>5. ASSUME NEW s \in Slots, SlotEndStep(s) PROVE NamesInv'
            BY <1>1, <2>1, <3>5, SlotEndNames
        <3> QED  BY <2>1, <3>1, <3>2, <3>3, <3>4, <3>5 DEF Step
    <2> QED  BY <2>1, <2>2 DEF Inv
<1>3. CASE UNCHANGED vars
    <2>1. \A x : Alike(x, x)
        BY DEF Alike
    <2>2. SendStep
        BY <1>1, <1>3, <2>1 DEF vars, SendStep, FormInv, TypeOK
    <2> QED  BY <1>1, <2>2, SendStepForm, SendNames DEF Inv
<1> QED  BY <1>2, <1>3

LEMMA SpecInv == Spec => []Inv
BY InitInv, NextInv, PTL DEF Spec

(* The types: no action makes a session ID of more than two bits, or a      *)
(* datagram that names no connection.                                       *)
THEOREM TypeCorrectness == Spec => []TypeOK
<1>1. Inv => TypeOK
    BY DEF Inv, FormInv
<1> QED  BY <1>1, SpecInv, PTL

(* The wire, the clients and the server name the same slot and session of   *)
(* a connection: what makes two bits of session ID enough for the server.   *)
THEOREM NamesInvariance == Spec => []NamesInv
<1>1. Inv => NamesInv
    BY DEF Inv
<1> QED  BY <1>1, SpecInv, PTL

(* A slot takes no datagram of another connection for its own, whichever    *)
(* client has had the slot before.                                          *)
THEOREM NoMixUpOfSlots == Spec => []NoMixUp
<1>1. Inv => NoMixUp
    <2> SUFFICES ASSUME Inv, NEW d \in wire, ToServer(d), Passes(slot[d.peerID], d)
                 PROVE  d.connectID = slot[d.peerID].connectID
        BY DEF NoMixUp
    <2>1. FormInv /\ NamesInv /\ d.peerID \in Slots
        BY DatagramParts DEF Inv, ToServer
    <2>2. slot[d.peerID].state # "DISCONNECTED" /\ d.address = slot[d.peerID].address
        BY DEF Passes
    <2>3. slot[d.peerID].outgoingPeerID = OnlyPeer
        BY <2>1, <2>2 DEF FormInv, SlotForm
    <2>4. d.sessionID = slot[d.peerID].incomingSessionID
        BY <2>3 DEF Passes, OnlyPeer, Nobody
    <2> QED  BY <2>1, <2>2, <2>4, SlotTakesOwn
<1> QED  BY <1>1, SpecInv, PTL

(* Two ends that both have a connection agree on the slot and on both       *)
(* session IDs.                                                             *)
THEOREM Agreement == Spec => []EndsAgree
<1>1. Inv => EndsAgree
    <2> SUFFICES ASSUME Inv, NEW c \in Clients, NEW s \in Slots,
                        Connected(slot[s], client[c].connectID), client[c].state = "CONNECTED"
                 PROVE  /\ client[c].outgoingPeerID = s /\ slot[s].address = c
                        /\ client[c].incomingSessionID = slot[s].outgoingSessionID
                        /\ client[c].outgoingSessionID = slot[s].incomingSessionID
        BY DEF EndsAgree
    <2>1. FormInv /\ NamesInv
        BY DEF Inv
    <2>2. /\ slot[s].state = "CONNECTED" /\ slot[s].connectID = client[c].connectID
          /\ client[c].connectID[1] = c
        BY <2>1, ClientParts DEF Connected
    <2>3. SlotNamed(s) /\ ClientNames(c)
        BY <2>1, <2>2 DEF NamesInv
    <2>4. client[c].outgoingPeerID = s /\ client[c].outgoingSessionID = slot[s].incomingSessionID
        BY <2>2, <2>3 DEF SlotNamed
    <2>5. slot[s].address = c
        BY <2>1, <2>2 DEF FormInv, SlotForm
    <2> QED  BY <2>2, <2>3, <2>4, <2>5 DEF ClientNames, LeftOnce
<1> QED  BY <1>1, SpecInv, PTL

-----------------------------------------------------------------------------
(* The two ends of a connection, step by step as Connection has them.       *)
ClientEndIs(k, end) ==
    LET peer == client[k[1]] IN
    end = IF ~AskedFor(k) THEN "none"
          ELSE IF peer.connectID # k THEN "over"
          ELSE IF peer.state = "CONNECTED" THEN "up" ELSE "asked"

ServerEndIs(k, end) ==
    end = IF \E s \in Slots : Connected(slot[s], k) THEN "up"
          ELSE IF k \in reported THEN "over" ELSE "none"

LEMMA EndsAre ==
    /\ Inv => \A k \in Connections : /\ ClientEndIs(k, ClientEnd(k))
                                          /\ ServerEndIs(k, ServerEnd(k))
    /\ Inv' => \A k \in Connections : /\ ClientEndIs(k, ClientEnd(k))'
                                           /\ ServerEndIs(k, ServerEnd(k))'
<1>1. ASSUME Inv, NEW k \in Connections
      PROVE  ClientEndIs(k, ClientEnd(k)) /\ ServerEndIs(k, ServerEnd(k))
    <2>1. /\ asked[k[1]] \in Nat /\ k[2] \in Nat /\ k[1] \in Clients
          /\ client[k[1]].connectID = k => AskedFor(k)
        BY <1>1, ConnectionParts DEF Inv, FormInv, TypeOK, ClientForm, AskedFor
    <2>2. asked[k[1]] < k[2] <=> ~AskedFor(k)
        BY <2>1 DEF AskedFor
    <2>3. ClientEndIs(k, ClientEnd(k))
        BY <2>1, <2>2 DEF ClientEnd, ClientEndIs, Connected
    <2>4. (\E s \in Slots : Connected(slot[s], k)) => k \in reported
        BY <1>1 DEF Inv, NamesInv, SlotNamed, Connected
    <2>5. ServerEndIs(k, ServerEnd(k))
        BY <2>4 DEF ServerEnd, ServerEndIs
    <2> QED  BY <2>3, <2>5
<1>2. ASSUME Inv', NEW k \in Connections
      PROVE  ClientEndIs(k, ClientEnd(k))' /\ ServerEndIs(k, ServerEnd(k))'
    <2>1. /\ (asked[k[1]])' \in Nat /\ k[2] \in Nat /\ k[1] \in Clients
          /\ (client[k[1]].connectID)' = k => AskedFor(k)'
        BY <1>2, ConnectionParts DEF Inv, FormInv, TypeOK, ClientForm, AskedFor
    <2>2. (asked[k[1]])' < k[2] <=> ~AskedFor(k)'
        BY <2>1 DEF AskedFor
    <2>3. ClientEndIs(k, ClientEnd(k))'
        BY <2>1, <2>2 DEF ClientEnd, ClientEndIs, Connected
    <2>4. (\E s \in Slots : Connected(slot[s], k))' => k \in reported'
        BY <1>2 DEF Inv, NamesInv, SlotNamed, Connected
    <2>5. ServerEndIs(k, ServerEnd(k))'
        BY <2>4 DEF ServerEnd, ServerEndIs
    <2> QED  BY <2>3, <2>5
<1> QED  BY <1>1, <1>2

\* One end of one connection moves.
LEMMA EndMoves ==
    ASSUME NEW k \in Connections,
           \A j \in Connections \ {k} :
               ClientEnd(j)' = ClientEnd(j) /\ ServerEnd(j)' = ServerEnd(j)
    PROVE  /\ /\ ServerEnd(k)' = ServerEnd(k)
              /\ \/ ClientEnd(k) = "none" /\ ClientEnd(k)' = "asked"
                 \/ ClientEnd(k) = "asked" /\ ClientEnd(k)' = "up"
                 \/ ClientEnd(k) \in {"asked", "up"} /\ ClientEnd(k)' = "over"
              => Handshake!Next
           /\ /\ ClientEnd(k)' = ClientEnd(k)
              /\ \/ /\ ClientEnd(k) \in {"up", "over"}
                    /\ ServerEnd(k) = "none" /\ ServerEnd(k)' = "up"
                 \/ ServerEnd(k) = "up" /\ ServerEnd(k)' = "over"
              => Handshake!Next
<1>1. ASSUME ServerEnd(k)' = ServerEnd(k),
             \/ ClientEnd(k) = "none" /\ ClientEnd(k)' = "asked"
             \/ ClientEnd(k) = "asked" /\ ClientEnd(k)' = "up"
             \/ ClientEnd(k) \in {"asked", "up"} /\ ClientEnd(k)' = "over"
      PROVE  Handshake!Next
    <2>1. ClientEnd(k) = "none" /\ ClientEnd(k)' = "asked" => Handshake!Ask(k)
        BY <1>1 DEF Handshake!Ask, Handshake!Moves
    <2>2. ClientEnd(k) = "asked" /\ ClientEnd(k)' = "up" => Handshake!ClientUp(k)
        BY <1>1 DEF Handshake!ClientUp, Handshake!Moves
    <2>3. ClientEnd(k) \in {"asked", "up"} /\ ClientEnd(k)' = "over" => Handshake!ClientOver(k)
        BY <1>1 DEF Handshake!ClientOver, Handshake!Moves
    <2> QED  BY <1>1, <2>1, <2>2, <2>3 DEF Handshake!Next
<1>2. ASSUME ClientEnd(k)' = ClientEnd(k),
             \/ /\ ClientEnd(k) \in {"up", "over"}
                /\ ServerEnd(k) = "none" /\ ServerEnd(k)' = "up"
             \/ ServerEnd(k) = "up" /\ ServerEnd(k)' = "over"
      PROVE  Handshake!Next
    <2>1. ClientEnd(k) \in {"up", "over"} /\ ServerEnd(k) = "none" /\ ServerEnd(k)' = "up"
              => Handshake!ServerUp(k)
        BY <1>2 DEF Handshake!ServerUp, Handshake!Moves
    <2>2. ServerEnd(k) = "up" /\ ServerEnd(k)' = "over" => Handshake!ServerOver(k)
        BY <1>2 DEF Handshake!ServerOver, Handshake!Moves
    <2> QED  BY <1>2, <2>1, <2>2 DEF Handshake!Next
<1> QED  BY <1>1, <1>2

LEMMA EndsKept ==
    ASSUME Inv, Inv', NEW k \in Connections
    PROVE  /\ Alike(client'[k[1]], client[k[1]]) /\ asked'[k[1]] = asked[k[1]]
                  => ClientEnd(k)' = ClientEnd(k)
           /\ reported' = reported /\ (\A s \in Slots : Alike(slot'[s], slot[s]))
                  => ServerEnd(k)' = ServerEnd(k)
<1>1. ASSUME Alike(client'[k[1]], client[k[1]]), asked'[k[1]] = asked[k[1]]
      PROVE  ClientEnd(k)' = ClientEnd(k)
    BY <1>1, EndsAre DEF ClientEndIs, Alike, AskedFor
<1>2. ASSUME reported' = reported, \A s \in Slots : Alike(slot'[s], slot[s])
      PROVE  ServerEnd(k)' = ServerEnd(k)
    BY <1>2, EndsAre DEF ServerEndIs, Alike, Connected
<1> QED  BY <1>1, <1>2

\* A step of a client moves its end of its connection.
LEMMA ClientEndMoves ==
    ASSUME Inv, Inv', NEW c \in Clients, NEW k \in Connections, k[1] = c,
           \A b \in Clients \ {c} : Alike(client'[b], client[b]) /\ asked'[b] = asked[b],
           reported' = reported, \A s \in Slots : Alike(slot'[s], slot[s]),
           \A j \in Connections \ {k} : j[1] = c => ClientEnd(j)' = ClientEnd(j),
           \/ ClientEnd(k) = "none" /\ ClientEnd(k)' = "asked"
           \/ ClientEnd(k) = "asked" /\ ClientEnd(k)' = "up"
           \/ ClientEnd(k) \in {"asked", "up"} /\ ClientEnd(k)' = "over"
    PROVE  Handshake!Next
<1>1. \A j \in Connections : ServerEnd(j)' = ServerEnd(j)
    BY EndsKept
<1>2. \A j \in Connections \ {k} : ClientEnd(j)' = ClientEnd(j)
    BY EndsKept, ConnectionParts
<1> QED  BY <1>1, <1>2, EndMoves

LEMMA AsksOf ==
    ASSUME Inv, Inv', NEW c \in Clients, HostConnect(c)
    PROVE  Handshake!Next
<1>1. PICK n : n = asked[c] + 1
    OBVIOUS
<1>2. /\ FormInv /\ ClientForm(c) /\ asked[c] \in Nat
      /\ asked'[c] = n /\ asked' \in [Clients -> 0..MaxConnects]
    BY <1>1, HostConnectStep, ConnectionParts DEF Inv, FormInv, TypeOK
<1>3. /\ client[c].connectID = NoConnection /\ client'[c].connectID = <<c, n>>
      /\ client'[c].state = "CONNECTING" /\ n \in 1..MaxConnects
      /\ \A b \in Clients \ {c} : client'[b] = client[b] /\ asked'[b] = asked[b]
      /\ slot' = slot /\ reported' = reported
    BY <1>1, <1>2, HostConnectStep, ConnectionParts DEF ClientForm
<1>4. PICK k \in Connections : k = <<c, n>> /\ k[1] = c /\ k[2] = n
    BY <1>3, ConnectionParts
<1>5. ClientEnd(k) = "none" /\ ClientEnd(k)' = "asked"
    BY <1>1, <1>2, <1>3, <1>4, EndsAre DEF ClientEndIs, AskedFor
<1>6. ASSUME NEW j \in Connections \ {k}, j[1] = c PROVE ClientEnd(j)' = ClientEnd(j)
    <2>1. j[2] # n /\ j[2] \in Nat /\ j # NoConnection
        BY <1>4, <1>6, ConnectionParts
    <2>2. AskedFor(j)' <=> AskedFor(j)
        BY <1>1, <1>2, <1>6, <2>1 DEF AskedFor
    <2> QED  BY <1>3, <1>4, <1>6, <2>1, <2>2, EndsAre DEF ClientEndIs
<1>7. \A x : Alike(x, x)
    BY DEF Alike
<1> QED  BY <1>3, <1>4, <1>5, <1>6, <1>7, ClientEndMoves

\* The connection that the client asks for or has is up, or over.
LEMMA ConnectionEnds ==
    ASSUME Inv, Inv', NEW c \in Clients, client[c].state # "DISCONNECTED",
           client'[c].connectID \in {client[c].connectID, NoConnection},
           client'[c].connectID = client[c].connectID => client[c].state # "CONNECTED",
           client'[c].connectID = client[c].connectID => client'[c].state = "CONNECTED",
           \A b \in Clients \ {c} : Alike(client'[b], client[b]),
           asked' = asked, reported' = reported, \A s \in Slots : Alike(slot'[s], slot[s])
    PROVE  Handshake!Next
<1>1. PICK k \in Connections : k = client[c].connectID /\ k[1] = c /\ AskedFor(k)
    BY ClientParts DEF Inv
<1>2. AskedFor(k)' /\ k # NoConnection
    BY <1>1, ConnectionParts DEF AskedFor
<1>3. \/ ClientEnd(k) = "asked" /\ ClientEnd(k)' = "up"
      \/ ClientEnd(k) \in {"asked", "up"} /\ ClientEnd(k)' = "over"
    BY <1>1, <1>2, EndsAre DEF ClientEndIs
<1>4. ASSUME NEW j \in Connections \ {k}, j[1] = c PROVE ClientEnd(j)' = ClientEnd(j)
    <2>1. j # client[c].connectID /\ j # client'[c].connectID
        BY <1>1, <1>4, ConnectionParts
    <2>2. AskedFor(j)' <=> AskedFor(j)
        BY DEF AskedFor
    <2> QED  BY <1>4, <2>1, <2>2, EndsAre DEF ClientEndIs
<1> QED  BY <1>1, <1>3, <1>4, ClientEndMoves

LEMMA ConfirmsOnce ==
    ASSUME Inv, Inv', NEW s \in Slots, NEW d \in wire, ConfirmStep(s, d)
    PROVE  Handshake!Next
<1>1. PICK k : k = slot[s].connectID
    OBVIOUS
<1>2. /\ ToServer(d) /\ d.peerID = s
      /\ d.address = slot[s].address /\ d.sessionID = slot[s].incomingSessionID
      /\ slot[s].state = "ACKNOWLEDGING_CONNECT" /\ slot'[s].state = "CONNECTED"
      /\ slot'[s].connectID = k
      /\ \A t \in Slots \ {s} : slot'[t] = slot[t]
      /\ reported' = reported \cup {k} /\ client' = client /\ asked' = asked
    BY <1>1 DEF ConfirmStep
<1>3. FormInv /\ NamesInv
    BY DEF Inv
<1>4. d.connectID = k
    BY <1>1, <1>2, <1>3, SlotTakesOwn
<1>5. k \in Connections /\ k[1] = d.address /\ AskedFor(k) /\ DatagramNames(d)
    BY <1>2, <1>3, <1>4, DatagramParts DEF NamesInv
<1>6. k \notin reported
    BY <1>1, <1>2, <1>4, <1>5 DEF DatagramNames, ReportedOnce, Serves, LeftOnce
<1>7. ClientEnd(k) \in {"up", "over"}
    <2>1. client[k[1]].connectID = k => client[k[1]].state = "CONNECTED"
        BY <1>4, <1>5 DEF DatagramNames, SenderAgrees
    <2> QED  BY <1>5, <2>1, EndsAre DEF ClientEndIs
<1>8. ServerEnd(k) = "none"
    <2>1. ASSUME NEW t \in Slots, Connected(slot[t], k) PROVE k \in reported
        BY <1>3, <2>1 DEF NamesInv, SlotNamed, Connected
    <2> QED  BY <1>5, <1>6, <2>1, EndsAre DEF ServerEndIs
<1>9. ServerEnd(k)' = "up"
    BY <1>2, <1>5, EndsAre DEF ServerEndIs, Connected
<1>10. ASSUME NEW j \in Connections \ {k} PROVE ServerEnd(j)' = ServerEnd(j)
    <2>1. \A t \in Slots : Connected(slot[t], j)' <=> Connected(slot[t], j)
        BY <1>1, <1>2, <1>10 DEF Connected
    <2> QED  BY <1>2, <1>10, <2>1, EndsAre DEF ServerEndIs
<1>11. \A j \in Connections : ClientEnd(j)' = ClientEnd(j)
    BY <1>2 DEF ClientEnd, Connected
<1> QED  BY <1>5, <1>7, <1>8, <1>9, <1>10, <1>11, EndMoves

\* A slot that has not reported its connection ends it unseen.
LEMMA SlotEnds ==
    ASSUME Inv, Inv', NEW s \in Slots, SlotEndStep(s)
    PROVE  Handshake!Next \/ UNCHANGED Handshake!endVars
<1>1. PICK k : k = slot[s].connectID
    OBVIOUS
<1>2. /\ slot[s].state # "DISCONNECTED" /\ slot'[s].state = "DISCONNECTED"
      /\ \A t \in Slots \ {s} : Alike(slot'[t], slot[t])
      /\ \A c \in Clients : Alike(client'[c], client[c])
      /\ asked' = asked /\ reported' = reported
    BY DEF SlotEndStep, Ends
<1>3. k \in Connections /\ \A t \in Slots \ {s} : slot[t].connectID # k
    BY <1>1, <1>2 DEF Inv, FormInv, SlotForm
<1>4. \A j \in Connections : ClientEnd(j)' = ClientEnd(j)
    BY <1>2, EndsKept, ConnectionParts
<1>5. ASSUME NEW j \in Connections, j # k \/ slot[s].state # "CONNECTED"
      PROVE  ServerEnd(j)' = ServerEnd(j)
    <2>1. \A t \in Slots : Connected(slot[t], j)' <=> Connected(slot[t], j)
        BY <1>1, <1>2, <1>5 DEF Connected, Alike
    <2> QED  BY <1>2, <2>1, EndsAre DEF ServerEndIs
<1>6. CASE slot[s].state = "CONNECTED"
    <2>1. k \in reported
        BY <1>1, <1>6 DEF Inv, NamesInv, SlotNamed
    <2>2. \A t \in Slots : ~Connected(slot[t], k)'
        BY <1>2, <1>3 DEF Connected, Alike
    <2>3. ServerEnd(k) = "up" /\ ServerEnd(k)' = "over"
        BY <1>1, <1>2, <1>3, <1>6, <2>1, <2>2, EndsAre DEF ServerEndIs, Connected
    <2> QED  BY <1>3, <1>4, <1>5, <2>3, EndMoves
<1>7. CASE slot[s].state # "CONNECTED"
    BY <1>4, <1>5, <1>7 DEF Handshake!endVars
<1> QED  BY <1>6, <1>7

LEMMA InitEnds == Init => Handshake!Init
<1> SUFFICES ASSUME Init PROVE Handshake!Init
    OBVIOUS
<1>1. Inv
    BY InitInv
<1>2. /\ \A c \in Clients : asked[c] = 0
      /\ \A s \in Slots : slot[s].state = "DISCONNECTED"
      /\ reported = {}
    BY DEF Init, NewPeer
<1>3. ASSUME NEW k \in Connections PROVE ClientEnd(k) = "none" /\ ServerEnd(k) = "none"
    <2>1. ~AskedFor(k)
        BY <1>2, ConnectionParts DEF AskedFor
    <2>2. \A s \in Slots : ~Connected(slot[s], k)
        BY <1>2 DEF Connected
    <2> QED  BY <1>1, <1>2, <2>1, <2>2, EndsAre DEF ClientEndIs, ServerEndIs
<1> QED  BY <1>3 DEF Handshake!Init

LEMMA NextEnds == Inv /\ Inv' /\ [Next]_vars => [Handshake!Next]_Handshake!endVars
<1> SUFFICES ASSUME Inv, Inv', [Next]_vars PROVE Handshake!Next \/ UNCHANGED Handshake!endVars
    OBVIOUS
<1>1. \A x : Alike(x, x)
    BY DEF Alike
<1>2. ASSUME SendStep PROVE UNCHANGED Handshake!endVars
    <2>1. ASSUME NEW k \in Connections
          PROVE  ClientEnd(k)' = ClientEnd(k) /\ ServerEnd(k)' = ServerEnd(k)
        BY <1>2, EndsKept, ConnectionParts DEF SendStep
    <2> QED  BY <2>1 DEF Handshake!endVars
<1>3. ASSUME NEW c \in Clients, ZombieStep(c) PROVE UNCHANGED Handshake!endVars
    <2>1. ASSUME NEW k \in Connections
          PROVE  ClientEnd(k)' = ClientEnd(k) /\ ServerEnd(k)' = ServerEnd(k)
        <3>1. AskedFor(k)' <=> AskedFor(k)
            BY <1>3 DEF ZombieStep, AskedFor
        <3>2. /\ client'[k[1]].connectID = client[k[1]].connectID
              /\ client'[k[1]].state = "CONNECTED" <=> client[k[1]].state = "CONNECTED"
            BY <1>3, ConnectionParts DEF ZombieStep
        <3>3. ClientEnd(k)' = ClientEnd(k)
            BY <3>1, <3>2, EndsAre DEF ClientEndIs
        <3> QED  BY <1>1, <1>3, <3>3, EndsKept DEF ZombieStep
    <2> QED  BY <2>1 DEF Handshake!endVars
<1>4. ASSUME NEW c \in Clients, HostConnect(c) PROVE Handshake!Next
    BY <1>4, AsksOf
<1>5. ASSUME NEW c \in Clients, DispatchZombie(c) PROVE Handshake!Next
    <2>1. /\ client[c].state = "ZOMBIE" /\ client'[c].connectID = NoConnection
          /\ \A b \in Clients \ {c} : client'[b] = client[b]
          /\ slot' = slot /\ asked' = asked /\ reported' = reported
        BY <1>5, DispatchZombieStep DEF Inv, Ends
    <2>2. client[c].connectID # NoConnection
        BY <2>1, ClientParts, ConnectionParts DEF Inv
    <2> QED  BY <1>1, <2>1, <2>2, ConnectionEnds
<1>6. ASSUME NEW c \in Clients, ClientEndStep(c) PROVE Handshake!Next
    <2>1. /\ client[c].state # "DISCONNECTED" /\ client'[c].connectID = NoConnection
          /\ \A b \in Clients \ {c} : Alike(client'[b], client[b])
          /\ \A s \in Slots : Alike(slot'[s], slot[s])
          /\ asked' = asked /\ reported' = reported
        BY <1>6 DEF ClientEndStep, Ends
    <2>2. client[c].connectID # NoConnection
        BY <2>1, ClientParts, ConnectionParts DEF Inv
    <2> QED  BY <2>1, <2>2, ConnectionEnds
<1>7. ASSUME NEW c \in Clients, NEW d \in wire, AcceptStep(c, d) PROVE Handshake!Next
    BY <1>1, <1>7, ConnectionEnds DEF AcceptStep
<1>8. ASSUME NEW s \in Slots, NEW d \in wire, TakeStep(s, d) PROVE UNCHANGED Handshake!endVars
    <2>1. ASSUME NEW k \in Connections
          PROVE  ClientEnd(k)' = ClientEnd(k) /\ ServerEnd(k)' = ServerEnd(k)
        <3>1. \A t \in Slots : Connected(slot[t], k)' <=> Connected(slot[t], k)
            BY <1>8 DEF TakeStep, Connected
        <3>2. ServerEnd(k)' = ServerEnd(k)
            BY <1>8, <3>1, EndsAre DEF ServerEndIs, TakeStep
        <3> QED  BY <1>1, <1>8, <3>2, EndsKept DEF TakeStep
    <2> QED  BY <2>1 DEF Handshake!endVars
<1>9. ASSUME NEW s \in Slots, NEW d \in wire, ConfirmStep(s, d) PROVE Handshake!Next
    BY <1>9, ConfirmsOnce
<1>10. ASSUME NEW s \in Slots, SlotEndStep(s)
       PROVE  Handshake!Next \/ UNCHANGED Handshake!endVars
    BY <1>10, SlotEnds
<1>11. CASE Next
    <2>1. Step
        BY <1>11, NextStep DEF Inv
    <2> QED  BY <2>1, <1>2, <1>3, <1>4, <1>5, <1>6, <1>7, <1>8, <1>9, <1>10 DEF Step
<1>12. CASE UNCHANGED vars
    <2>1. SendStep
        BY <1>1, <1>12 DEF vars, SendStep, Inv, FormInv, TypeOK
    <2> QED  BY <1>2, <2>1
<1> QED  BY <1>11, <1>12

(* Every connection is asked for, up and over at each end in the order      *)
(* Connection gives, and reported by the server once, and only when the     *)
(* client has had it.                                                       *)
THEOREM Refinement == Spec => KeepsOrder
BY InitEnds, NextEnds, NextInv, SpecInv, PTL DEF Spec, KeepsOrder, Handshake!InOrder

=============================================================================
