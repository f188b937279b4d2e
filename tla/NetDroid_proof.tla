--------------------------- MODULE NetDroid_proof ---------------------------
(***************************************************************************)
(* What TLC checks of the session for two clients, proved for any number   *)
(* of clients, slots, losses, resends and damaged scripts: IInv of NetDroid *)
(* is inductive, and from it follow the types, that the server finds a     *)
(* peer for every request it handles, and that no client forgets a request. *)
(* With one client AsksOnce is inductive besides, so that it never has two *)
(* requests queued.  IDInv is inductive besides, so that the ID a client is *)
(* told leads to it, and is there before the script, as long as the server  *)
(* has written nothing into freed channels (~wild).                         *)
(***************************************************************************)
EXTENDS NetDroid, SequenceTheorems, TLAPS

Modes == {"REQUEST_WAIT", "REQUEST_INIT_SCRIPT", "WAIT_FOR_INIT_SCRIPT",
"SPLASH_SCREEN"}

\* the types of the variables that hold no ID and no game event
RestTypeOK ==
    /\ link \in [Clients -> {"idle", "connecting", "connected", "cut", "lost"}]
    /\ occupant \in [Slots -> Clients \cup {NoClient}]
    /\ open \subseteq Slots
    /\ cuts \in 0..MaxCuts
    /\ peers \in Seq(Copies)
    /\ serverPC \in {"idle", "sendID"}
    /\ adrift \subseteq Nat
    /\ wild \in BOOLEAN
    /\ serverUp \in BOOLEAN
    /\ currentMode \in [Clients -> Modes]
    /\ sentInitRequest \in [Clients -> BOOLEAN]
    /\ hasAddress \in [Clients -> BOOLEAN]
    /\ hasID \in [Clients -> BOOLEAN]
    /\ scriptOne \in [Clients -> BOOLEAN]
    /\ ran \in [Clients -> BOOLEAN]
    /\ requestQueue \in [Clients -> Nat]
    /\ mainPC \in [Clients -> {"frame", "requeue", "ended"}]
    /\ netPC \in [Clients -> {"idle", "load", "again", "ended"}]
    /\ cached \in [Clients -> {"none", "fresh", "stale"}]
    /\ splash \in [Clients -> {"none", "surface", "texture"}]
    /\ corrupted \in 0..MaxCorrupt
    /\ refused \subseteq Clients \X {"script", "image"}

LEMMA HeadTail ==
  ASSUME NEW S, NEW q \in Seq(S), q # << >>
  PROVE  /\ Head(q) \in S /\ Tail(q) \in Seq(S)
         /\ Head(q) = q[1] /\ Len(q) \in Nat \ {0}
BY HeadTailProperties, EmptySeq

LEMMA RefuseIn ==
  ASSUME NEW c \in Clients, NEW what \in {"script", "image"}, Refuse(c, what),
         refused \subseteq Clients \X {"script", "image"}
  PROVE  refused' \subseteq Clients \X {"script", "image"}
BY DEF Refuse

LEMMA SendIn ==
  ASSUME NEW id \in Nat, NEW packet, SendThrough(id, packet), RestTypeOK
  PROVE  adrift' \subseteq Nat /\ wild' \in BOOLEAN
BY DEF SendThrough, RestTypeOK

LEMMA RestStep ==
  ASSUME TypeOK, PeerToTell, [Next]_vars
  PROVE  RestTypeOK'
<1> USE TransportAssumption, SessionAssumption
<1>0. RestTypeOK
  BY DEF TypeOK, RestTypeOK, Modes, TransportTypeOK, ServerTypeOK, ClientTypeOK
<1> USE DEF RestTypeOK, Modes
<1>1. ASSUME NEW c \in Clients, Cut(c), UNCHANGED <<serverVars, clientVars>>
      PROVE  RestTypeOK'
  BY <1>0, <1>1 DEF Cut, serverVars, clientVars, mainVars, networkVars, sharedVars
<1>2. ASSUME NEW c \in Clients, NEW s \in Slots, Accept(c, s), UNCHANGED <<serverVars, clientVars>>
      PROVE  RestTypeOK'
  BY <1>0, <1>2 DEF Accept, serverVars, clientVars, mainVars, networkVars, sharedVars
<1>3. ASSUME NEW s \in Slots, ServerMain(s) PROVE RestTypeOK'
  <2> USE <1>0, <1>3 DEF ServerMain, ServiceServer, clientVars, mainVars, networkVars,
         sharedVars
  <2>1. CASE ServiceConfirmation(s)
    BY <2>1 DEF ServiceConfirmation
  <2>2. CASE ServiceRequest(s)
    BY <2>2 DEF ServiceRequest
  <2>3. CASE ServiceGone(s)
    BY <2>3 DEF ServiceGone
  <2> QED
    BY <2>1, <2>2, <2>3
<1>4. CASE ServerNetwork
  <2> USE <1>0, <1>4 DEF ServerNetwork, transportVars, clientVars, mainVars,
         networkVars, sharedVars
  <2>1. CASE AddNewPeer
    <3>1. Head(networkEventsQueue) \in ServerEvents
      BY <2>1, HeadTail DEF AddNewPeer, NextServerEvent, TypeOK, ServerTypeOK
    <3>2. [slot |-> Head(networkEventsQueue).peer, client |-> occupant[Head(networkEventsQueue).peer],
           open |-> Head(networkEventsQueue).peer \in open] \in Copies
      BY <3>1 DEF Copies, ServerEvents
    <3> QED
      BY <2>1, <3>2 DEF AddNewPeer, ServerThread
  <2>2. CASE SendNewClientID
    <3>1. Len(peers) - 1 \in Nat
      BY <2>2, EmptySeq DEF SendNewClientID, SendsID, PeerToTell
    <3>2. adrift' \subseteq Nat /\ wild' \in BOOLEAN
      BY <1>0, <2>2, <3>1, SendIn DEF SendNewClientID, SendsID
    <3> QED
      BY <2>2, <3>2 DEF SendNewClientID, SendsID, ServerThread
  <2>3. CASE ProcessClientPacket
    <3>1. Head(networkEventsQueue).packet.id \in Nat
      <4>1. Head(networkEventsQueue) \in ServerEvents
        BY <2>3, HeadTail DEF ProcessClientPacket, NextServerEvent, TypeOK, ServerTypeOK
      <4> QED
        BY <2>3, <4>1 DEF ProcessClientPacket, NextServerEvent, ServerEvents, Requests
    <3>2. adrift' \subseteq Nat /\ wild' \in BOOLEAN
      BY <1>0, <2>3, <3>1, SendIn DEF ProcessClientPacket
    <3> QED
      BY <2>3, <3>2 DEF ProcessClientPacket, ServerThread
  <2>4. CASE HandleDisconnect
    BY <2>4 DEF HandleDisconnect, ServerThread
  <2> QED
    BY <2>1, <2>2, <2>3, <2>4 DEF ServerThread
<1>10. CASE ServerAbort
  BY <1>0, <1>10 DEF ServerAbort, Abort, AllCut, clientVars, mainVars, networkVars, sharedVars
<1>5. ASSUME NEW c \in Clients, Receive(c) PROVE RestTypeOK'
  <2> USE <1>0, <1>5 DEF Receive, ServiceClient, With, mainVars, networkVars,
         sharedVars, serverVars
  <2>1. CASE ServiceConnect(c)
    BY <2>1 DEF ServiceConnect
  <2>2. CASE ServicePacket(c)
    BY <2>2 DEF ServicePacket
  <2>3. CASE ServiceLoss(c)
    BY <2>3 DEF ServiceLoss
  <2> QED
    BY <2>1, <2>2, <2>3
<1>6. ASSUME NEW c \in Clients, Frame(c) PROVE RestTypeOK'
  <2> USE <1>0, <1>6 DEF Frame, mainVars, networkVars, sharedVars, serverVars,
         transportVars, With
  <2>1. ASSUME NEW mode \in Modes,
               NEW wire, ModeSwitch(c, mode, wire)
        PROVE  /\ currentMode' \in [Clients -> Modes]
               /\ sentInitRequest' \in [Clients -> BOOLEAN]
               /\ requestQueue' \in [Clients -> Nat]
    <3>1. CASE mode = "REQUEST_INIT_SCRIPT" /\ hasAddress[c] /\ ~sentInitRequest[c]
      <4>1. sentInitRequest' \in [Clients -> BOOLEAN]
        BY <2>1, <3>1 DEF ModeSwitch
      <4>2. requestQueue' \in [Clients -> Nat]
        <5>1. requestQueue' = Added(c)
          BY <2>1, <3>1 DEF ModeSwitch
        <5>2. requestQueue \in [Clients -> Nat] /\ requestQueue[c] + 1 \in Nat
          OBVIOUS
        <5> QED
          BY <5>1, <5>2, Zenon DEF Added
      <4>3. currentMode' \in [Clients -> Modes]
        BY <2>1, <3>1 DEF ModeSwitch
      <4> QED BY <4>1, <4>2, <4>3
    <3>2. CASE ~(mode = "REQUEST_INIT_SCRIPT" /\ hasAddress[c] /\ ~sentInitRequest[c])
      <4>1. UNCHANGED <<sentInitRequest, requestQueue>>
        BY <2>1, <3>2 DEF ModeSwitch
      <4>3. currentMode' \in [Clients -> Modes]
        BY <2>1, <3>2 DEF ModeSwitch
      <4> QED BY <4>1, <4>3
    <3> QED
      BY <3>1, <3>2
  <2>2. CASE NoGameEvent(c)
    BY <2>1, <2>2 DEF NoGameEvent
  <2>3. CASE RequestInitScript(c)
    BY <2>1, <2>3 DEF RequestInitScript, Takes
  <2>4. CASE RunClientInit(c)
    <3>1. /\ currentMode' \in [Clients -> Modes]
          /\ sentInitRequest' \in [Clients -> BOOLEAN]
          /\ requestQueue' \in [Clients -> Nat]
      <4>1. /\ currentMode[c] \in Modes
            /\ \E wire : ModeSwitch(c, currentMode[c], wire)
        BY <2>4 DEF RunClientInit
      <4> QED
        BY <2>1, <4>1
    <3>2. scriptOne' \in [Clients -> BOOLEAN] /\ ran' \in [Clients -> BOOLEAN]
      BY <2>4 DEF RunClientInit
    <3>3. UNCHANGED <<link, occupant, open, cuts, serverVars, networkVars, mainPC, splash,
                      corrupted>>
      BY <2>4 DEF RunClientInit, Takes
    <3>4. refused' \subseteq Clients \X {"script", "image"}
      BY <2>4, RefuseIn DEF RunClientInit
    <3> QED
      BY <3>1, <3>2, <3>3, <3>4
  <2>5. CASE UploadTexture(c)
    <3>1. refused' \subseteq Clients \X {"script", "image"}
      BY <2>5, RefuseIn DEF UploadTexture
    <3>2. splash' \in [Clients -> {"none", "surface", "texture"}]
      <4>1. \E v \in {"none", "surface", "texture"} : splash' = [splash EXCEPT ![c] = v]
        BY <2>5, Zenon DEF UploadTexture
      <4> QED
        BY <4>1
    <3>3. /\ currentMode' \in [Clients -> Modes]
          /\ sentInitRequest' \in [Clients -> BOOLEAN]
          /\ requestQueue' \in [Clients -> Nat]
      <4>1. currentMode[c] \in Modes /\ ModeSwitch(c, currentMode[c], up)
        BY <2>5 DEF UploadTexture
      <4> QED
        BY <2>1, <4>1
    <3>4. UNCHANGED <<link, occupant, open, cuts, serverVars, networkVars, mainPC, scriptOne,
                      ran, corrupted>>
      BY <2>5 DEF UploadTexture, Takes
    <3> QED
      BY <3>1, <3>2, <3>3, <3>4
  <2>6. CASE Postpone(c)
    BY <2>6 DEF Postpone
  <2>7. CASE Requeue(c)
    <3>1. /\ currentMode' \in [Clients -> Modes]
          /\ sentInitRequest' \in [Clients -> BOOLEAN]
          /\ requestQueue' \in [Clients -> Nat]
      <4>1. currentMode[c] \in Modes /\ ModeSwitch(c, currentMode[c], up)
        BY <2>7 DEF Requeue
      <4> QED
        BY <2>1, <4>1
    <3>2. mainPC' \in [Clients -> {"frame", "requeue", "ended"}]
      BY <2>7 DEF Requeue
    <3>3. UNCHANGED <<link, occupant, open, cuts, serverVars, networkVars, scriptOne, ran,
                      splash, corrupted, refused>>
      BY <2>7 DEF Requeue
    <3> QED
      BY <3>1, <3>2, <3>3
  <2> QED
    BY <2>2, <2>3, <2>4, <2>5, <2>6, <2>7 DEF ClientFrame
<1>7. ASSUME NEW c \in Clients, Handle(c) PROVE RestTypeOK'
  <2> USE <1>0, <1>7 DEF Handle, mainVars, networkVars, sharedVars, serverVars,
         transportVars, With, TakesEvent, TakesPacket
  <2>1. CASE ConnectEvent(c)
    BY <2>1 DEF ConnectEvent
  <2>6. CASE DisconnectEvent(c)
    BY <2>6 DEF DisconnectEvent
  <2>7. CASE UpdateClientPeerID(c)
    BY <2>7 DEF UpdateClientPeerID
  <2>2. CASE ScriptPacket(c)
    BY <2>2 DEF ScriptPacket, Removed
  <2>3. CASE RequestAgain(c)
    BY <2>3 DEF RequestAgain, Added
  <2>4. CASE LoadScript(c)
    <3>1. refused' \subseteq Clients \X {"script", "image"}
      BY <2>4, RefuseIn DEF LoadScript
    <3>2. cached' \in [Clients -> {"none", "fresh", "stale"}]
      <4>1. \/ UNCHANGED cached
            \/ \E v \in {"none", "fresh", "stale"} : cached' = [cached EXCEPT ![c] = v]
        BY <2>4, Zenon DEF LoadScript
      <4> QED
        BY <4>1
    <3>3. netPC' \in [Clients -> {"idle", "load", "again", "ended"}]
      BY <2>4 DEF LoadScript
    <3>4. UNCHANGED <<link, occupant, open, cuts, serverVars, mainVars, hasAddress, hasID,
                      requestQueue, splash, corrupted>>
      BY <2>4 DEF LoadScript
    <3> QED
      BY <3>1, <3>2, <3>3, <3>4
  <2>5. CASE ImagePacket(c)
    <3>1. refused' \subseteq Clients \X {"script", "image"}
      BY <2>5, RefuseIn DEF ImagePacket
    <3>2. splash' \in [Clients -> {"none", "surface", "texture"}]
      BY <2>5 DEF ImagePacket
    <3> QED
      BY <2>5, <3>1, <3>2 DEF ImagePacket
  <2>8. CASE BadImagePacket(c)
    <3>1. refused' \subseteq Clients \X {"script", "image"}
      BY <2>8, RefuseIn DEF BadImagePacket
    <3> QED
      BY <2>8, <3>1 DEF BadImagePacket, ClientGone
  <2> QED
    BY <2>1, <2>2, <2>3, <2>4, <2>5, <2>6, <2>7, <2>8 DEF ClientNetwork
<1>8. ASSUME NEW c \in Clients, Retry(c) PROVE RestTypeOK'
  BY <1>0, <1>8 DEF Retry, Resend, clientVars, mainVars, networkVars, sharedVars,
         serverVars
<1>9. CASE UNCHANGED vars
  BY <1>0, <1>9 DEF vars, transportVars, serverVars, clientVars, mainVars, networkVars,
         sharedVars
<1> QED
  BY <1>1, <1>2, <1>3, <1>4, <1>5, <1>6, <1>7, <1>8, <1>9, <1>10 DEF Next, Network
-----------------------------------------------------------------------------
LEMMA SamePeers ==
  ASSUME peers' = peers
  PROVE  /\ KnownIDs' = KnownIDs /\ KnownUp' = KnownUp /\ KnownDown' = KnownDown
         /\ KnownServerEvents' = KnownServerEvents
         /\ KnownClientEvents' = KnownClientEvents
BY DEF KnownIDs, KnownRequests, KnownUp, KnownData, KnownDown, KnownServerEvents,
       KnownClientEvents

LEMMA KnownValues ==
  /\ [type |-> "ACK"] \in KnownUp
  /\ \A p \in KnownUp : p.type # "ACK" => p \in KnownRequests
  /\ \A id \in KnownIDs, type \in {"INIT_SCRIPT", "IMAGE"} :
         [type |-> type, id |-> id] \in KnownUp
  /\ [type |-> "CONNECT"] \in KnownDown
  /\ \A p \in KnownDown : p.type # "CONNECT" => p \in KnownData
  /\ \A p \in KnownData : p \in KnownDown
  /\ \A id \in KnownIDs : [type |-> "NEW_CLIENT_ID", id |-> id] \in KnownDown
  /\ \A p \in KnownData : p.type = "NEW_CLIENT_ID" => p.id \in KnownIDs
  /\ \A good \in BOOLEAN : [type |-> "SCRIPT", good |-> good] \in KnownData
  /\ [type |-> "IMAGE"] \in KnownDown
  /\ \A type \in {"CONNECT", "DISCONNECT"}, s \in Slots :
         [type |-> type, peer |-> s] \in KnownServerEvents
  /\ \A s \in Slots, p \in KnownRequests :
         [type |-> "RECEIVE", peer |-> s, packet |-> p] \in KnownServerEvents
  /\ \A e \in KnownServerEvents : e.type = "RECEIVE" => e.packet \in KnownRequests
  /\ \A type \in {"CONNECT", "DISCONNECT"} : [type |-> type] \in KnownClientEvents
  /\ \A p \in KnownData : [type |-> "RECEIVE", packet |-> p] \in KnownClientEvents
  /\ \A e \in KnownClientEvents : e.type = "RECEIVE" => e.packet \in KnownData
BY DEF KnownRequests, KnownUp, KnownData, KnownDown, KnownServerEvents,
       KnownClientEvents

LEMMA WithIn ==
  ASSUME NEW T, NEW f \in [Clients -> T], NEW c \in Clients, NEW v \in T
  PROVE  With(f, c, v) \in [Clients -> T]
BY DEF With

LEMMA AppendIn ==
  ASSUME NEW T, NEW q \in Seq(T), NEW v \in T
  PROVE  Append(q, v) \in Seq(T) /\ Append(q, v) # << >> /\ <<v>> \in Seq(T)
<1>1. Append(q, v) \in Seq(T) /\ Append(q, v) # << >>
  BY AppendProperties
<1>2. <<v>> \in Seq(T)
  BY SeqDef
<1> QED
  BY <1>1, <1>2

LEMMA TailIn ==
  ASSUME NEW T, NEW f \in [Clients -> Seq(T)], NEW c \in Clients, f[c] # << >>
  PROVE  Head(f[c]) \in T /\ With(f, c, Tail(f[c])) \in [Clients -> Seq(T)]
<1>1. f[c] \in Seq(T)
  OBVIOUS
<1>2. Head(f[c]) \in T /\ Tail(f[c]) \in Seq(T)
  BY <1>1, HeadTail
<1> QED
  BY <1>2, WithIn

LEMMA AddIn ==
  ASSUME NEW T, NEW f \in [Clients -> Seq(T)], NEW c \in Clients, NEW v \in T
  PROVE  With(f, c, Append(f[c], v)) \in [Clients -> Seq(T)]
<1>1. f[c] \in Seq(T)
  OBVIOUS
<1>2. Append(f[c], v) \in Seq(T)
  BY <1>1, AppendIn
<1> QED
  BY <1>2, WithIn
-----------------------------------------------------------------------------
(* What is sent and queued has a known ID.                                  *)

LEMMA RequestKnown ==
  ASSUME IDsKnown, NEW c \in Clients, NEW type \in {"INIT_SCRIPT", "IMAGE"}
  PROVE  AfterRequest(up, c, type) \in [Clients -> Seq(KnownUp)]
<1> DEFINE request == [type |-> type, id |-> clientID[c]]
<1>1. request \in KnownUp
  BY KnownValues DEF IDsKnown
<1> HIDE DEF request
<1>2. up \in [Clients -> Seq(KnownUp)] /\ up[c] \in Seq(KnownUp)
  BY DEF IDsKnown
<1>3. Append(up[c], request) \in Seq(KnownUp)
  BY <1>1, <1>2, AppendIn
<1>4. UpAfter(up, c, request) \in [Clients -> Seq(KnownUp)]
  BY <1>2, <1>3 DEF UpAfter
<1> QED
  BY <1>4 DEF AfterRequest, request

LEMMA SwitchKnown ==
  ASSUME IDsKnown, NEW c \in Clients, NEW mode, NEW wire \in [Clients -> Seq(KnownUp)],
         ModeSwitch(c, mode, wire),
         wire = up \/ \E t \in {"INIT_SCRIPT", "IMAGE"} : wire = AfterRequest(up, c, t)
  PROVE  up' \in [Clients -> Seq(KnownUp)]
<1> DEFINE request == [type |-> "INIT_SCRIPT", id |-> clientID[c]]
<1>1. request \in KnownUp
  BY KnownValues DEF IDsKnown
<1> HIDE DEF request
<1>2. Append(wire[c], request) \in Seq(KnownUp)
  <2>1. wire[c] \in Seq(KnownUp)
    OBVIOUS
  <2> QED
    BY <1>1, <2>1, AppendIn
<1>3. UpAfter(wire, c, request) \in [Clients -> Seq(KnownUp)]
  BY <1>2 DEF UpAfter
<1>4. up' = wire \/ up' = UpAfter(wire, c, request)
  BY DEF ModeSwitch, AfterRequest, request
<1> QED
  BY <1>3, <1>4

LEMMA AnswerKnown ==
  ASSUME IDsKnown, NEW id, NEW packet \in KnownDown, SendThrough(id, packet)
  PROVE  down' \in [Clients -> Seq(KnownDown)]
<1>1. down \in [Clients -> Seq(KnownDown)]
  BY DEF IDsKnown
<1>2. ASSUME NEW c PROVE DownAfter(c, packet) \in [Clients -> Seq(KnownDown)]
  <2>1. CASE c \in Clients
    <3>1. down[c] \in Seq(KnownDown)
      BY <1>1, <2>1
    <3>2. Append(down[c], packet) \in Seq(KnownDown)
      BY <3>1, AppendIn
    <3> QED
      BY <1>1, <2>1, <3>2 DEF DownAfter
  <2>2. CASE c \notin Clients
    BY <1>1, <2>2 DEF DownAfter
  <2> QED
    BY <2>1, <2>2
<1>3. \/ UNCHANGED down
      \/ down' = DownAfter(occupant[PeerFromClientID(id).slot], packet)
  BY DEF SendThrough
<1> QED
  BY <1>1, <1>2, <1>3

LEMMA GivenKnown ==
  ASSUME IDsKnown, peers \in Seq(Copies), NEW e, peers' = Append(peers, e)
  PROVE  /\ KnownIDs \subseteq KnownIDs' /\ KnownUp \subseteq KnownUp'
         /\ KnownDown \subseteq KnownDown'
         /\ KnownServerEvents \subseteq KnownServerEvents'
         /\ KnownClientEvents \subseteq KnownClientEvents'
<1>1. Len(peers) \in Nat /\ Len(peers') = Len(peers) + 1
  OBVIOUS
<1>2. KnownIDs \subseteq KnownIDs'
  BY <1>1 DEF KnownIDs
<1> QED
  BY <1>2 DEF KnownRequests, KnownUp, KnownData, KnownDown, KnownServerEvents,
         KnownClientEvents

LEMMA WiderIn ==
  ASSUME NEW S, NEW T, S \subseteq T, NEW f \in [Clients -> Seq(S)]
  PROVE  f \in [Clients -> Seq(T)]
<1>1. ASSUME NEW c \in Clients PROVE f[c] \in Seq(T)
  <2>1. f[c] \in Seq(S)
    OBVIOUS
  <2> QED
    BY <2>1, SeqMonotonic
<1> QED
  BY <1>1

-----------------------------------------------------------------------------
LEMMA KnownStep ==
  ASSUME TypeOK, IDsKnown, PeerToTell, [Next]_vars
  PROVE  IDsKnown'
<1>1. ASSUME NEW c \in Clients, Cut(c), UNCHANGED <<serverVars, clientVars>>
      PROVE  IDsKnown'
  <2>1. UNCHANGED <<peers, clientID, networkEventsQueue, networkEventsQueueClient>>
    BY <1>1 DEF serverVars, clientVars, networkVars
  <2>2. << >> \in Seq(KnownUp) /\ << >> \in Seq(KnownDown)
    BY EmptySeq
  <2>3. up' \in [Clients -> Seq(KnownUp)] /\ down' \in [Clients -> Seq(KnownDown)]
    BY <1>1, <2>2 DEF Cut, IDsKnown
  <2> QED
    BY <2>1, <2>3, SamePeers DEF IDsKnown
<1>2. ASSUME NEW c \in Clients, NEW s \in Slots, Accept(c, s), UNCHANGED <<serverVars, clientVars>>
      PROVE  IDsKnown'
  <2>1. UNCHANGED <<peers, clientID, networkEventsQueue, networkEventsQueueClient>>
    BY <1>2 DEF serverVars, clientVars, networkVars
  <2>2. << [type |-> "CONNECT"] >> \in Seq(KnownDown)
    <3>1. [type |-> "CONNECT"] \in KnownDown
      BY KnownValues
    <3> QED
      BY <3>1, EmptySeq, AppendIn
  <2>3. up' \in [Clients -> Seq(KnownUp)] /\ down' \in [Clients -> Seq(KnownDown)]
    BY <1>2, <2>2 DEF Accept, IDsKnown
  <2> QED
    BY <2>1, <2>3, SamePeers DEF IDsKnown
<1>3. ASSUME NEW s \in Slots, ServerMain(s) PROVE IDsKnown'
  <2>1. UNCHANGED <<peers, clientID, down, networkEventsQueueClient>> /\ ServiceServer(s)
    BY <1>3 DEF ServerMain, ServiceServer, clientVars, networkVars
  <2>2. /\ occupant[s] \in Clients
        /\ networkEventsQueue \in Seq(KnownServerEvents)
        /\ up \in [Clients -> Seq(KnownUp)]
    BY <2>1 DEF ServiceServer, TypeOK, TransportTypeOK, IDsKnown
  <2>3. CASE ServiceConfirmation(s) \/ ServiceRequest(s)
    <3>1. /\ Head(up[occupant[s]]) \in KnownUp
          /\ up' \in [Clients -> Seq(KnownUp)]
      <4>1. ServerGets(s)
        BY <2>3 DEF ServiceConfirmation, ServiceRequest
      <4> QED
        BY <2>2, <4>1, TailIn DEF ServerGets, With
    <3>2. CASE ServiceConfirmation(s)
      <4>1. [type |-> "CONNECT", peer |-> s] \in KnownServerEvents
        BY KnownValues
      <4>2. networkEventsQueue' \in Seq(KnownServerEvents)
        BY <2>2, <3>2, <4>1, AppendIn DEF ServiceConfirmation
      <4> QED
        BY <2>1, <3>1, <4>2, SamePeers DEF IDsKnown
    <3>3. CASE ServiceRequest(s)
      <4>1. Head(up[occupant[s]]) \in KnownRequests
        BY <3>1, <3>3, KnownValues DEF ServiceRequest
      <4>2. [type |-> "RECEIVE", peer |-> s, packet |-> Head(up[occupant[s]])]
                \in KnownServerEvents
        BY <4>1, KnownValues
      <4>3. networkEventsQueue' \in Seq(KnownServerEvents)
        BY <2>2, <3>3, <4>2, AppendIn DEF ServiceRequest
      <4> QED
        BY <2>1, <3>1, <4>3, SamePeers DEF IDsKnown
    <3> QED
      BY <2>3, <3>2, <3>3
  <2>4. CASE ServiceGone(s)
    <3>1. [type |-> "DISCONNECT", peer |-> s] \in KnownServerEvents
      BY KnownValues
    <3>2. networkEventsQueue' \in Seq(KnownServerEvents) /\ up' = up
      BY <2>2, <2>4, <3>1, AppendIn DEF ServiceGone
    <3> QED
      BY <2>1, <3>2, SamePeers DEF IDsKnown
  <2> QED
    BY <2>1, <2>3, <2>4 DEF ServiceServer
<1>4. CASE ServerNetwork
  <2>1. UNCHANGED <<clientID, networkEventsQueueClient>>
    BY <1>4 DEF ServerNetwork, clientVars, networkVars
  <2>2. networkEventsQueue \in Seq(KnownServerEvents)
    BY DEF IDsKnown
  <2>3. ASSUME NEW type, NextServerEvent(type)
        PROVE  /\ Head(networkEventsQueue) \in KnownServerEvents
               /\ Tail(networkEventsQueue) \in Seq(KnownServerEvents)
    BY <2>2, <2>3, HeadTail DEF NextServerEvent
  <2>4. CASE AddNewPeer
    <3> DEFINE s == Head(networkEventsQueue).peer
    <3>1. /\ peers' = Append(peers, [slot |-> s, client |-> occupant[s], open |-> s \in open])
          /\ networkEventsQueue' \in Seq(KnownServerEvents)
          /\ UNCHANGED <<up, down>>
      BY <2>3, <2>4 DEF AddNewPeer, transportVars
    <3>2. peers \in Seq(Copies)
      BY DEF TypeOK, ServerTypeOK
    <3> HIDE DEF s
    <3>3. /\ KnownIDs \subseteq KnownIDs' /\ KnownUp \subseteq KnownUp'
          /\ KnownDown \subseteq KnownDown'
          /\ KnownServerEvents \subseteq KnownServerEvents'
          /\ KnownClientEvents \subseteq KnownClientEvents'
      BY <3>1, <3>2, GivenKnown
    <3>4. /\ clientID' \in [Clients -> KnownIDs']
          /\ up' \in [Clients -> Seq(KnownUp')]
          /\ down' \in [Clients -> Seq(KnownDown')]
          /\ networkEventsQueue' \in Seq(KnownServerEvents')
          /\ networkEventsQueueClient' \in [Clients -> Seq(KnownClientEvents')]
      <4>1. clientID' \in [Clients -> KnownIDs']
        BY <2>1, <3>3 DEF IDsKnown
      <4>2. up' \in [Clients -> Seq(KnownUp')]
        BY <3>1, <3>3, WiderIn DEF IDsKnown
      <4>3. down' \in [Clients -> Seq(KnownDown')]
        BY <3>1, <3>3, WiderIn DEF IDsKnown
      <4>4. networkEventsQueueClient' \in [Clients -> Seq(KnownClientEvents')]
        BY <2>1, <3>3, WiderIn DEF IDsKnown
      <4>5. networkEventsQueue' \in Seq(KnownServerEvents')
        BY <3>1, <3>3, SeqMonotonic
      <4> QED
        BY <4>1, <4>2, <4>3, <4>4, <4>5
    <3> QED
      BY <3>4 DEF IDsKnown
  <2>5. CASE SendNewClientID
    <3>1. /\ peers # << >> /\ peers \in Seq(Copies)
      BY <2>5 DEF SendNewClientID, SendsID, PeerToTell, TypeOK, ServerTypeOK
    <3>2. Len(peers) - 1 \in KnownIDs
      BY <3>1, EmptySeq DEF KnownIDs
    <3>3. [type |-> "NEW_CLIENT_ID", id |-> Len(peers) - 1] \in KnownDown
      BY <3>2, KnownValues
    <3>4. down' \in [Clients -> Seq(KnownDown)]
      BY <2>5, <3>3, AnswerKnown DEF SendNewClientID, SendsID
    <3>5. UNCHANGED <<up, networkEventsQueue, peers>>
      BY <2>5 DEF SendNewClientID, SendsID
    <3> QED
      BY <2>1, <3>4, <3>5, SamePeers DEF IDsKnown
  <2>6. CASE ProcessClientPacket
    <3> DEFINE request == Head(networkEventsQueue).packet
    <3>1. /\ SendThrough(request.id, Answer(request)) \/ UNCHANGED down
          /\ networkEventsQueue' \in Seq(KnownServerEvents)
          /\ UNCHANGED <<up, peers>>
      BY <2>3, <2>6 DEF ProcessClientPacket
    <3>2. Answer(request) \in KnownDown
      BY KnownValues DEF Answer
    <3> HIDE DEF request
    <3>3. down' \in [Clients -> Seq(KnownDown)]
      BY <3>1, <3>2, AnswerKnown DEF IDsKnown
    <3> QED
      BY <2>1, <3>1, <3>3, SamePeers DEF IDsKnown
  <2>7. CASE HandleDisconnect
    <3>1. /\ networkEventsQueue' \in Seq(KnownServerEvents)
          /\ UNCHANGED <<up, down, peers>>
      BY <2>3, <2>7 DEF HandleDisconnect, transportVars
    <3> QED
      BY <2>1, <3>1, SamePeers DEF IDsKnown
  <2> QED
    BY <1>4, <2>4, <2>5, <2>6, <2>7 DEF ServerNetwork, ServerThread
<1>10. CASE ServerAbort
  <2>1. UNCHANGED <<peers, clientID, networkEventsQueueClient>>
    BY <1>10 DEF ServerAbort, Abort, clientVars, networkVars
  <2>2. /\ << >> \in Seq(KnownUp) /\ << >> \in Seq(KnownDown)
        /\ << >> \in Seq(KnownServerEvents)
    BY EmptySeq
  <2>3. /\ up' \in [Clients -> Seq(KnownUp)] /\ down' \in [Clients -> Seq(KnownDown)]
        /\ networkEventsQueue' \in Seq(KnownServerEvents)
    BY <1>10, <2>2 DEF ServerAbort, Abort, AllCut
  <2> QED
    BY <2>1, <2>3, SamePeers DEF IDsKnown
<1>5. ASSUME NEW c \in Clients, Receive(c) PROVE IDsKnown'
  <2>1. UNCHANGED <<clientID, networkEventsQueue, peers>>
    BY <1>5 DEF Receive, ServiceClient, networkVars, serverVars
  <2>2. /\ up \in [Clients -> Seq(KnownUp)]
        /\ down \in [Clients -> Seq(KnownDown)]
        /\ networkEventsQueueClient \in [Clients -> Seq(KnownClientEvents)]
    BY DEF IDsKnown
  <2>3. ASSUME NEW e \in KnownClientEvents, AddClientEvent(c, e)
        PROVE  networkEventsQueueClient' \in [Clients -> Seq(KnownClientEvents)]
    BY <2>2, <2>3, AddIn DEF AddClientEvent
  <2>4. ASSUME ClientGets(c)
        PROVE  Head(down[c]) \in KnownDown /\ down' \in [Clients -> Seq(KnownDown)]
    BY <2>2, <2>4, TailIn DEF ClientGets
  <2>5. CASE ServiceConnect(c)
    <3>1. <<[type |-> "ACK"]>> \in Seq(KnownUp)
      <4>1. [type |-> "ACK"] \in KnownUp
        BY KnownValues
      <4> QED
        BY <4>1, EmptySeq, AppendIn
    <3>2. up' \in [Clients -> Seq(KnownUp)]
      BY <2>2, <2>5, <3>1, WithIn DEF ServiceConnect
    <3>3. [type |-> "CONNECT"] \in KnownClientEvents
      BY KnownValues
    <3> QED
      BY <2>1, <2>3, <2>4, <2>5, <3>2, <3>3, SamePeers DEF ServiceConnect, IDsKnown
  <2>6. CASE ServicePacket(c)
    <3>1. down' \in [Clients -> Seq(KnownDown)] /\ up' = up
      BY <2>4, <2>6 DEF ServicePacket
    <3>2. Head(down[c]) \in KnownData
      BY <2>4, <2>6, KnownValues DEF ServicePacket
    <3>3. /\ [type |-> "RECEIVE", packet |-> Head(down[c])] \in KnownClientEvents
          /\ [type |-> "RECEIVE", packet |-> [type |-> "SCRIPT", good |-> FALSE]]
                 \in KnownClientEvents
      BY <3>2, KnownValues
    <3>4. networkEventsQueueClient' \in [Clients -> Seq(KnownClientEvents)]
      BY <2>3, <2>6, <3>3 DEF ServicePacket
    <3> QED
      BY <2>1, <2>2, <3>1, <3>4, SamePeers DEF IDsKnown
  <2>7. CASE ServiceLoss(c)
    <3>1. [type |-> "DISCONNECT"] \in KnownClientEvents
      BY KnownValues
    <3> QED
      BY <2>1, <2>2, <2>3, <2>7, <3>1, SamePeers DEF ServiceLoss, IDsKnown
  <2> QED
    BY <1>5, <2>5, <2>6, <2>7 DEF Receive, ServiceClient
<1>6. ASSUME NEW c \in Clients, Frame(c) PROVE IDsKnown'
  <2>1. UNCHANGED <<clientID, networkEventsQueue, peers, down, networkEventsQueueClient>>
    BY <1>6 DEF Frame, ClientFrame, NoGameEvent, RequestInitScript, RunClientInit,
                UploadTexture, Takes, Postpone, Requeue, networkVars, serverVars,
                transportVars
  <2>2. up' \in [Clients -> Seq(KnownUp)]
    <3>1. up \in [Clients -> Seq(KnownUp)]
      BY DEF IDsKnown
    <3>2. AfterRequest(up, c, "IMAGE") \in [Clients -> Seq(KnownUp)]
      BY RequestKnown
    <3>3. \/ UNCHANGED up
          \/ \E mode : ModeSwitch(c, mode, up)
          \/ \E mode : ModeSwitch(c, mode, AfterRequest(up, c, "IMAGE"))
      BY <1>6, Zenon DEF Frame, ClientFrame, NoGameEvent, RequestInitScript,
             RunClientInit,
                UploadTexture, Postpone, Requeue, transportVars
    <3> QED
      BY <3>1, <3>2, <3>3, SwitchKnown
  <2> QED
    BY <2>1, <2>2, SamePeers DEF IDsKnown
<1>7. ASSUME NEW c \in Clients, Handle(c) PROVE IDsKnown'
  <2>1. /\ UNCHANGED <<networkEventsQueue, peers>>
        /\ up' \in [Clients -> Seq(KnownUp)] /\ down' \in [Clients -> Seq(KnownDown)]
    <3>1. UNCHANGED <<up, down>> \/ ClientGone(c)
      BY <1>7 DEF Handle, ClientNetwork, ConnectEvent, DisconnectEvent, UpdateClientPeerID,
                  ScriptPacket, RequestAgain, LoadScript, ImagePacket, BadImagePacket,
                  transportVars
    <3>2. << >> \in Seq(KnownUp) /\ << >> \in Seq(KnownDown)
      BY EmptySeq
    <3> QED
      BY <1>7, <3>1, <3>2 DEF Handle, serverVars, ClientGone, IDsKnown
  <2>2. /\ clientID \in [Clients -> KnownIDs]
        /\ networkEventsQueueClient \in [Clients -> Seq(KnownClientEvents)]
    BY DEF IDsKnown
  <2>3. ASSUME NEW type, TakesEvent(c, type)
        PROVE  /\ NextClientEvent(c) \in KnownClientEvents
               /\ networkEventsQueueClient' \in [Clients -> Seq(KnownClientEvents)]
    BY <2>2, <2>3, TailIn DEF TakesEvent, NextClientEvent
  <2>4. networkEventsQueueClient' \in [Clients -> Seq(KnownClientEvents)]
    BY <1>7, <2>2, <2>3 DEF Handle, ClientNetwork, ConnectEvent, DisconnectEvent,
           UpdateClientPeerID,
                ScriptPacket, RequestAgain, LoadScript, ImagePacket, BadImagePacket, TakesPacket
  <2>5. clientID' \in [Clients -> KnownIDs]
    <3>1. CASE UpdateClientPeerID(c)
      <4>1. /\ NextClientEvent(c).type = "RECEIVE"
            /\ NextClientEvent(c).packet.type = "NEW_CLIENT_ID"
            /\ NextClientEvent(c) \in KnownClientEvents
        BY <2>3, <3>1 DEF UpdateClientPeerID, TakesPacket, TakesEvent
      <4>2. NextClientEvent(c).packet.id \in KnownIDs
        BY <4>1, KnownValues
      <4> QED
        BY <2>2, <3>1, <4>2, WithIn DEF UpdateClientPeerID
    <3>2. CASE UNCHANGED clientID
      BY <2>2, <3>2
    <3> QED
      BY <1>7, <3>1, <3>2 DEF Handle, ClientNetwork, ConnectEvent, DisconnectEvent,
             ScriptPacket, RequestAgain, LoadScript, ImagePacket, BadImagePacket, networkVars
  <2> QED
    BY <2>1, <2>4, <2>5, SamePeers DEF IDsKnown
<1>8. ASSUME NEW c \in Clients, Retry(c) PROVE IDsKnown'
  <2>1. /\ UNCHANGED <<clientID, networkEventsQueue, peers, down, networkEventsQueueClient>>
        /\ up' = AfterRequest(up, c, "INIT_SCRIPT")
    BY <1>8 DEF Retry, Resend, clientVars, networkVars, serverVars
  <2> QED
    BY <2>1, RequestKnown, SamePeers DEF IDsKnown
<1>9. CASE UNCHANGED vars
  <2>1. UNCHANGED <<up, clientID, networkEventsQueue, peers, down, networkEventsQueueClient>>
    BY <1>9 DEF vars, transportVars, clientVars, networkVars, serverVars
  <2> QED
    BY <2>1, SamePeers DEF IDsKnown
<1> QED
  BY <1>1, <1>2, <1>3, <1>4, <1>5, <1>6, <1>7, <1>8, <1>9, <1>10 DEF Next, Network
-----------------------------------------------------------------------------
(* Connections come first.                                                  *)

\* wire is up, or up with packets of c's added behind
Grown(wire, c) ==
    /\ wire \in [Clients -> Seq(KnownUp)]
    /\ \A b \in Clients : b # c => wire[b] = up[b]
    /\ \/ wire[c] = up[c]
       \/ /\ link[c] = "connected" /\ wire[c] # << >>
          /\ up[c] # << >> => wire[c][1] = up[c][1]

LEMMA RequestGrows ==
  ASSUME IDsKnown, NEW c \in Clients, NEW wire, Grown(wire, c),
         NEW type \in {"INIT_SCRIPT", "IMAGE"}
  PROVE  Grown(AfterRequest(wire, c, type), c)
<1> DEFINE request == [type |-> type, id |-> clientID[c]]
<1>1. request \in KnownUp
  BY KnownValues DEF IDsKnown
<1> HIDE DEF request
<1>2. wire \in [Clients -> Seq(KnownUp)] /\ wire[c] \in Seq(KnownUp)
  BY DEF Grown
<1>3. /\ Append(wire[c], request) \in Seq(KnownUp)
      /\ Append(wire[c], request) # << >>
      /\ wire[c] # << >> => Append(wire[c], request)[1] = wire[c][1]
  <2>1. wire[c] # << >> => 1 \in 1..Len(wire[c])
    BY <1>2, EmptySeq
  <2> QED
    BY <1>1, <1>2, <2>1, AppendProperties
<1>4. Grown(UpAfter(wire, c, request), c)
  BY <1>2, <1>3 DEF UpAfter, Grown
<1> QED
  BY <1>4 DEF AfterRequest, request

LEMMA SwitchGrows ==
  ASSUME IDsKnown, NEW c \in Clients, NEW mode, NEW wire, Grown(wire, c),
         ModeSwitch(c, mode, wire)
  PROVE  Grown(up', c)
<1>1. up' = wire \/ up' = AfterRequest(wire, c, "INIT_SCRIPT")
  BY DEF ModeSwitch
<1> QED
  BY <1>1, RequestGrows

LEMMA OrderStep ==
  ASSUME TypeOK, IDsKnown, ConfirmsFirst, ConnectFirst, PeerToTell, [Next]_vars
  PROVE  ConfirmsFirst' /\ ConnectFirst' /\ PeerToTell'
<1>0. /\ networkEventsQueue \in Seq(KnownServerEvents)
      /\ Len(networkEventsQueue) \in Nat
      /\ peers \in Seq(Copies)
      /\ up \in [Clients -> Seq(KnownUp)]
      /\ link \in [Clients -> {"idle", "connecting", "connected", "cut", "lost"}]
  BY DEF IDsKnown, TypeOK, ServerTypeOK, TransportTypeOK
<1>1. ASSUME UNCHANGED <<networkEventsQueue, peers>>
      PROVE  (SeesConnect <=> SeesConnect') /\ ConnectFirst'
  BY <1>1 DEF SeesConnect, ConnectFirst, ConnectAt
<1>2. ASSUME UNCHANGED <<networkEventsQueue, peers, serverPC>>,
             NEW c \in Clients,
             \A b \in Clients : b # c => link'[b] = link[b] /\ up'[b] = up[b],
             \/ up'[c] = up[c] /\ (link'[c] = "connected" => link[c] = "connected")
             \/ link'[c] # "connected" /\ up'[c] = << >>
             \/ up'[c] # << >> /\ up'[c][1].type = "ACK"
             \/ link[c] = "connected" /\ up'[c] # << >>
                  /\ (up[c] # << >> => up'[c][1] = up[c][1])
      PROVE  ConfirmsFirst' /\ ConnectFirst' /\ PeerToTell'
  BY <1>1, <1>2 DEF ConfirmsFirst, PeerToTell
<1>3. ASSUME UNCHANGED peers, UNCHANGED serverPC,
             NEW e, networkEventsQueue' = Append(networkEventsQueue, e),
             \/ e.type = "CONNECT" \/ SeesConnect
             \/ e.type # "RECEIVE" /\ UNCHANGED <<link, up>>
      PROVE  ConfirmsFirst' /\ ConnectFirst' /\ PeerToTell'
  <2>1. /\ Len(networkEventsQueue') = Len(networkEventsQueue) + 1
        /\ \A i \in 1..Len(networkEventsQueue) :
               networkEventsQueue'[i] = networkEventsQueue[i]
        /\ networkEventsQueue'[Len(networkEventsQueue) + 1] = e
    BY <1>0, <1>3
  <2>2. SeesConnect => SeesConnect'
    BY <1>0, <1>3, <2>1 DEF SeesConnect, ConnectAt
  <2>3. e.type = "CONNECT" => SeesConnect'
    BY <1>0, <2>1 DEF SeesConnect, ConnectAt
  <2>4. ConfirmsFirst'
    BY <1>3, <2>2, <2>3 DEF ConfirmsFirst
  <2>5. ConnectFirst'
    BY <1>0, <1>3, <2>1 DEF ConnectFirst, SeesConnect, ConnectAt, ConfirmsFirst
  <2> QED
    BY <1>3, <2>4, <2>5 DEF PeerToTell
<1>4. ASSUME NEW c \in Clients, Cut(c), UNCHANGED <<serverVars, clientVars>>
      PROVE  ConfirmsFirst' /\ ConnectFirst' /\ PeerToTell'
  BY <1>0, <1>2, <1>4 DEF Cut, serverVars
<1>5. ASSUME NEW c \in Clients, NEW s \in Slots, Accept(c, s), UNCHANGED <<serverVars, clientVars>>
      PROVE  ConfirmsFirst' /\ ConnectFirst' /\ PeerToTell'
  BY <1>0, <1>2, <1>5 DEF Accept, serverVars
<1>6. ASSUME NEW s \in Slots, ServerMain(s)
      PROVE  ConfirmsFirst' /\ ConnectFirst' /\ PeerToTell'
  <2>1. /\ UNCHANGED <<link, peers, serverPC>> /\ occupant[s] \in Clients
    BY <1>6 DEF ServerMain, ServiceServer, TypeOK, TransportTypeOK
  <2>2. CASE ServiceConfirmation(s)
    <3> DEFINE e == [type |-> "CONNECT", peer |-> s]
    <3>1. networkEventsQueue' = Append(networkEventsQueue, e) /\ e.type = "CONNECT"
      BY <2>2 DEF ServiceConfirmation
    <3> HIDE DEF e
    <3> QED
      BY <1>3, <2>1, <3>1
  <2>3. CASE ServiceRequest(s)
    <3>1. /\ up[occupant[s]] # << >> /\ up[occupant[s]] \in Seq(KnownUp)
          /\ Head(up[occupant[s]]).type # "ACK"
      BY <1>0, <2>1, <2>3 DEF ServiceRequest, ServerGets
    <3>2. Head(up[occupant[s]]) = up[occupant[s]][1]
      BY <3>1, HeadTail
    <3>3. SeesConnect
      BY <2>1, <3>1, <3>2 DEF ConfirmsFirst
    <3> QED
      BY <1>3, <2>1, <2>3, <3>3, Zenon DEF ServiceRequest
  <2>4. CASE ServiceGone(s)
    BY <1>2, <1>3, <2>1, <2>4 DEF ServiceGone
  <2> QED
    BY <1>6, <2>2, <2>3, <2>4 DEF ServerMain, ServiceServer
<1>7. CASE ServerNetwork
  <2>1. ASSUME peers' # << >>, serverPC' = "idle" \/ peers' # << >>
        PROVE  ConfirmsFirst' /\ ConnectFirst' /\ PeerToTell'
    BY <2>1 DEF ConfirmsFirst, SeesConnect, ConnectFirst, PeerToTell
  <2>2. CASE AddNewPeer
    <3>1. \A e : Append(peers, e) # << >>
      <4>1. \A e : Len(Append(peers, e)) = Len(peers) + 1 /\ Len(peers) \in Nat
        BY <1>0
      <4> QED
        BY <4>1
    <3> QED
      BY <2>1, <2>2, <3>1 DEF AddNewPeer
  <2>3. CASE SendNewClientID
    BY <1>1, <2>3 DEF SendNewClientID, SendsID, ConfirmsFirst, PeerToTell
  <2>4. CASE ProcessClientPacket
    <3>1. peers # << >>
      <4>1. Head(networkEventsQueue).packet \in KnownRequests
        BY <1>0, <2>4, HeadTail, KnownValues DEF ProcessClientPacket, NextServerEvent
      <4>2. Head(networkEventsQueue).packet.id \in Nat
        BY <4>1 DEF KnownRequests, KnownIDs
      <4> QED
        BY <2>4, <4>2 DEF ProcessClientPacket
    <3> QED
      BY <2>1, <2>4, <3>1 DEF ProcessClientPacket
  <2>5. CASE HandleDisconnect
    <3>1. /\ networkEventsQueue # << >> /\ networkEventsQueue[1].type = "DISCONNECT"
          /\ networkEventsQueue' = Tail(networkEventsQueue)
          /\ UNCHANGED <<link, up, peers, serverPC>>
      BY <1>0, <2>5, HeadTail DEF HandleDisconnect, NextServerEvent, transportVars
    <3>2. /\ Len(networkEventsQueue') = Len(networkEventsQueue) - 1
          /\ \A i \in 1..Len(networkEventsQueue') :
                 networkEventsQueue'[i] = networkEventsQueue[i + 1]
      BY <1>0, <3>1, HeadTailProperties
    <3>3. SeesConnect => SeesConnect'
      <4>1. ASSUME NEW i \in 1..Len(networkEventsQueue), ConnectAt(i)
            PROVE  ConnectAt(i - 1)' /\ i - 1 \in 1..Len(networkEventsQueue')
        BY <1>0, <3>1, <3>2, <4>1 DEF ConnectAt
      <4> QED
        BY <3>1, <4>1 DEF SeesConnect
    <3>4. ConnectFirst'
      <4>1. ASSUME NEW i \in 1..Len(networkEventsQueue'), peers = << >>,
                   networkEventsQueue'[i].type = "RECEIVE"
            PROVE  \E j \in 1..i - 1 : ConnectAt(j)'
        <5>1. i + 1 \in 1..Len(networkEventsQueue)
          BY <1>0, <3>2
        <5>2. networkEventsQueue[i + 1].type = "RECEIVE"
          BY <3>2, <4>1
        <5>3. PICK j \in 1..(i + 1) - 1 : ConnectAt(j)
          BY <4>1, <5>1, <5>2 DEF ConnectFirst
        <5>4. j # 1
          BY <3>1, <5>3 DEF ConnectAt
        <5>5. j - 1 \in 1..i - 1 /\ j - 1 \in 1..Len(networkEventsQueue')
          BY <1>0, <3>2, <5>4
        <5>6. ConnectAt(j - 1)'
          BY <3>2, <5>3, <5>5 DEF ConnectAt
        <5> QED
          BY <5>5, <5>6
      <4> QED
        BY <3>1, <4>1 DEF ConnectFirst
    <3> QED
      BY <3>1, <3>3, <3>4 DEF ConfirmsFirst, PeerToTell
  <2> QED
    BY <1>7, <2>2, <2>3, <2>4, <2>5 DEF ServerNetwork, ServerThread
<1>8. ASSUME NEW c \in Clients, Receive(c)
      PROVE  ConfirmsFirst' /\ ConnectFirst' /\ PeerToTell'
  <2>1. UNCHANGED <<networkEventsQueue, peers, serverPC>>
    BY <1>8 DEF Receive, serverVars
  <2>2. CASE ServiceConnect(c)
    BY <1>0, <1>2, <2>1, <2>2 DEF ServiceConnect, With
  <2>3. CASE ServicePacket(c)
    BY <1>2, <2>1, <2>3 DEF ServicePacket
  <2>4. CASE ServiceLoss(c)
    BY <1>0, <1>2, <2>1, <2>4 DEF ServiceLoss, With
  <2> QED
    BY <1>8, <2>2, <2>3, <2>4 DEF Receive, ServiceClient
<1>9. ASSUME NEW c \in Clients, UNCHANGED <<networkEventsQueue, peers, serverPC, link>>, Grown(up', c)
      PROVE  ConfirmsFirst' /\ ConnectFirst' /\ PeerToTell'
  BY <1>2, <1>9 DEF Grown
<1>10. ASSUME NEW c \in Clients PROVE Grown(up, c)
  BY <1>0 DEF Grown
<1>11. ASSUME NEW c \in Clients, Frame(c)
       PROVE  ConfirmsFirst' /\ ConnectFirst' /\ PeerToTell'
  <2>1. UNCHANGED <<networkEventsQueue, peers, serverPC, link>>
    BY <1>11 DEF Frame, ClientFrame, NoGameEvent, RequestInitScript, RunClientInit,
                 UploadTexture, Takes, Postpone, Requeue, serverVars, transportVars
  <2>2. \/ UNCHANGED up
        \/ \E mode : ModeSwitch(c, mode, up)
        \/ \E mode : ModeSwitch(c, mode, AfterRequest(up, c, "IMAGE"))
    BY <1>11, Zenon DEF Frame, ClientFrame, NoGameEvent, RequestInitScript,
           RunClientInit,
              UploadTexture, Postpone, Requeue, transportVars
  <2>3. Grown(AfterRequest(up, c, "IMAGE"), c)
    BY <1>10, RequestGrows
  <2>4. Grown(up', c)
    BY <1>10, <2>2, <2>3, SwitchGrows
  <2> QED
    BY <1>9, <2>1, <2>4
<1>12. ASSUME NEW c \in Clients, Handle(c)
       PROVE  ConfirmsFirst' /\ ConnectFirst' /\ PeerToTell'
  <2>1. UNCHANGED <<networkEventsQueue, peers, serverPC>>
    BY <1>12 DEF Handle, serverVars
  <2>2. CASE ClientGone(c)
    BY <1>0, <1>2, <2>1, <2>2 DEF ClientGone
  <2>3. CASE UNCHANGED <<link, up>>
    BY <1>9, <1>10, <2>1, <2>3
  <2> QED
    BY <1>12, <2>2, <2>3 DEF Handle, ClientNetwork, ConnectEvent, DisconnectEvent,
       UpdateClientPeerID, ScriptPacket, RequestAgain, LoadScript, ImagePacket,
       BadImagePacket, transportVars
<1>15. CASE ServerAbort
  <2>1. /\ networkEventsQueue' = << >> /\ UNCHANGED <<peers, serverPC>>
        /\ \A c \in Clients : up'[c] = << >> /\ link'[c] # "connected"
    BY <1>0, <1>15 DEF ServerAbort, Abort, AllCut
  <2> QED
    BY <2>1 DEF ConfirmsFirst, ConnectFirst, PeerToTell
<1>13. ASSUME NEW c \in Clients, Retry(c)
       PROVE  ConfirmsFirst' /\ ConnectFirst' /\ PeerToTell'
  <2>1. /\ UNCHANGED <<networkEventsQueue, peers, serverPC, link>>
        /\ up' = AfterRequest(up, c, "INIT_SCRIPT")
    BY <1>13 DEF Retry, Resend, serverVars
  <2> QED
    BY <1>9, <1>10, <2>1, RequestGrows
<1>14. CASE UNCHANGED vars
  BY <1>1, <1>14 DEF vars, transportVars, serverVars, ConfirmsFirst, PeerToTell
<1> QED
  BY <1>4, <1>5, <1>6, <1>7, <1>8, <1>11, <1>12, <1>13, <1>14, <1>15 DEF Next, Network
-----------------------------------------------------------------------------
(* Runs are taken at once, and requests are kept.                           *)

keptVars == <<gameEventQueue, postponed, mainPC, scriptOne, ran, sentInitRequest,
              requestQueue, netPC, refused>>

LEMMA RefuseKeeps ==
  ASSUME NEW c, NEW what, Refuse(c, what)
  PROVE  refused \subseteq refused' /\ <<c, what>> \in refused'
BY DEF Refuse

LEMMA GameStep ==
  ASSUME TypeOK, RunsAtOnce, RegisteredMeansRan, RequestKept, [Next]_vars
  PROVE  RunsAtOnce' /\ RegisteredMeansRan' /\ RequestKept'
<1> DEFINE Goal == RunsAtOnce' /\ RegisteredMeansRan' /\ RequestKept'
<1>0. /\ gameEventQueue \in [Clients -> Seq(PromptEvents)]
      /\ postponed \in [Clients -> Seq(LateEvents)]
      /\ requestQueue \in [Clients -> Nat]
      /\ sentInitRequest \in [Clients -> BOOLEAN]
      /\ scriptOne \in [Clients -> BOOLEAN] /\ ran \in [Clients -> BOOLEAN]
      /\ mainPC \in [Clients -> {"frame", "requeue", "ended"}]
      /\ netPC \in [Clients -> {"idle", "load", "again", "ended"}]
  BY DEF RunsAtOnce, TypeOK, ClientTypeOK
<1>1. CASE UNCHANGED keptVars
  <2>1. \A c \in Clients : RunQueued(c)' <=> RunQueued(c)
    BY <1>1 DEF keptVars, RunQueued
  <2>2. RunsAtOnce' /\ RegisteredMeansRan'
    BY <1>1 DEF keptVars, RunsAtOnce, RegisteredMeansRan
  <2>3. RequestKept'
    BY <1>1, <2>1 DEF keptVars, RequestKept
  <2> QED
    BY <2>2, <2>3
<1>2. ASSUME NEW c \in Clients, NEW e \in PromptEvents, AddEventToQueue(c, e)
      PROVE  /\ gameEventQueue' \in [Clients -> Seq(PromptEvents)]
             /\ \A b \in Clients : RunQueued(b) => RunQueued(b)'
             /\ e.action = "RUN_SCRIPT_FUNCTION" => RunQueued(c)'
  <2> DEFINE q == gameEventQueue[c]
  <2>1. gameEventQueue' = With(gameEventQueue, c, Append(q, e)) /\ q \in Seq(PromptEvents)
    BY <1>0, <1>2 DEF AddEventToQueue
  <2>2. gameEventQueue' \in [Clients -> Seq(PromptEvents)]
    BY <1>0, <2>1, AddIn
  <2>3. /\ gameEventQueue'[c] = Append(q, e)
        /\ \A b \in Clients : b # c => gameEventQueue'[b] = gameEventQueue[b]
    BY <1>0, <2>1 DEF With
  <2>4. /\ Len(gameEventQueue'[c]) = Len(q) + 1 /\ Len(q) \in Nat
        /\ \A i \in 1..Len(q) : gameEventQueue'[c][i] = q[i]
        /\ gameEventQueue'[c][Len(q) + 1] = e
    BY <2>1, <2>3, AppendProperties
  <2>5. RunQueued(c) => RunQueued(c)'
    BY <2>4 DEF RunQueued
  <2>6. e.action = "RUN_SCRIPT_FUNCTION" => RunQueued(c)'
    BY <2>4 DEF RunQueued
  <2>7. \A b \in Clients : b # c => (RunQueued(b) => RunQueued(b)')
    BY <2>3 DEF RunQueued
  <2> QED
    BY <2>2, <2>5, <2>6, <2>7
<1>3. ASSUME NEW c \in Clients, gameEventQueue[c] # << >>,
             gameEventQueue' = With(gameEventQueue, c, Tail(gameEventQueue[c]))
      PROVE  /\ gameEventQueue' \in [Clients -> Seq(PromptEvents)]
             /\ Head(gameEventQueue[c]) \in PromptEvents
             /\ \A b \in Clients : b # c => (RunQueued(b) => RunQueued(b)')
             /\ RunQueued(c) /\ Head(gameEventQueue[c]).action # "RUN_SCRIPT_FUNCTION"
                    => RunQueued(c)'
  <2> DEFINE q == gameEventQueue[c]
  <2>1. q \in Seq(PromptEvents) /\ q # << >>
    BY <1>0, <1>3
  <2>2. gameEventQueue' \in [Clients -> Seq(PromptEvents)] /\ Head(q) \in PromptEvents
    BY <1>0, <1>3, TailIn
  <2>3. /\ gameEventQueue'[c] = Tail(q)
        /\ \A b \in Clients : b # c => gameEventQueue'[b] = gameEventQueue[b]
    BY <1>0, <1>3 DEF With
  <2>4. /\ Len(gameEventQueue'[c]) = Len(q) - 1 /\ Len(q) \in Nat /\ Head(q) = q[1]
        /\ \A i \in 1..Len(gameEventQueue'[c]) : gameEventQueue'[c][i] = q[i + 1]
    BY <2>1, <2>3, HeadTailProperties, HeadTail
  <2>5. ASSUME RunQueued(c), Head(q).action # "RUN_SCRIPT_FUNCTION" PROVE RunQueued(c)'
    <3>1. PICK i \in 1..Len(q) : q[i].action = "RUN_SCRIPT_FUNCTION"
      BY <2>5 DEF RunQueued
    <3>2. i - 1 \in 1..Len(gameEventQueue'[c])
      BY <2>4, <2>5, <3>1
    <3>3. gameEventQueue'[c][i - 1] = q[i]
      BY <2>4, <3>1, <3>2
    <3> QED
      BY <3>1, <3>2, <3>3 DEF RunQueued
  <2>6. \A b \in Clients : b # c => (RunQueued(b) => RunQueued(b)')
    BY <2>3 DEF RunQueued
  <2> QED
    BY <2>2, <2>5, <2>6
<1>4. ASSUME NEW c \in Clients, NEW mode, NEW wire, ModeSwitch(c, mode, wire)
      PROVE  \A b \in Clients :
                \/ sentInitRequest'[b] = sentInitRequest[b] /\ requestQueue'[b] = requestQueue[b]
                \/ requestQueue'[b] > 0
  <2>1. \/ sentInitRequest' = sentInitRequest /\ requestQueue' = requestQueue
        \/ /\ sentInitRequest' = With(sentInitRequest, c, TRUE)
           /\ requestQueue' = With(requestQueue, c, requestQueue[c] + 1)
    BY <1>4 DEF ModeSwitch, Added
  <2> QED
    BY <1>0, <2>1 DEF With
\* what is left of RequestKept' for a step that leaves the network thread alone
<1>5. ASSUME NEW c \in Clients, NEW mode, NEW wire, ModeSwitch(c, mode, wire),
             UNCHANGED netPC, refused \subseteq refused',
             \A b \in Clients : ran[b] => ran'[b],
             \A b \in Clients :
                 RunQueued(b) => RunQueued(b)' \/ ran'[b] \/ <<b, "script">> \in refused'
      PROVE  RequestKept'
  BY <1>4, <1>5 DEF RequestKept
<1>6. ASSUME NEW c \in Clients, Frame(c) PROVE Goal
  <2>1. CASE NoGameEvent(c)
    <3>1. UNCHANGED <<gameEventQueue, postponed, mainPC, scriptOne, ran, netPC, refused>>
          /\ ModeSwitch(c, currentMode[c], up)
      BY <2>1 DEF NoGameEvent, networkVars
    <3>2. RunsAtOnce' /\ RegisteredMeansRan'
      BY <3>1 DEF RunsAtOnce, RegisteredMeansRan
    <3>3. \A b \in Clients : RunQueued(b) => RunQueued(b)'
      BY <3>1 DEF RunQueued
    <3> QED
      BY <1>5, <3>1, <3>2, <3>3
  <2>2. ASSUME NEW action, NEW mode, NEW wire, Takes(c, action), ModeSwitch(c, mode, wire),
               action # "RUN_SCRIPT_FUNCTION", UNCHANGED <<scriptOne, ran>>,
               refused \subseteq refused'
        PROVE  Goal
    <3>1. /\ UNCHANGED <<postponed, mainPC, netPC>>
          /\ gameEventQueue[c] # << >> /\ Head(gameEventQueue[c]).action = action
          /\ gameEventQueue' = With(gameEventQueue, c, Tail(gameEventQueue[c]))
      BY <2>2 DEF Takes, networkVars
    <3>2. RunsAtOnce' /\ RegisteredMeansRan'
      BY <1>3, <2>2, <3>1 DEF RunsAtOnce, RegisteredMeansRan
    <3>3. RequestKept'
      BY <1>3, <1>5, <2>2, <3>1
    <3> QED
      BY <3>2, <3>3
  <2>3. CASE RequestInitScript(c)
    BY <2>2, <2>3 DEF RequestInitScript
  <2>4. CASE UploadTexture(c)
    BY <2>2, <2>4, RefuseKeeps DEF UploadTexture
  <2>5. CASE RunClientInit(c)
    <3>1. /\ UNCHANGED <<postponed, mainPC, netPC>>
          /\ gameEventQueue[c] # << >>
          /\ gameEventQueue' = With(gameEventQueue, c, Tail(gameEventQueue[c]))
          /\ \E wire : ModeSwitch(c, currentMode[c], wire)
          /\ \/ ran' = With(ran, c, TRUE) /\ UNCHANGED refused
             \/ Refuse(c, "script") /\ UNCHANGED ran
          /\ \E v : scriptOne' = With(scriptOne, c, v)
      BY <2>5 DEF RunClientInit, Takes, networkVars
    <3>2. /\ ran'[c] \/ <<c, "script">> \in refused'
          /\ refused \subseteq refused'
          /\ \A b \in Clients : ran[b] => ran'[b]
      BY <1>0, <3>1, RefuseKeeps DEF With
    <3>3. \A b \in Clients : b # c => scriptOne'[b] = scriptOne[b]
      BY <1>0, <3>1 DEF With
    <3>4. RunsAtOnce'
      BY <1>3, <3>1 DEF RunsAtOnce
    <3>5. RegisteredMeansRan'
      BY <3>2, <3>3 DEF RegisteredMeansRan
    <3>6. RequestKept'
      BY <1>3, <1>5, <3>1, <3>2
    <3> QED
      BY <3>4, <3>5, <3>6
  <2>6. CASE Postpone(c)
    <3>1. /\ UNCHANGED <<scriptOne, ran, sentInitRequest, requestQueue, netPC, refused>>
          /\ gameEventQueue[c] # << >> /\ Head(gameEventQueue[c]).delay > 0
          /\ gameEventQueue' = With(gameEventQueue, c, Tail(gameEventQueue[c]))
          /\ postponed' = With(postponed, c, <<Head(gameEventQueue[c])>>)
          /\ mainPC' = With(mainPC, c, "requeue")
      BY <2>6 DEF Postpone, networkVars
    <3>2. Head(gameEventQueue[c]) \in LateEvents
      BY <1>3, <3>1 DEF LateEvents
    <3>3. Head(gameEventQueue[c]).action # "RUN_SCRIPT_FUNCTION"
      BY <3>1, <3>2 DEF LateEvents, PromptEvents, GameEvents
    <3>4. <<Head(gameEventQueue[c])>> \in Seq(LateEvents)
      BY <3>2, EmptySeq, AppendIn
    <3>5. postponed' \in [Clients -> Seq(LateEvents)]
      BY <1>0, <3>1, <3>4, WithIn
    <3>6. \A b \in Clients : mainPC'[b] = "requeue" => postponed'[b] # << >>
      BY <1>0, <3>1 DEF With, RunsAtOnce
    <3>7. RunsAtOnce' /\ RegisteredMeansRan'
      BY <1>3, <3>1, <3>5, <3>6 DEF RunsAtOnce, RegisteredMeansRan
    <3>8. RequestKept'
      BY <1>3, <3>1, <3>3 DEF RequestKept
    <3> QED
      BY <3>7, <3>8
  <2>7. CASE Requeue(c)
    <3> DEFINE e == [postponed[c][1] EXCEPT !.delay = @ - 1]
    <3>1. /\ UNCHANGED <<scriptOne, ran, netPC, refused>>
          /\ mainPC[c] = "requeue" /\ AddEventToQueue(c, e)
          /\ postponed' = With(postponed, c, << >>) /\ mainPC' = With(mainPC, c, "frame")
          /\ ModeSwitch(c, currentMode[c], up)
      BY <2>7 DEF Requeue, networkVars
    <3>2. postponed[c][1] \in LateEvents
      <4>1. postponed[c] \in Seq(LateEvents) /\ postponed[c] # << >>
        BY <1>0, <3>1 DEF RunsAtOnce
      <4> QED
        BY <4>1, HeadTail
    <3>3. e \in PromptEvents
      <4>1. ASSUME NEW f \in LateEvents
            PROVE  [f EXCEPT !.delay = @ - 1] \in PromptEvents
        BY SessionAssumption DEF LateEvents, PromptEvents, GameEvents
      <4> QED
        BY <3>2, <4>1
    <3> HIDE DEF e
    <3>4. postponed' \in [Clients -> Seq(LateEvents)]
      BY <1>0, <3>1, EmptySeq, WithIn
    <3>5. \A b \in Clients : mainPC'[b] = "requeue" => postponed'[b] # << >>
      BY <1>0, <3>1 DEF With, RunsAtOnce
    <3>6. RunsAtOnce' /\ RegisteredMeansRan'
      BY <1>2, <3>1, <3>3, <3>4, <3>5 DEF RunsAtOnce, RegisteredMeansRan
    <3>7. RequestKept'
      BY <1>2, <1>5, <3>1, <3>3
    <3> QED
      BY <3>6, <3>7
  <2> QED
    BY <1>6, <2>1, <2>3, <2>4, <2>5, <2>6, <2>7 DEF Frame, ClientFrame
<1>7. ASSUME NEW c \in Clients, Handle(c) PROVE Goal
  <2>0. UNCHANGED <<postponed, scriptOne, ran, sentInitRequest>> /\ refused \subseteq refused'
    <3>1. UNCHANGED <<postponed, scriptOne, ran, sentInitRequest>>
      BY <1>7 DEF Handle, ClientNetwork, ConnectEvent, DisconnectEvent, UpdateClientPeerID,
                  ScriptPacket, RequestAgain, LoadScript, ImagePacket, BadImagePacket, mainVars
    <3>2. UNCHANGED refused \/ \E what : Refuse(c, what)
      BY <1>7 DEF Handle, ClientNetwork, ConnectEvent, DisconnectEvent, UpdateClientPeerID,
                  ScriptPacket, RequestAgain, LoadScript, ImagePacket, BadImagePacket, sharedVars
    <3> QED
      BY <3>1, <3>2, RefuseKeeps
  <2>1. RegisteredMeansRan'
    BY <2>0 DEF RegisteredMeansRan
  <2>11. BadImagePacket(c) \/ UNCHANGED mainPC
    BY <1>7 DEF Handle, ClientNetwork, ConnectEvent, DisconnectEvent, UpdateClientPeerID,
                ScriptPacket, RequestAgain, LoadScript, ImagePacket, mainVars
  <2>2. ASSUME NEW e \in PromptEvents, AddEventToQueue(c, e),
               UNCHANGED <<netPC, requestQueue, mainPC>>
        PROVE  Goal
    <3>1. RunsAtOnce'
      BY <1>2, <2>0, <2>2 DEF RunsAtOnce
    <3>2. RequestKept'
      BY <1>2, <2>0, <2>2 DEF RequestKept
    <3> QED
      BY <2>1, <3>1, <3>2
  <2>3. ASSUME UNCHANGED <<gameEventQueue, mainPC>>
        PROVE  RunsAtOnce' /\ \A b \in Clients : RunQueued(b) => RunQueued(b)'
    BY <2>0, <2>3 DEF RunsAtOnce, RunQueued
  <2>4. CASE ConnectEvent(c)
    <3>1. GameEvent("REQUEST_INIT_SCRIPT", InitDelay) \in PromptEvents
      BY SessionAssumption DEF GameEvent, PromptEvents, GameEvents, Actions
    <3> QED
      BY <2>2, <2>4, <3>1 DEF ConnectEvent, mainVars
  <2>5. CASE DisconnectEvent(c) \/ UpdateClientPeerID(c)
    <3>1. UNCHANGED keptVars
      BY <2>0, <2>5 DEF DisconnectEvent, UpdateClientPeerID, keptVars, sharedVars,
             networkVars, mainVars
    <3> QED
      BY <1>1, <3>1
  <2>6. CASE ScriptPacket(c)
    <3>1. /\ UNCHANGED <<gameEventQueue, mainPC>>
          /\ requestQueue' = With(requestQueue, c, requestQueue[c] \div 2)
          /\ netPC' = With(netPC, c, "load") \/ netPC' = With(netPC, c, "again")
      BY <2>6 DEF ScriptPacket, Removed, mainVars
    <3>2. /\ netPC'[c] # "idle"
          /\ \A b \in Clients : b # c => /\ netPC'[b] = netPC[b]
                                       /\ requestQueue'[b] = requestQueue[b]
      BY <1>0, <3>1 DEF With
    <3>3. RequestKept'
      BY <2>0, <2>3, <3>1, <3>2 DEF RequestKept
    <3> QED
      BY <2>1, <2>3, <3>1, <3>3
  <2>7. CASE RequestAgain(c)
    <3>1. /\ UNCHANGED <<gameEventQueue, mainPC>>
          /\ requestQueue' = With(requestQueue, c, requestQueue[c] + 1)
          /\ netPC' = With(netPC, c, "idle")
      BY <2>7 DEF RequestAgain, Added, mainVars
    <3>2. /\ requestQueue'[c] > 0
          /\ \A b \in Clients : b # c => /\ netPC'[b] = netPC[b]
                                       /\ requestQueue'[b] = requestQueue[b]
      BY <1>0, <3>1 DEF With
    <3>3. RequestKept'
      BY <2>0, <2>3, <3>1, <3>2 DEF RequestKept
    <3> QED
      BY <2>1, <2>3, <3>1, <3>3
  <2>8. CASE LoadScript(c)
    <3>1. /\ netPC' = With(netPC, c, "idle") /\ UNCHANGED <<requestQueue, mainPC>>
          /\ \/ AddEventToQueue(c, GameEvent("RUN_SCRIPT_FUNCTION", 0))
             \/ scriptOne[c] /\ UNCHANGED gameEventQueue
             \/ Refuse(c, "script") /\ UNCHANGED gameEventQueue
      BY <2>8 DEF LoadScript, mainVars
    <3>2. \A b \in Clients : b # c => netPC'[b] = netPC[b]
      BY <1>0, <3>1 DEF With
    <3>3. /\ GameEvent("RUN_SCRIPT_FUNCTION", 0) \in PromptEvents
          /\ GameEvent("RUN_SCRIPT_FUNCTION", 0).action = "RUN_SCRIPT_FUNCTION"
      BY SessionAssumption DEF GameEvent, PromptEvents, GameEvents, Actions
    <3>4. RunsAtOnce' /\ \A b \in Clients : RunQueued(b) => RunQueued(b)'
      BY <1>2, <2>0, <2>3, <3>1, <3>3 DEF RunsAtOnce
    <3>5. RunQueued(c)' \/ ran[c] \/ <<c, "script">> \in refused'
      BY <1>2, <2>0, <3>1, <3>3, RefuseKeeps DEF RegisteredMeansRan
    <3>6. RequestKept'
      BY <2>0, <3>1, <3>2, <3>4, <3>5 DEF RequestKept
    <3> QED
      BY <2>1, <3>4, <3>6
  <2>9. CASE ImagePacket(c)
    <3>1. GameEvent("UPLOAD_TEXTURE", 0) \in PromptEvents
      BY SessionAssumption DEF GameEvent, PromptEvents, GameEvents, Actions
    <3>2. /\ UNCHANGED <<netPC, requestQueue, mainPC>>
          /\ AddEventToQueue(c, GameEvent("UPLOAD_TEXTURE", 0)) \/ UNCHANGED gameEventQueue
      BY <2>9 DEF ImagePacket, networkVars, mainVars
    <3>3. CASE UNCHANGED gameEventQueue
      BY <2>0, <2>1, <2>3, <3>2, <3>3 DEF RequestKept
    <3> QED
      BY <2>2, <3>1, <3>2, <3>3
  <2>10. CASE BadImagePacket(c)
    <3>1. /\ UNCHANGED <<gameEventQueue, requestQueue>>
          /\ mainPC' = With(mainPC, c, "ended") /\ netPC' = With(netPC, c, "ended")
      BY <2>10 DEF BadImagePacket
    <3>2. /\ mainPC'[c] # "requeue" /\ netPC'[c] # "idle"
          /\ \A b \in Clients : b # c => mainPC'[b] = mainPC[b] /\ netPC'[b] = netPC[b]
      BY <1>0, <3>1 DEF With
    <3>3. RunsAtOnce'
      BY <2>0, <3>1, <3>2 DEF RunsAtOnce
    <3>4. \A b \in Clients : RunQueued(b) => RunQueued(b)'
      BY <3>1 DEF RunQueued
    <3>5. RequestKept'
      BY <2>0, <3>1, <3>2, <3>4 DEF RequestKept
    <3> QED
      BY <2>1, <3>3, <3>5
  <2> QED
    BY <1>7, <2>4, <2>5, <2>6, <2>7, <2>8, <2>9, <2>10 DEF Handle, ClientNetwork
<1>8. CASE UNCHANGED clientVars
  <2>1. UNCHANGED keptVars
    BY <1>8 DEF clientVars, mainVars, networkVars, sharedVars, keptVars
  <2> QED
    BY <1>1, <2>1
<1>9. ASSUME NEW c \in Clients, Receive(c) PROVE Goal
  <2>1. UNCHANGED keptVars
    BY <1>9 DEF Receive, ServiceClient, mainVars, networkVars, sharedVars, keptVars
  <2> QED
    BY <1>1, <2>1
<1>10. UNCHANGED clientVars \/ \E c \in Clients : Receive(c) \/ Frame(c) \/ Handle(c)
  BY DEF Next, Network, ServerMain, ServerNetwork, ServerAbort, Retry, Resend, vars
<1> QED
  BY <1>6, <1>7, <1>8, <1>9, <1>10
-----------------------------------------------------------------------------
LEMMA TypesFromParts == RestTypeOK /\ IDsKnown /\ RunsAtOnce => TypeOK
<1> SUFFICES ASSUME RestTypeOK, IDsKnown, RunsAtOnce PROVE TypeOK
  OBVIOUS
<1>1. /\ KnownIDs \subseteq Nat /\ KnownUp \subseteq UpPackets
      /\ KnownDown \subseteq DownPackets /\ KnownServerEvents \subseteq ServerEvents
      /\ KnownClientEvents \subseteq [type : {"CONNECT", "DISCONNECT"}]
                                      \cup [type : {"RECEIVE"}, packet : Data]
      /\ PromptEvents \subseteq GameEvents /\ LateEvents \subseteq GameEvents
  BY DEF KnownIDs, KnownRequests, KnownUp, KnownData, KnownDown, KnownServerEvents,
         KnownClientEvents, UpPackets, DownPackets, Requests, Data, ServerEvents,
         PromptEvents, LateEvents
<1>2. TransportTypeOK
  BY <1>1, WiderIn DEF RestTypeOK, IDsKnown, TransportTypeOK
<1>3. ServerTypeOK
  BY <1>1, SeqMonotonic DEF RestTypeOK, IDsKnown, ServerTypeOK
<1>4. ClientTypeOK
  <2>1. /\ networkEventsQueueClient \in
               [Clients -> Seq([type : {"CONNECT", "DISCONNECT"}]
                               \cup [type : {"RECEIVE"}, packet : Data])]
        /\ gameEventQueue \in [Clients -> Seq(GameEvents)]
        /\ postponed \in [Clients -> Seq(GameEvents)]
    BY <1>1, WiderIn DEF IDsKnown, RunsAtOnce
  <2>2. clientID \in [Clients -> Nat]
    BY <1>1 DEF IDsKnown
  <2>3. /\ {sentInitRequest, hasAddress, hasID, scriptOne, ran} \subseteq [Clients -> BOOLEAN]
        /\ {clientID, requestQueue} \subseteq [Clients -> Nat]
    BY <2>2 DEF RestTypeOK
  <2> QED
    BY <2>1, <2>3 DEF RestTypeOK, Modes, ClientTypeOK
<1> QED
  BY <1>2, <1>3, <1>4 DEF TypeOK

LEMMA InitIInv == Init => IInv
<1> SUFFICES ASSUME Init PROVE IInv
  OBVIOUS
<1> USE TransportAssumption, SessionAssumption
    DEF Init, TransportInit, ServerInit, ClientInit, Each
<1>1. /\ << >> \in Seq(KnownUp) /\ << >> \in Seq(KnownDown) /\ << >> \in Seq(KnownServerEvents)
      /\ << >> \in Seq(KnownClientEvents) /\ << >> \in Seq(PromptEvents)
      /\ << >> \in Seq(LateEvents) /\ << >> \in Seq(Copies)
  BY EmptySeq
<1>2. RestTypeOK
  <2>1. /\ {} \subseteq Nat /\ {} \subseteq Clients \X {"script", "image"}
        /\ 0 \in 0..MaxCuts /\ 0 \in 0..MaxCorrupt
    OBVIOUS
  <2>2. /\ link \in [Clients -> {"idle", "connecting", "connected", "cut", "lost"}]
        /\ occupant \in [Slots -> Clients \cup {NoClient}]
        /\ open \subseteq Slots
        /\ peers \in Seq(Copies)
        /\ serverPC \in {"idle", "sendID"}
        /\ wild \in BOOLEAN /\ serverUp \in BOOLEAN
    BY <1>1
  <2> QED
    BY <2>1, <2>2 DEF RestTypeOK, Modes
<1>3. IDsKnown
  <2>1. 0 \in KnownIDs
    BY DEF KnownIDs
  <2> QED
    BY <1>1, <2>1 DEF IDsKnown
<1>4. RunsAtOnce
  BY <1>1 DEF RunsAtOnce
<1>5. ConfirmsFirst /\ ConnectFirst /\ PeerToTell
  BY EmptySeq DEF ConfirmsFirst, ConnectFirst, PeerToTell
<1>6. RegisteredMeansRan /\ RequestKept
  BY DEF RegisteredMeansRan, RequestKept
<1> QED
  BY <1>2, <1>3, <1>4, <1>5, <1>6, TypesFromParts DEF IInv

LEMMA NextIInv == IInv /\ [Next]_vars => IInv'
<1> SUFFICES ASSUME IInv, [Next]_vars PROVE IInv'
  OBVIOUS
<1>1. RestTypeOK' /\ IDsKnown'
  BY RestStep, KnownStep DEF IInv
<1>2. ConfirmsFirst' /\ ConnectFirst' /\ PeerToTell'
  BY OrderStep DEF IInv
<1>3. RunsAtOnce' /\ RegisteredMeansRan' /\ RequestKept'
  BY GameStep DEF IInv
<1>4. TypeOK'
  BY <1>1, <1>3, TypesFromParts, PTL
<1> QED
  BY <1>1, <1>2, <1>3, <1>4 DEF IInv

(* The invariant that the theorems below rest on.                           *)
THEOREM Invariance == Spec => []IInv
<1> QED
  BY InitIInv, NextIInv, PTL DEF Spec

(* Every variable keeps its type.                                           *)
THEOREM Types == Spec => []TypeOK
<1>1. IInv => TypeOK
  BY DEF IInv
<1> QED
  BY <1>1, Invariance, PTL

(* getPeerFromClientID is never called with a number beyond peers, though   *)
(* it does not test it: with whatever number of clients, connections that   *)
(* are lost, and requests that are sent with the default ID or again.       *)
THEOREM PeerForEveryRequest == Spec => []IDsInRange
<1>1. IInv => IDsInRange
  <2> SUFFICES ASSUME IInv, Handling PROVE Head(networkEventsQueue).packet.id < Len(peers)
    BY DEF IDsInRange
  <2>1. /\ networkEventsQueue \in Seq(KnownServerEvents) /\ networkEventsQueue # << >>
        /\ Head(networkEventsQueue).type = "RECEIVE"
    BY DEF IInv, IDsKnown, Handling
  <2>2. /\ Head(networkEventsQueue) \in KnownServerEvents
        /\ Head(networkEventsQueue) = networkEventsQueue[1]
        /\ 1 \in 1..Len(networkEventsQueue)
    BY <2>1, HeadTail
  <2>3. peers # << >>
    BY <2>1, <2>2 DEF IInv, ConnectFirst
  <2>4. peers \in Seq(Copies) /\ Len(peers) \in Nat \ {0}
    BY <2>3, EmptySeq DEF IInv, TypeOK, ServerTypeOK
  <2>5. Head(networkEventsQueue).packet \in KnownRequests
    BY <2>1, <2>2, KnownValues
  <2> QED
    BY <2>4, <2>5 DEF KnownRequests, KnownIDs
<1> QED
  BY <1>1, Invariance, PTL

(* No client forgets that it has asked for the script before it has run it, *)
(* unless it could not load or run one: then nothing asks again.            *)
THEOREM RequestIsKept == Spec => []RequestKept
<1>1. IInv => RequestKept
  BY DEF IInv
<1> QED
  BY <1>1, Invariance, PTL
-----------------------------------------------------------------------------
(* One client.                                                              *)

\* what there is of a client's that has not asked for the script
QuietRequests == [type : {"IMAGE"}, id : Nat]
QuietUp   == [type : {"ACK"}] \cup QuietRequests
QuietData == [type : {"NEW_CLIENT_ID"}, id : Nat] \cup [type : {"IMAGE"}]
QuietDown == [type : {"CONNECT"}] \cup QuietData
QuietServerEvents == [type : {"CONNECT", "DISCONNECT"}, peer : Slots]
                         \cup [type : {"RECEIVE"}, peer : Slots, packet : QuietRequests]
QuietClientEvents == [type : {"CONNECT", "DISCONNECT"}]
                         \cup [type : {"RECEIVE"}, packet : QuietData]

Quiet(c) == /\ requestQueue[c] = 0 /\ netPC[c] \in {"idle", "ended"}
            /\ up[c] \in Seq(QuietUp) /\ down[c] \in Seq(QuietDown)
            /\ networkEventsQueue \in Seq(QuietServerEvents)
            /\ networkEventsQueueClient[c] \in Seq(QuietClientEvents)

AsksOnce(c) == /\ sentInitRequest[c] \/ Quiet(c)
               /\ requestQueue[c] <= 1
               /\ netPC[c] = "again" => requestQueue[c] = 0

(* What these sets hold.                                                    *)
LEMMA QuietValues ==
  /\ [type |-> "ACK"] \in QuietUp
  /\ \A p \in QuietUp : p.type # "ACK" => p \in QuietRequests
  /\ \A id \in Nat : [type |-> "IMAGE", id |-> id] \in QuietUp
  /\ [type |-> "CONNECT"] \in QuietDown
  /\ \A p \in QuietDown : p.type # "CONNECT" => p \in QuietData /\ p.type # "SCRIPT"
  /\ \A id \in Nat : [type |-> "NEW_CLIENT_ID", id |-> id] \in QuietDown
  /\ \A r \in QuietRequests : Answer(r) \in QuietDown
  /\ \A type \in {"CONNECT", "DISCONNECT"}, s \in Slots :
         [type |-> type, peer |-> s] \in QuietServerEvents
  /\ \A s \in Slots, p \in QuietRequests :
         [type |-> "RECEIVE", peer |-> s, packet |-> p] \in QuietServerEvents
  /\ \A e \in QuietServerEvents : e.type = "RECEIVE" => e.packet \in QuietRequests
  /\ \A type \in {"CONNECT", "DISCONNECT"} : [type |-> type] \in QuietClientEvents
  /\ \A p \in QuietData : [type |-> "RECEIVE", packet |-> p] \in QuietClientEvents
  /\ \A e \in QuietClientEvents : e.type = "RECEIVE" => e.packet.type # "SCRIPT"
BY DEF QuietRequests, QuietUp, QuietData, QuietDown, QuietServerEvents, QuietClientEvents,
       Answer

(* One more packet to the client stays quiet.                               *)
LEMMA QuietAnswer ==
  ASSUME NEW c \in Clients, TypeOK, Clients = {c}, Quiet(c), NEW id,
         NEW packet \in QuietDown, SendThrough(id, packet)
  PROVE  down'[c] \in Seq(QuietDown)
<1>1. down \in [Clients -> Seq(DownPackets)] /\ down[c] \in Seq(QuietDown)
  BY DEF TypeOK, TransportTypeOK, Quiet
<1>2. Append(down[c], packet) \in Seq(QuietDown)
  BY <1>1, AppendIn
<1>3. ASSUME NEW b PROVE DownAfter(b, packet)[c] \in Seq(QuietDown)
  <2>1. CASE b = c
    BY <1>1, <1>2, <2>1 DEF DownAfter
  <2>2. CASE b # c
    BY <1>1, <2>2 DEF DownAfter
  <2> QED
    BY <2>1, <2>2
<1>4. down' = down \/ \E b : down' = DownAfter(b, packet)
  BY DEF SendThrough
<1> QED
  BY <1>1, <1>3, <1>4

(* A request for the image, which is all a quiet client sends, stays quiet. *)
LEMMA QuietRequest ==
  ASSUME NEW c \in Clients, TypeOK, Quiet(c)
  PROVE  AfterRequest(up, c, "IMAGE")[c] \in Seq(QuietUp)
<1> DEFINE request == [type |-> "IMAGE", id |-> clientID[c]]
<1>1. request \in QuietUp
  BY QuietValues DEF TypeOK, ClientTypeOK
<1> HIDE DEF request
<1>2. up \in [Clients -> Seq(UpPackets)] /\ up[c] \in Seq(QuietUp)
  BY DEF TypeOK, TransportTypeOK, Quiet
<1>3. Append(up[c], request) \in Seq(QuietUp)
  BY <1>1, <1>2, AppendIn
<1>4. UpAfter(up, c, request)[c] \in Seq(QuietUp)
  BY <1>2, <1>3 DEF UpAfter
<1> QED
  BY <1>4 DEF AfterRequest, request

(* The mode switch of a frame: the only step that asks for the first time.  *)
LEMMA SwitchAsks ==
  ASSUME NEW c \in Clients, TypeOK, Clients = {c}, AsksOnce(c), NEW mode, NEW wire,
         Quiet(c) => wire[c] \in Seq(QuietUp),
         ModeSwitch(c, mode, wire),
         UNCHANGED <<down, networkEventsQueue, networkEventsQueueClient, netPC>>
  PROVE  AsksOnce(c)'
<1>1. /\ requestQueue \in [Clients -> Nat] /\ sentInitRequest \in [Clients -> BOOLEAN]
      /\ requestQueue[c] \in Nat
  BY DEF TypeOK, ClientTypeOK
<1>2. CASE up' = wire /\ UNCHANGED <<requestQueue, sentInitRequest>>
  BY <1>2 DEF AsksOnce, Quiet
<1>3. CASE /\ ~sentInitRequest[c]
           /\ requestQueue' = With(requestQueue, c, requestQueue[c] + 1)
           /\ sentInitRequest' = With(sentInitRequest, c, TRUE)
  <2>1. requestQueue[c] = 0 /\ netPC[c] # "again"
    BY <1>3 DEF AsksOnce, Quiet
  <2>2. requestQueue'[c] = 1 /\ sentInitRequest'[c]
    BY <1>1, <1>3, <2>1 DEF With
  <2> QED
    BY <2>1, <2>2 DEF AsksOnce
<1> QED
  BY <1>2, <1>3 DEF ModeSwitch, Added

LEMMA AsksStep ==
  ASSUME NEW c \in Clients, Clients = {c}, TypeOK, PeerToTell, AsksOnce(c), [Next]_vars
  PROVE  AsksOnce(c)'
<1>0. /\ requestQueue \in [Clients -> Nat] /\ requestQueue[c] \in Nat
      /\ netPC \in [Clients -> {"idle", "load", "again", "ended"}]
      /\ up \in [Clients -> Seq(UpPackets)] /\ down \in [Clients -> Seq(DownPackets)]
      /\ occupant \in [Slots -> Clients \cup {NoClient}]
      /\ peers \in Seq(Copies) /\ Len(peers) \in Nat
      /\ networkEventsQueueClient \in
             [Clients -> Seq([type : {"CONNECT", "DISCONNECT"}]
                             \cup [type : {"RECEIVE"}, packet : Data])]
  BY DEF TypeOK, ClientTypeOK, TransportTypeOK, ServerTypeOK
\* a step that leaves the client's count alone
<1>1. ASSUME UNCHANGED <<requestQueue, netPC, sentInitRequest>>,
             Quiet(c) => /\ up'[c] \in Seq(QuietUp) /\ down'[c] \in Seq(QuietDown)
                         /\ networkEventsQueue' \in Seq(QuietServerEvents)
                         /\ networkEventsQueueClient'[c] \in Seq(QuietClientEvents)
      PROVE  AsksOnce(c)'
  BY <1>1 DEF AsksOnce, Quiet
<1>2. ASSUME NEW b \in Clients, Cut(b), UNCHANGED <<serverVars, clientVars>>
      PROVE  AsksOnce(c)'
  <2>1. up'[c] = << >> /\ down'[c] = << >>
    BY <1>0, <1>2 DEF Cut
  <2> QED
    BY <1>1, <1>2, <2>1, EmptySeq DEF Quiet, serverVars, clientVars, mainVars, networkVars, sharedVars
<1>3. ASSUME NEW b \in Clients, NEW s \in Slots, Accept(b, s), UNCHANGED <<serverVars, clientVars>>
      PROVE  AsksOnce(c)'
  <2>1. up' = up /\ down'[c] = <<[type |-> "CONNECT"]>>
    BY <1>0, <1>3 DEF Accept
  <2>2. <<[type |-> "CONNECT"]>> \in Seq(QuietDown)
    BY QuietValues, EmptySeq, AppendIn
  <2> QED
    BY <1>1, <1>3, <2>1, <2>2 DEF Quiet, serverVars, clientVars, mainVars, networkVars, sharedVars
<1>4. ASSUME NEW s \in Slots, ServerMain(s) PROVE AsksOnce(c)'
  <2>1. /\ UNCHANGED <<down, clientVars>> /\ occupant[s] = c
        /\ UNCHANGED <<requestQueue, netPC, sentInitRequest, networkEventsQueueClient>>
    BY <1>0, <1>4 DEF ServerMain, ServiceServer, clientVars, mainVars, networkVars, sharedVars
  <2>2. ASSUME Quiet(c), ServerGets(s)
        PROVE  up'[c] \in Seq(QuietUp) /\ Head(up[c]) \in QuietUp
    <3>1. up[c] \in Seq(QuietUp) /\ up[c] # << >> /\ up'[c] = Tail(up[c])
      BY <1>0, <2>1, <2>2 DEF Quiet, ServerGets
    <3> QED
      BY <3>1, HeadTail
  <2>3. ASSUME Quiet(c), NEW e \in QuietServerEvents
        PROVE  Append(networkEventsQueue, e) \in Seq(QuietServerEvents)
    BY <2>3, AppendIn DEF Quiet
  <2>4. CASE ServiceConfirmation(s)
    <3>1. Quiet(c) => networkEventsQueue' \in Seq(QuietServerEvents)
      BY <2>3, <2>4, QuietValues DEF ServiceConfirmation
    <3> QED
      BY <1>1, <2>1, <2>2, <2>4, <3>1 DEF ServiceConfirmation, Quiet
  <2>5. CASE ServiceRequest(s)
    <3>1. Quiet(c) => Head(up[c]) \in QuietRequests
      BY <2>1, <2>2, <2>5, QuietValues DEF ServiceRequest
    <3>2. Quiet(c) => networkEventsQueue' \in Seq(QuietServerEvents)
      BY <2>1, <2>3, <2>5, <3>1, QuietValues DEF ServiceRequest
    <3> QED
      BY <1>1, <2>1, <2>2, <2>5, <3>2 DEF ServiceRequest, Quiet
  <2>6. CASE ServiceGone(s)
    <3>1. Quiet(c) => networkEventsQueue' \in Seq(QuietServerEvents)
      BY <2>3, <2>6, QuietValues DEF ServiceGone, Quiet
    <3> QED
      BY <1>1, <2>1, <2>6, <3>1 DEF ServiceGone, Quiet
  <2> QED
    BY <1>4, <2>4, <2>5, <2>6 DEF ServerMain, ServiceServer
<1>5. CASE ServerNetwork
  <2>1. UNCHANGED <<requestQueue, netPC, sentInitRequest, networkEventsQueueClient>>
    BY <1>5 DEF ServerNetwork, clientVars, mainVars, networkVars, sharedVars
  <2>2. ASSUME NEW type, NextServerEvent(type), Quiet(c)
        PROVE  /\ Tail(networkEventsQueue) \in Seq(QuietServerEvents)
               /\ Head(networkEventsQueue) \in QuietServerEvents
               /\ Head(networkEventsQueue).type = type
    <3>1. networkEventsQueue \in Seq(QuietServerEvents) /\ networkEventsQueue # << >>
      BY <2>2 DEF NextServerEvent, Quiet
    <3> QED
      BY <2>2, <3>1, HeadTail DEF NextServerEvent
  <2>3. CASE AddNewPeer
    BY <1>1, <2>1, <2>2, <2>3 DEF AddNewPeer, transportVars, Quiet
  <2>4. CASE SendNewClientID
    <3>1. serverPC = "sendID" /\ UNCHANGED <<up, networkEventsQueue>>
          /\ SendThrough(Len(peers) - 1, [type |-> "NEW_CLIENT_ID", id |-> Len(peers) - 1])
      BY <2>4 DEF SendNewClientID, SendsID
    <3>2. Len(peers) - 1 \in Nat
      BY <1>0, <3>1, EmptySeq DEF PeerToTell
    <3>3. Quiet(c) => down'[c] \in Seq(QuietDown)
      BY <3>1, <3>2, QuietValues, QuietAnswer
    <3> QED
      BY <1>1, <2>1, <3>1, <3>3 DEF Quiet
  <2>5. CASE ProcessClientPacket
    <3> DEFINE request == Head(networkEventsQueue).packet
    <3>1. /\ NextServerEvent("RECEIVE") /\ UNCHANGED up
          /\ SendThrough(request.id, Answer(request)) \/ UNCHANGED down
          /\ networkEventsQueue' = Tail(networkEventsQueue)
      BY <2>5 DEF ProcessClientPacket
    <3>2. Quiet(c) => Answer(request) \in QuietDown
      BY <2>2, <3>1, QuietValues
    <3> HIDE DEF request
    <3>3. Quiet(c) => down'[c] \in Seq(QuietDown)
      BY <3>1, <3>2, QuietAnswer DEF Quiet
    <3> QED
      BY <1>1, <2>1, <2>2, <3>1, <3>3 DEF Quiet
  <2>6. CASE HandleDisconnect
    BY <1>1, <2>1, <2>2, <2>6 DEF HandleDisconnect, transportVars, Quiet
  <2> QED
    BY <1>5, <2>3, <2>4, <2>5, <2>6 DEF ServerNetwork, ServerThread
<1>11. CASE ServerAbort
  <2>1. /\ up'[c] = << >> /\ down'[c] = << >> /\ networkEventsQueue' = << >>
        /\ UNCHANGED clientVars
    BY <1>11 DEF ServerAbort, Abort, AllCut
  <2> QED
    BY <1>1, <2>1, EmptySeq DEF Quiet, clientVars, mainVars, networkVars, sharedVars
<1>6. ASSUME NEW b \in Clients, Receive(b) PROVE AsksOnce(c)'
  <2>1. /\ b = c
        /\ UNCHANGED <<requestQueue, netPC, sentInitRequest, networkEventsQueue>>
    BY <1>6 DEF Receive, ServiceClient, mainVars, networkVars, sharedVars, serverVars
  <2>2. ASSUME Quiet(c), ClientGets(c)
        PROVE  down'[c] \in Seq(QuietDown) /\ Head(down[c]) \in QuietDown
    <3>1. down[c] \in Seq(QuietDown) /\ down[c] # << >> /\ down'[c] = Tail(down[c])
      BY <1>0, <2>2 DEF Quiet, ClientGets, With
    <3> QED
      BY <3>1, HeadTail
  <2>3. ASSUME Quiet(c), NEW e \in QuietClientEvents, AddClientEvent(c, e)
        PROVE  networkEventsQueueClient'[c] \in Seq(QuietClientEvents)
    <3>1. Append(networkEventsQueueClient[c], e) \in Seq(QuietClientEvents)
      BY <2>3, AppendIn DEF Quiet
    <3> QED
      BY <1>0, <2>3, <3>1 DEF AddClientEvent, With
  <2>4. CASE ServiceConnect(c)
    <3>1. up'[c] = <<[type |-> "ACK"]>>
      BY <1>0, <2>4 DEF ServiceConnect, With
    <3>2. <<[type |-> "ACK"]>> \in Seq(QuietUp)
      BY QuietValues, EmptySeq, AppendIn
    <3>3. Quiet(c) => networkEventsQueueClient'[c] \in Seq(QuietClientEvents)
      BY <2>3, <2>4, QuietValues DEF ServiceConnect
    <3> QED
      BY <1>1, <2>1, <2>2, <2>4, <3>1, <3>2, <3>3 DEF ServiceConnect, Quiet
  <2>5. CASE ServicePacket(c)
    <3>1. Quiet(c) => Head(down[c]) \in QuietData /\ Head(down[c]).type # "SCRIPT"
      BY <2>2, <2>5, QuietValues DEF ServicePacket
    <3>2. Quiet(c) => AddClientEvent(c, [type |-> "RECEIVE", packet |-> Head(down[c])])
      BY <2>5, <3>1 DEF ServicePacket
    <3>3. Quiet(c) => networkEventsQueueClient'[c] \in Seq(QuietClientEvents)
      BY <2>3, <3>1, <3>2, QuietValues
    <3> QED
      BY <1>1, <2>1, <2>2, <2>5, <3>3 DEF ServicePacket, Quiet
  <2>6. CASE ServiceLoss(c)
    <3>1. Quiet(c) => networkEventsQueueClient'[c] \in Seq(QuietClientEvents)
      BY <2>3, <2>6, QuietValues DEF ServiceLoss
    <3> QED
      BY <1>1, <2>1, <2>6, <3>1 DEF ServiceLoss, Quiet
  <2> QED
    BY <1>6, <2>1, <2>4, <2>5, <2>6 DEF Receive, ServiceClient
<1>7. ASSUME NEW b \in Clients, Frame(b) PROVE AsksOnce(c)'
  <2>1. b = c /\ UNCHANGED <<down, networkEventsQueue, networkEventsQueueClient, netPC>>
    BY <1>7 DEF Frame, ClientFrame, NoGameEvent, RequestInitScript, RunClientInit, UploadTexture,
                Takes, Postpone, Requeue, serverVars, transportVars, networkVars
  <2>2. CASE Postpone(c)
    BY <1>1, <2>1, <2>2 DEF Postpone, transportVars, networkVars, Quiet
  <2>3. CASE RunClientInit(c)
    <3>1. \/ ModeSwitch(c, currentMode[c], AfterRequest(up, c, "IMAGE"))
          \/ ModeSwitch(c, currentMode[c], up)
      BY <2>3 DEF RunClientInit
    <3>2. Quiet(c) => up[c] \in Seq(QuietUp)
      BY DEF Quiet
    <3> QED
      BY <2>1, <3>1, <3>2, QuietRequest, SwitchAsks
  <2>4. ASSUME NEW mode, ModeSwitch(c, mode, up) PROVE AsksOnce(c)'
    <3>1. Quiet(c) => up[c] \in Seq(QuietUp)
      BY DEF Quiet
    <3> QED
      BY <2>1, <2>4, <3>1, SwitchAsks
  <2> QED
    BY <1>7, <2>1, <2>2, <2>3, <2>4
    DEF Frame, ClientFrame, NoGameEvent, RequestInitScript, UploadTexture, Requeue
<1>8. ASSUME NEW b \in Clients, Handle(b) PROVE AsksOnce(c)'
  <2>1. /\ b = c /\ UNCHANGED <<networkEventsQueue, sentInitRequest>>
        /\ BadImagePacket(c) \/ UNCHANGED <<up, down>>
    BY <1>8 DEF Handle, ClientNetwork, ConnectEvent, DisconnectEvent, UpdateClientPeerID,
                ScriptPacket, RequestAgain, LoadScript, ImagePacket, BadImagePacket,
                serverVars, transportVars, mainVars
  <2>2. ASSUME NEW type, TakesEvent(c, type), Quiet(c)
        PROVE  /\ networkEventsQueueClient'[c] \in Seq(QuietClientEvents)
               /\ NextClientEvent(c) \in QuietClientEvents /\ NextClientEvent(c).type = type
    <3>1. /\ networkEventsQueueClient[c] \in Seq(QuietClientEvents)
          /\ networkEventsQueueClient[c] # << >>
          /\ networkEventsQueueClient'[c] = Tail(networkEventsQueueClient[c])
          /\ NextClientEvent(c) = Head(networkEventsQueueClient[c])
          /\ NextClientEvent(c).type = type
      BY <1>0, <2>2 DEF TakesEvent, NextClientEvent, Quiet, With
    <3> QED
      BY <3>1, HeadTail
  <2>3. CASE ConnectEvent(c) \/ DisconnectEvent(c) \/ UpdateClientPeerID(c) \/ ImagePacket(c)
    <3>1. UNCHANGED <<requestQueue, netPC>> /\ \E type : TakesEvent(c, type)
      BY <2>3 DEF ConnectEvent, DisconnectEvent, UpdateClientPeerID, ImagePacket, TakesPacket,
                  networkVars, sharedVars
    <3>2. UNCHANGED <<up, down>>
      BY <2>3 DEF ConnectEvent, DisconnectEvent, UpdateClientPeerID, ImagePacket, transportVars
    <3> QED
      BY <1>1, <2>1, <2>2, <3>1, <3>2 DEF Quiet
  <2>4. CASE ScriptPacket(c)
    <3>1. /\ TakesEvent(c, "RECEIVE") /\ NextClientEvent(c).packet.type = "SCRIPT"
          /\ requestQueue' = With(requestQueue, c, requestQueue[c] \div 2)
      BY <2>4 DEF ScriptPacket, TakesPacket, Removed
    <3>2. ~Quiet(c)
      BY <2>2, <3>1, QuietValues
    <3>3. requestQueue'[c] = 0
      BY <1>0, <3>1 DEF AsksOnce, With
    <3> QED
      BY <2>1, <3>2, <3>3 DEF AsksOnce
  <2>5. CASE RequestAgain(c)
    <3>1. /\ netPC[c] = "again" /\ netPC' = With(netPC, c, "idle")
          /\ requestQueue' = With(requestQueue, c, requestQueue[c] + 1)
      BY <2>5 DEF RequestAgain, Added
    <3>2. requestQueue'[c] = 1 /\ netPC'[c] = "idle" /\ sentInitRequest[c]
      BY <1>0, <3>1 DEF AsksOnce, Quiet, With
    <3> QED
      BY <2>1, <3>2 DEF AsksOnce
  <2>6. CASE LoadScript(c)
    <3>1. netPC[c] = "load" /\ netPC' = With(netPC, c, "idle") /\ UNCHANGED requestQueue
      BY <2>6 DEF LoadScript
    <3>2. netPC'[c] = "idle" /\ sentInitRequest[c]
      BY <1>0, <3>1 DEF AsksOnce, Quiet, With
    <3> QED
      BY <2>1, <3>1, <3>2 DEF AsksOnce
  <2>7. CASE BadImagePacket(c)
    <3>1. /\ TakesEvent(c, "RECEIVE") /\ UNCHANGED requestQueue
          /\ netPC'[c] = "ended" /\ up'[c] = << >> /\ down'[c] = << >>
      BY <1>0, <2>7 DEF BadImagePacket, TakesPacket, ClientGone, With
    <3>2. Quiet(c) => Quiet(c)'
      BY <2>1, <2>2, <3>1, EmptySeq DEF Quiet
    <3> QED
      BY <2>1, <3>1, <3>2 DEF AsksOnce
  <2> QED
    BY <1>8, <2>1, <2>3, <2>4, <2>5, <2>6, <2>7 DEF Handle, ClientNetwork
<1>9. ASSUME NEW b \in Clients, Retry(b) PROVE AsksOnce(c)'
  <2>1. /\ b = c /\ requestQueue[c] > 0
        /\ UNCHANGED <<requestQueue, netPC, sentInitRequest>>
    BY <1>9 DEF Retry, Resend, clientVars, mainVars, networkVars, sharedVars
  <2>2. ~Quiet(c)
    BY <2>1 DEF Quiet
  <2> QED
    BY <1>1, <2>1, <2>2
<1>10. CASE UNCHANGED vars
  BY <1>1, <1>10 DEF vars, transportVars, serverVars, clientVars, mainVars, networkVars,
                     sharedVars, Quiet
<1> QED
  BY <1>2, <1>3, <1>4, <1>5, <1>6, <1>7, <1>8, <1>9, <1>10, <1>11 DEF Next, Network

(* A lone client has one request queued at most, however often it is sent   *)
(* again, answered and damaged: so c_removeRequest, whose loop can take off *)
(* only one, finds no second.  (With more clients the request of one that   *)
(* does not know its ID yet is answered to another.)                        *)
THEOREM OneRequestAtATime ==
  ASSUME NEW c, Clients = {c}
  PROVE  Spec => []OneRequest
<1>1. Init => AsksOnce(c)
  <2>1. c \in Clients /\ \A S : << >> \in Seq(S)
    BY EmptySeq
  <2> QED
    BY <2>1 DEF Init, TransportInit, ServerInit, ClientInit, Each, AsksOnce, Quiet
<1>2. IInv /\ AsksOnce(c) /\ [Next]_vars => AsksOnce(c)'
  BY AsksStep DEF IInv
<1>3. AsksOnce(c) => OneRequest
  BY DEF AsksOnce, OneRequest
<1> QED
  BY <1>1, <1>2, <1>3, Invariance, PTL DEF Spec

-----------------------------------------------------------------------------
(* IDs that lead home.                                                      *)

(* What these sets hold.                                                    *)
LEMMA OwnValues ==
  ASSUME NEW c \in Clients
  PROVE  /\ [type |-> "CONNECT"] \in OwnDown(c)
         /\ \A p \in OwnDown(c) : p.type # "CONNECT" => p \in OwnData(c)
         /\ \A p \in OwnData(c) : p \in OwnDown(c) /\ (p.type = "NEW_CLIENT_ID" => p.id \in Own(c))
         /\ \A id \in Own(c) : [type |-> "NEW_CLIENT_ID", id |-> id] \in OwnData(c)
         /\ \A good \in BOOLEAN : [type |-> "SCRIPT", good |-> good] \in OwnData(c)
         /\ \A r : Answer(r) \in OwnData(c)
         /\ \A type \in {"CONNECT", "DISCONNECT"} : [type |-> type] \in OwnClientEvents(c)
         /\ \A p \in OwnData(c) : [type |-> "RECEIVE", packet |-> p] \in OwnClientEvents(c)
         /\ \A e \in OwnClientEvents(c) : e.type = "RECEIVE" => e.packet \in OwnData(c)
BY DEF OwnData, OwnDown, OwnClientEvents, Answer

(* They depend on peers alone,                                              *)
LEMMA SameOwn ==
  ASSUME peers' = peers
  PROVE  \A c : Own(c)' = Own(c) /\ OwnDown(c)' = OwnDown(c)
                /\ OwnClientEvents(c)' = OwnClientEvents(c)
BY DEF Own, OwnData, OwnDown, OwnClientEvents

(* and grow with it.                                                        *)
LEMMA MoreOwn ==
  ASSUME peers \in Seq(Copies), NEW e, peers' = Append(peers, e), NEW c
  PROVE  Own(c) \subseteq Own(c)' /\ OwnDown(c) \subseteq OwnDown(c)'
         /\ OwnClientEvents(c) \subseteq OwnClientEvents(c)'
<1>1. /\ Len(peers) \in Nat /\ Len(peers') = Len(peers) + 1
      /\ \A i \in 1..Len(peers) : peers'[i] = peers[i]
  OBVIOUS
<1>2. Own(c) \subseteq Own(c)'
  <2> SUFFICES ASSUME NEW id \in Own(c) PROVE id \in Own(c)'
    OBVIOUS
  <2>1. id \in Nat /\ id < Len(peers) /\ peers[id + 1].client = c /\ peers[id + 1].open
    BY DEF Own
  <2>2. id + 1 \in 1..Len(peers) /\ id < Len(peers')
    BY <1>1, <2>1
  <2> QED
    BY <1>1, <2>1, <2>2 DEF Own
<1> QED
  BY <1>2 DEF OwnData, OwnDown, OwnClientEvents

(* What has been written into freed channels stays written.                 *)
LEMMA WildStays ==
  ASSUME [Next]_vars, ~wild'
  PROVE  ~wild
<1>1. CASE UNCHANGED serverVars
  BY <1>1 DEF serverVars
<1>2. CASE Network
  BY <1>1, <1>2 DEF Network
<1>3. ASSUME NEW s \in Slots, ServerMain(s) PROVE ~wild
  BY <1>3 DEF ServerMain, ServiceServer
<1>4. CASE ServerNetwork
  BY <1>4 DEF ServerNetwork, ServerThread, AddNewPeer, SendNewClientID, SendsID,
              ProcessClientPacket, HandleDisconnect, SendThrough
<1>5. CASE ServerAbort
  BY <1>5 DEF ServerAbort, Abort
<1>6. ASSUME NEW c \in Clients, Receive(c) \/ Frame(c) \/ Handle(c) \/ Retry(c) PROVE ~wild
  BY <1>1, <1>6 DEF Receive, Frame, Handle, Retry
<1>7. CASE UNCHANGED vars
  BY <1>1, <1>7 DEF vars
<1> QED
  BY <1>2, <1>3, <1>4, <1>5, <1>6, <1>7 DEF Next

(* An open slot stays some client's, and so does the copy of one.           *)
LEMMA TakenStep ==
  ASSUME TypeOK, SlotsTaken, [Next]_vars
  PROVE  SlotsTaken'
<1>0. /\ occupant \in [Slots -> Clients \cup {NoClient}] /\ open \subseteq Slots
      /\ peers \in Seq(Copies) /\ Len(peers) \in Nat
  BY DEF TypeOK, TransportTypeOK, ServerTypeOK
<1>1. CASE UNCHANGED <<occupant, open, peers>>
  BY <1>1 DEF SlotsTaken
<1>2. ASSUME NEW c \in Clients, NEW s \in Slots, Accept(c, s), UNCHANGED <<serverVars, clientVars>>
      PROVE  SlotsTaken'
  <2>1. occupant' = [occupant EXCEPT ![s] = c] /\ UNCHANGED <<open, peers>>
    BY <1>2 DEF Accept, serverVars
  <2>2. \A t \in open : occupant'[t] \in Clients
    BY <1>0, <2>1 DEF SlotsTaken
  <2> QED
    BY <2>1, <2>2 DEF SlotsTaken
<1>3. ASSUME NEW s \in Slots, ServerMain(s) PROVE SlotsTaken'
  <2>1. UNCHANGED peers /\ occupant[s] \in Clients
    BY <1>0, <1>3 DEF ServerMain, ServiceServer
  <2>2. CASE ServiceConfirmation(s)
    BY <2>1, <2>2 DEF ServiceConfirmation, SlotsTaken
  <2>3. CASE ServiceRequest(s)
    BY <1>1, <2>1, <2>3 DEF ServiceRequest
  <2>4. CASE ServiceGone(s)
    <3>1. occupant' = [occupant EXCEPT ![s] = NoClient] /\ open' = open \ {s}
      BY <2>4 DEF ServiceGone
    <3>2. \A t \in open' : occupant'[t] = occupant[t]
      BY <1>0, <3>1
    <3> QED
      BY <2>1, <3>1, <3>2 DEF SlotsTaken
  <2> QED
    BY <1>3, <2>2, <2>3, <2>4 DEF ServerMain, ServiceServer
<1>4. CASE AddNewPeer
  <2> DEFINE s == Head(networkEventsQueue).peer
             e == [slot |-> s, client |-> occupant[s], open |-> s \in open]
  <2>1. peers' = Append(peers, e) /\ UNCHANGED <<occupant, open>>
    BY <1>4 DEF AddNewPeer, transportVars
  <2>2. e.open => e.client \in Clients
    BY DEF SlotsTaken
  <2> HIDE DEF e
  <2>3. \A i \in 1..Len(peers') : \/ i \in 1..Len(peers) /\ peers'[i] = peers[i]
                               \/ peers'[i] = e
    BY <1>0, <2>1
  <2>4. \A i \in 1..Len(peers') : peers'[i].open => peers'[i].client \in Clients
    BY <2>2, <2>3 DEF SlotsTaken
  <2> QED
    BY <2>1, <2>4 DEF SlotsTaken
<1>5. CASE ServerNetwork /\ ~AddNewPeer
  BY <1>1, <1>5 DEF ServerNetwork, ServerThread, SendNewClientID, SendsID, ProcessClientPacket,
                    HandleDisconnect, transportVars
<1>6. CASE ServerAbort
  BY <1>1, <1>6 DEF ServerAbort, Abort, AllCut
<1>7. ASSUME NEW c \in Clients, Cut(c), UNCHANGED <<serverVars, clientVars>>
      PROVE  SlotsTaken'
  BY <1>1, <1>7 DEF Cut, serverVars
<1>8. ASSUME NEW c \in Clients, Receive(c) \/ Retry(c) PROVE SlotsTaken'
  BY <1>1, <1>8 DEF Receive, ServiceClient, Retry, Resend, serverVars
<1>9. ASSUME NEW c \in Clients, Handle(c) PROVE SlotsTaken'
  BY <1>1, <1>9 DEF Handle, ClientNetwork, ConnectEvent, DisconnectEvent, UpdateClientPeerID,
     ScriptPacket, RequestAgain, LoadScript, ImagePacket, BadImagePacket, ClientGone,
     transportVars, serverVars
<1>10. ASSUME NEW c \in Clients, Frame(c) PROVE SlotsTaken'
  BY <1>1, <1>10 DEF Frame, ClientFrame, NoGameEvent, RequestInitScript, RunClientInit,
     UploadTexture, Takes, Postpone, Requeue, transportVars, serverVars
<1>11. CASE UNCHANGED vars
  BY <1>1, <1>11 DEF vars, transportVars, serverVars
<1> QED
  BY <1>2, <1>3, <1>4, <1>5, <1>6, <1>7, <1>8, <1>9, <1>10, <1>11 DEF Next, Network, ServerNetwork

(* What is sent through a copy goes to its client, or nowhere.              *)
LEMMA SentToCopy ==
  ASSUME SlotsTaken, ~wild', NEW id \in Nat, id + 1 \in 1..Len(peers), NEW packet,
         SendThrough(id, packet)
  PROVE  /\ adrift \subseteq adrift'
         /\ \/ /\ UNCHANGED down
               /\ peers[id + 1].open => link[peers[id + 1].client] # "connected" \/ id \in adrift'
            \/ /\ peers[id + 1].client \in Clients /\ peers[id + 1].open /\ id \notin adrift
               /\ link[peers[id + 1].client] = "connected"
               /\ down' = [down EXCEPT ![peers[id + 1].client] = Append(@, packet)]
<1> DEFINE copy == peers[id + 1]
<1>1. copy.open => copy.client \in Clients
  BY DEF SlotsTaken
<1> HIDE DEF copy
<1>2. \/ ~copy.open /\ UNCHANGED <<down, adrift>>
      \/ /\ copy.open /\ id \notin adrift
         /\ down' = DownAfter(copy.client, packet) /\ UNCHANGED adrift
      \/ copy.open /\ adrift' = adrift \cup {id} /\ UNCHANGED down
  BY DEF SendThrough, PeerFromClientID, copy
<1>3. CASE ~copy.open /\ UNCHANGED <<down, adrift>>
  BY <1>3 DEF copy
<1>4. CASE /\ copy.open /\ id \notin adrift
           /\ down' = DownAfter(copy.client, packet) /\ UNCHANGED adrift
  BY <1>1, <1>4 DEF DownAfter, copy
<1>5. CASE copy.open /\ adrift' = adrift \cup {id} /\ UNCHANGED down
  BY <1>5 DEF copy
<1> QED
  BY <1>2, <1>3, <1>4, <1>5

(* So does what link says of them.                                          *)
LEMMA LinkedStep ==
  ASSUME TypeOK, SlotsTaken, Linked, PeerToTell, IDsKnown, [Next]_vars, ~wild'
  PROVE  Linked'
<1>0. /\ occupant \in [Slots -> Clients \cup {NoClient}] /\ open \subseteq Slots
      /\ link \in [Clients -> {"idle", "connecting", "connected", "cut", "lost"}]
      /\ up \in [Clients -> Seq(UpPackets)] /\ down \in [Clients -> Seq(DownPackets)]
      /\ peers \in Seq(Copies) /\ Len(peers) \in Nat
      /\ \A i \in 1..Len(peers) : /\ peers[i].slot \in Slots /\ CopyLinked(peers[i])
                                  /\ peers[i].open => peers[i].client \in Clients
      /\ NoClient \notin Clients
  <2>1. \A i \in 1..Len(peers) : peers[i] \in Copies
    BY DEF TypeOK, ServerTypeOK
  <2> QED
    BY <2>1, TransportAssumption DEF TypeOK, TransportTypeOK, ServerTypeOK, Copies,
                                     SlotsTaken, Linked
\* a step of the server's that leaves link alone
<1>1. CASE UNCHANGED <<link, up, down, occupant, open, peers>>
  BY <1>1 DEF Linked, CopyLinked
<1>2. ASSUME NEW c \in Clients, Cut(c), UNCHANGED <<serverVars, clientVars>>
      PROVE  Linked'
  <2>1. /\ link' = [link EXCEPT ![c] = "cut"] /\ up' = [up EXCEPT ![c] = << >>]
        /\ down' = [down EXCEPT ![c] = << >>] /\ UNCHANGED <<occupant, open, peers>>
    BY <1>2 DEF Cut, serverVars
  <2>2. \A i \in 1..Len(peers) : CopyLinked(peers[i])'
    BY <1>0, <2>1 DEF CopyLinked
  <2>3. \A s \in open : link'[occupant[s]] \in {"connected", "cut", "lost"}
    BY <1>0, <2>1 DEF Linked, SlotsTaken
  <2> QED
    BY <1>0, <2>1, <2>2, <2>3 DEF Linked, CopyLinked
<1>3. ASSUME NEW c \in Clients, NEW s \in Slots, Accept(c, s), UNCHANGED <<serverVars, clientVars>>
      PROVE  Linked'
  <2>1. /\ link[c] = "idle" /\ occupant[s] = NoClient
        /\ link' = [link EXCEPT ![c] = "connecting"] /\ occupant' = [occupant EXCEPT ![s] = c]
        /\ down' = [down EXCEPT ![c] = <<[type |-> "CONNECT"]>>]
        /\ UNCHANGED <<up, open, peers>>
    BY <1>3 DEF Accept, serverVars
  <2>2. ASSUME NEW i \in 1..Len(peers), peers[i].open
        PROVE  /\ peers[i].client # c
               /\ link[peers[i].client] = "connected" => peers[i].slot # s
    BY <1>0, <2>1, <2>2 DEF CopyLinked
  <2>3. \A i \in 1..Len(peers) : CopyLinked(peers[i])'
    BY <1>0, <2>1, <2>2 DEF CopyLinked
  <2>4. \A t \in open : link'[occupant'[t]] \in {"connected", "cut", "lost"}
    BY <1>0, <2>1 DEF Linked, SlotsTaken
  <2>5. \A b \in Clients : /\ up'[b] # << >> => link'[b] = "connected"
                           /\ link'[b] \in {"cut", "lost"} => down'[b] = << >>
    BY <1>0, <2>1 DEF Linked
  <2> QED
    BY <2>1, <2>3, <2>4, <2>5 DEF Linked
<1>4. ASSUME NEW s \in Slots, ServerMain(s) PROVE Linked'
  <2>1. /\ UNCHANGED <<link, down, peers>> /\ occupant[s] \in Clients
    BY <1>0, <1>4 DEF ServerMain, ServiceServer
  <2>2. CASE ServiceConfirmation(s)
    <3>1. /\ up[occupant[s]] # << >> /\ up' = [up EXCEPT ![occupant[s]] = Tail(@)]
          /\ open' = open \cup {s} /\ UNCHANGED occupant
      BY <2>2 DEF ServiceConfirmation, ServerGets
    <3>2. link[occupant[s]] = "connected"
      BY <2>1, <3>1 DEF Linked
    <3> QED
      BY <1>0, <2>1, <3>1, <3>2 DEF Linked, CopyLinked
  <2>3. CASE ServiceRequest(s)
    <3>1. /\ up[occupant[s]] # << >> /\ up' = [up EXCEPT ![occupant[s]] = Tail(@)]
          /\ UNCHANGED <<open, occupant>>
      BY <2>3 DEF ServiceRequest, ServerGets
    <3>2. link[occupant[s]] = "connected"
      BY <2>1, <3>1 DEF Linked
    <3> QED
      BY <1>0, <2>1, <3>1, <3>2 DEF Linked, CopyLinked
  <2>4. CASE ServiceGone(s)
    <3>1. /\ link[occupant[s]] \in {"cut", "lost"} /\ UNCHANGED up
          /\ occupant' = [occupant EXCEPT ![s] = NoClient] /\ open' = open \ {s}
      BY <2>4 DEF ServiceGone
    <3>2. \A i \in 1..Len(peers) : CopyLinked(peers[i])'
      BY <1>0, <2>1, <3>1 DEF CopyLinked
    <3>3. \A t \in open' : link[occupant'[t]] \in {"connected", "cut", "lost"}
      BY <1>0, <3>1 DEF Linked
    <3> QED
      BY <2>1, <3>1, <3>2, <3>3 DEF Linked
  <2> QED
    BY <1>4, <2>2, <2>3, <2>4 DEF ServerMain, ServiceServer
<1>5. CASE AddNewPeer
  <2> DEFINE s == Head(networkEventsQueue).peer
             e == [slot |-> s, client |-> occupant[s], open |-> s \in open]
  <2>1. peers' = Append(peers, e) /\ UNCHANGED <<link, up, down, occupant, open>>
    BY <1>5 DEF AddNewPeer, transportVars
  <2>2. CopyLinked(e)
    BY DEF Linked, CopyLinked
  <2> HIDE DEF e
  <2>3. \A i \in 1..Len(peers') : \/ i \in 1..Len(peers) /\ peers'[i] = peers[i]
                               \/ peers'[i] = e
    BY <1>0, <2>1
  <2>4. \A i \in 1..Len(peers') : CopyLinked(peers'[i])
    BY <1>0, <2>2, <2>3
  <2> QED
    BY <2>1, <2>4 DEF Linked, CopyLinked
<1>6. ASSUME NEW id \in Nat, id + 1 \in 1..Len(peers), NEW packet, SendThrough(id, packet),
             UNCHANGED <<link, up, occupant, open, peers>>
      PROVE  Linked'
  <2>1. CASE UNCHANGED down
    BY <1>1, <1>6, <2>1
  <2>2. ASSUME NEW c \in Clients, link[c] = "connected",
               down' = [down EXCEPT ![c] = Append(@, packet)]
        PROVE  Linked'
    BY <1>0, <1>6, <2>2 DEF Linked, CopyLinked
  <2> QED
    BY <1>6, <2>1, <2>2, SentToCopy
<1>7. CASE SendNewClientID
  <2>1. Len(peers) - 1 \in Nat /\ (Len(peers) - 1) + 1 \in 1..Len(peers)
    BY <1>0, <1>7, EmptySeq DEF PeerToTell, SendNewClientID, SendsID
  <2> QED
    BY <1>6, <1>7, <2>1 DEF SendNewClientID, SendsID
<1>8. CASE ProcessClientPacket
  <2>1. networkEventsQueue \in Seq(KnownServerEvents) /\ networkEventsQueue # << >>
        /\ Head(networkEventsQueue).type = "RECEIVE"
    BY <1>8 DEF ProcessClientPacket, NextServerEvent, IDsKnown
  <2>2. Head(networkEventsQueue).packet \in KnownRequests
    BY <2>1, HeadTail, KnownValues
  <2>3. Head(networkEventsQueue).packet.id \in Nat
        /\ Head(networkEventsQueue).packet.id + 1 \in 1..Len(peers)
    BY <1>0, <1>8, <2>2 DEF KnownRequests, KnownIDs, ProcessClientPacket
  <2> QED
    BY <1>1, <1>6, <1>8, <2>3 DEF ProcessClientPacket
<1>9. CASE HandleDisconnect
  BY <1>1, <1>9 DEF HandleDisconnect, transportVars
<1>10. ASSUME NEW c \in Clients, Receive(c) PROVE Linked'
  <2>1. UNCHANGED <<occupant, open, peers>>
    BY <1>10 DEF Receive, ServiceClient, serverVars
  <2>2. ASSUME down[c] # << >>, down' = With(down, c, Tail(down[c])), UNCHANGED <<link, up>>
        PROVE  Linked'
    BY <1>0, <2>1, <2>2 DEF Linked, CopyLinked, With
  <2>3. CASE ServiceConnect(c)
    <3>1. /\ down[c] # << >> /\ down' = With(down, c, Tail(down[c]))
          /\ link' = With(link, c, "connected") /\ up' = With(up, c, <<[type |-> "ACK"]>>)
      BY <2>3 DEF ServiceConnect, ClientGets
    <3>2. link[c] \notin {"cut", "lost"}
      BY <3>1 DEF Linked
    <3>3. \A i \in 1..Len(peers) : CopyLinked(peers[i])'
      BY <1>0, <2>1, <3>1, <3>2 DEF CopyLinked, With
    <3>4. \A t \in open : link'[occupant[t]] \in {"connected", "cut", "lost"}
      BY <1>0, <3>1 DEF Linked, With
    <3>5. \A b \in Clients : /\ up'[b] # << >> => link'[b] = "connected"
                             /\ link'[b] \in {"cut", "lost"} => down'[b] = << >>
      BY <1>0, <3>1 DEF Linked, With
    <3> QED
      BY <2>1, <3>3, <3>4, <3>5 DEF Linked
  <2>4. CASE ServicePacket(c)
    BY <2>2, <2>4 DEF ServicePacket, ClientGets
  <2>5. CASE ServiceLoss(c)
    <3>1. link[c] = "cut" /\ link' = With(link, c, "lost") /\ UNCHANGED <<up, down>>
      BY <2>5 DEF ServiceLoss
    <3>2. \A i \in 1..Len(peers) : CopyLinked(peers[i])'
      BY <1>0, <2>1, <3>1 DEF CopyLinked, With
    <3>3. \A t \in open : link'[occupant[t]] \in {"connected", "cut", "lost"}
      BY <1>0, <3>1 DEF Linked, With
    <3> QED
      BY <1>0, <2>1, <3>1, <3>2, <3>3 DEF Linked, With
  <2> QED
    BY <1>10, <2>3, <2>4, <2>5 DEF Receive, ServiceClient
\* what a client sends, it sends only when it is connected
<1>11. ASSUME NEW c \in Clients, NEW type, NEW wire,
              \A b \in Clients : wire[b] # << >> => link[b] = "connected"
       PROVE  \A b \in Clients : AfterRequest(wire, c, type)[b] # << >> => link[b] = "connected"
  BY <1>11 DEF AfterRequest, UpAfter
<1>12. ASSUME UNCHANGED <<link, down, occupant, open, peers>>,
              \A b \in Clients : up'[b] # << >> => link[b] = "connected"
       PROVE  Linked'
  BY <1>12 DEF Linked, CopyLinked
<1>13. ASSUME NEW c \in Clients, Frame(c) PROVE Linked'
  <2>1. UNCHANGED <<link, down, occupant, open, peers>>
    BY <1>13 DEF Frame, ClientFrame, NoGameEvent, RequestInitScript, RunClientInit,
       UploadTexture, Takes, Postpone, Requeue, transportVars, serverVars
  <2>2. ASSUME NEW mode, NEW wire, ModeSwitch(c, mode, wire),
               \A b \in Clients : wire[b] # << >> => link[b] = "connected"
        PROVE  Linked'
    <3>1. up' = wire \/ up' = AfterRequest(wire, c, "INIT_SCRIPT")
      BY <2>2 DEF ModeSwitch
    <3> QED
      BY <1>11, <1>12, <2>1, <2>2, <3>1
  <2>3. CASE Postpone(c)
    BY <1>1, <2>1, <2>3 DEF Postpone, transportVars
  <2>4. \A b \in Clients : up[b] # << >> => link[b] = "connected"
    BY DEF Linked
  <2>5. CASE RunClientInit(c)
    <3>1. \/ ModeSwitch(c, currentMode[c], AfterRequest(up, c, "IMAGE"))
          \/ ModeSwitch(c, currentMode[c], up)
      BY <2>5 DEF RunClientInit
    <3> QED
      BY <1>11, <2>2, <2>4, <3>1
  <2> QED
    BY <1>13, <2>2, <2>3, <2>4, <2>5
    DEF Frame, ClientFrame, NoGameEvent, RequestInitScript, UploadTexture, Requeue
<1>14. ASSUME NEW c \in Clients, Handle(c) PROVE Linked'
  <2>1. CASE BadImagePacket(c)
    <3>1. /\ link' = [link EXCEPT ![c] = "lost"] /\ up' = [up EXCEPT ![c] = << >>]
          /\ down' = [down EXCEPT ![c] = << >>] /\ UNCHANGED <<occupant, open, peers>>
      BY <1>14, <2>1 DEF Handle, BadImagePacket, ClientGone, serverVars
    <3>2. \A i \in 1..Len(peers) : CopyLinked(peers[i])'
      BY <1>0, <3>1 DEF CopyLinked
    <3>3. \A s \in open : link'[occupant[s]] \in {"connected", "cut", "lost"}
      BY <1>0, <3>1 DEF Linked, SlotsTaken
    <3> QED
      BY <1>0, <3>1, <3>2, <3>3 DEF Linked, CopyLinked
  <2>2. CASE ~BadImagePacket(c)
    BY <1>1, <1>14, <2>2 DEF Handle, ClientNetwork, ConnectEvent, DisconnectEvent,
       UpdateClientPeerID, ScriptPacket, RequestAgain, LoadScript, ImagePacket, transportVars,
       serverVars
  <2> QED
    BY <2>1, <2>2
<1>15. ASSUME NEW c \in Clients, Retry(c) PROVE Linked'
  <2>1. up' = AfterRequest(up, c, "INIT_SCRIPT") /\ UNCHANGED <<link, down, occupant, open, peers>>
    BY <1>15 DEF Retry, Resend, serverVars
  <2>2. \A b \in Clients : up[b] # << >> => link[b] = "connected"
    BY DEF Linked
  <2> QED
    BY <1>11, <1>12, <2>1, <2>2
<1>16. CASE ServerAbort
  <2>1. /\ link' = [c \in Clients |->
                        IF link[c] \in {"connecting", "connected"} THEN "cut" ELSE link[c]]
        /\ up' = [c \in Clients |-> << >>] /\ down' = [c \in Clients |-> << >>]
        /\ UNCHANGED <<occupant, open, peers>>
    BY <1>16 DEF ServerAbort, Abort, AllCut
  <2>2. \A i \in 1..Len(peers) : CopyLinked(peers[i])'
    BY <1>0, <2>1 DEF CopyLinked
  <2>3. \A s \in open : link'[occupant[s]] \in {"connected", "cut", "lost"}
    BY <1>0, <2>1 DEF Linked, SlotsTaken
  <2> QED
    BY <2>1, <2>2, <2>3 DEF Linked, CopyLinked
<1>17. CASE UNCHANGED vars
  BY <1>1, <1>17 DEF vars, transportVars, serverVars
<1> QED
  BY <1>2, <1>3, <1>4, <1>5, <1>7, <1>8, <1>9, <1>10, <1>13, <1>14, <1>15, <1>16, <1>17
  DEF Next, Network, ServerNetwork, ServerThread

(* The IDs under way stay those of the clients they are on their way to.    *)
LEMMA OwnStep ==
  ASSUME TypeOK, IDsKnown, SlotsTaken, PeerToTell, IDsOwn, [Next]_vars, ~wild'
  PROVE  IDsOwn'
<1>0. /\ peers \in Seq(Copies) /\ Len(peers) \in Nat
      /\ down \in [Clients -> Seq(DownPackets)] /\ hasID \in [Clients -> BOOLEAN]
      /\ DOMAIN networkEventsQueueClient = Clients /\ DOMAIN clientID = Clients
      /\ networkEventsQueueClient = [c \in Clients |-> networkEventsQueueClient[c]]
      /\ clientID = [c \in Clients |-> clientID[c]]
      /\ \A c \in Clients : /\ hasID[c] => clientID[c] \in Own(c)
                            /\ down[c] \in Seq(OwnDown(c))
                            /\ networkEventsQueueClient[c] \in Seq(OwnClientEvents(c))
  BY DEF TypeOK, TransportTypeOK, ServerTypeOK, ClientTypeOK, IDsOwn, IDsKnown
\* a step that leaves peers and two of the three alone
<1>1. ASSUME UNCHANGED <<peers, networkEventsQueueClient, hasID, clientID>>,
             \A c \in Clients : down'[c] \in Seq(OwnDown(c))
      PROVE  IDsOwn'
  BY <1>0, <1>1, SameOwn DEF IDsOwn
<1>2. ASSUME UNCHANGED <<peers, down, hasID, clientID>>,
             \A c \in Clients : networkEventsQueueClient'[c] \in Seq(OwnClientEvents(c))
      PROVE  IDsOwn'
  BY <1>0, <1>2, SameOwn DEF IDsOwn
<1>3. CASE UNCHANGED <<peers, down, networkEventsQueueClient, hasID, clientID>>
  BY <1>0, <1>1, <1>3
<1>4. ASSUME NEW c \in Clients, Cut(c), UNCHANGED <<serverVars, clientVars>>
      PROVE  IDsOwn'
  <2>1. /\ UNCHANGED <<peers, networkEventsQueueClient, hasID, clientID>>
        /\ down' = [down EXCEPT ![c] = << >>]
    BY <1>4 DEF Cut, serverVars, clientVars, networkVars
  <2>2. \A b \in Clients : down'[b] \in Seq(OwnDown(b))
    BY <1>0, <2>1, EmptySeq
  <2> QED
    BY <1>1, <2>1, <2>2
<1>5. ASSUME NEW c \in Clients, NEW s \in Slots, Accept(c, s), UNCHANGED <<serverVars, clientVars>>
      PROVE  IDsOwn'
  <2>1. /\ UNCHANGED <<peers, networkEventsQueueClient, hasID, clientID>>
        /\ down' = [down EXCEPT ![c] = <<[type |-> "CONNECT"]>>]
    BY <1>5 DEF Accept, serverVars, clientVars, networkVars
  <2>2. <<[type |-> "CONNECT"]>> \in Seq(OwnDown(c))
    BY OwnValues, EmptySeq, AppendIn
  <2>3. \A b \in Clients : down'[b] \in Seq(OwnDown(b))
    BY <1>0, <2>1, <2>2
  <2> QED
    BY <1>1, <2>1, <2>3
<1>6. ASSUME NEW s \in Slots, ServerMain(s) PROVE IDsOwn'
  BY <1>3, <1>6 DEF ServerMain, ServiceServer, clientVars, networkVars
<1>7. CASE AddNewPeer /\ UNCHANGED clientVars
  <2> DEFINE s == Head(networkEventsQueue).peer
             e == [slot |-> s, client |-> occupant[s], open |-> s \in open]
  <2>1. peers' = Append(peers, e) /\ UNCHANGED <<down, networkEventsQueueClient, hasID, clientID>>
    BY <1>7 DEF AddNewPeer, transportVars, clientVars, networkVars
  <2> HIDE DEF e
  <2> SUFFICES ASSUME NEW c \in Clients
               PROVE  /\ hasID[c] => clientID[c] \in Own(c)'
                      /\ down[c] \in Seq(OwnDown(c)')
                      /\ networkEventsQueueClient[c] \in Seq(OwnClientEvents(c)')
    BY <2>1 DEF IDsOwn
  <2>2. Own(c) \subseteq Own(c)' /\ OwnDown(c) \subseteq OwnDown(c)'
        /\ OwnClientEvents(c) \subseteq OwnClientEvents(c)'
    BY <1>0, <2>1, MoreOwn
  <2> QED
    BY <1>0, <2>2, SeqMonotonic
\* a packet for the client the copy was made of
<1>8. ASSUME NEW id \in Nat, id + 1 \in 1..Len(peers), NEW packet, SendThrough(id, packet),
             UNCHANGED <<peers, networkEventsQueueClient, hasID, clientID>>,
             peers[id + 1].client \in Clients /\ peers[id + 1].open
                 => packet \in OwnDown(peers[id + 1].client)
      PROVE  IDsOwn'
  <2>1. CASE UNCHANGED down
    BY <1>3, <1>8, <2>1
  <2>2. ASSUME NEW c \in Clients, peers[id + 1].client = c, peers[id + 1].open,
               down' = [down EXCEPT ![c] = Append(@, packet)]
        PROVE  IDsOwn'
    <3>1. Append(down[c], packet) \in Seq(OwnDown(c))
      BY <1>0, <1>8, <2>2, AppendIn
    <3>2. \A b \in Clients : down'[b] \in Seq(OwnDown(b))
      BY <1>0, <2>2, <3>1
    <3> QED
      BY <1>1, <1>8, <3>2
  <2> QED
    BY <1>8, <2>1, <2>2, SentToCopy
<1>9. CASE SendNewClientID /\ UNCHANGED clientVars
  <2> DEFINE id == Len(peers) - 1
             packet == [type |-> "NEW_CLIENT_ID", id |-> id]
  <2>1. id \in Nat /\ id < Len(peers) /\ id + 1 \in 1..Len(peers)
    BY <1>0, <1>9, EmptySeq DEF PeerToTell, SendNewClientID, SendsID
  <2>2. ASSUME peers[id + 1].client \in Clients, peers[id + 1].open
        PROVE  packet \in OwnDown(peers[id + 1].client)
    <3>1. id \in Own(peers[id + 1].client)
      BY <2>1, <2>2 DEF Own
    <3> QED
      BY <2>2, <3>1, OwnValues
  <2>3. /\ SendThrough(id, packet)
        /\ UNCHANGED <<peers, networkEventsQueueClient, hasID, clientID>>
    BY <1>9 DEF SendNewClientID, SendsID, clientVars, networkVars
  <2> HIDE DEF id, packet
  <2> QED
    BY <1>8, <2>1, <2>2, <2>3
<1>10. CASE ProcessClientPacket /\ UNCHANGED clientVars
  <2> DEFINE request == Head(networkEventsQueue).packet
  <2>1. networkEventsQueue \in Seq(KnownServerEvents) /\ networkEventsQueue # << >>
        /\ Head(networkEventsQueue).type = "RECEIVE"
    BY <1>10 DEF ProcessClientPacket, NextServerEvent, IDsKnown
  <2>2. request \in KnownRequests
    BY <2>1, HeadTail, KnownValues
  <2>3. request.id \in Nat /\ request.id + 1 \in 1..Len(peers)
    BY <1>0, <1>10, <2>2 DEF KnownRequests, KnownIDs, ProcessClientPacket
  <2>4. /\ SendThrough(request.id, Answer(request)) \/ UNCHANGED down
        /\ UNCHANGED <<peers, networkEventsQueueClient, hasID, clientID>>
    BY <1>10 DEF ProcessClientPacket, clientVars, networkVars
  <2>5. \A c \in Clients : Answer(request) \in OwnDown(c)
    BY OwnValues
  <2> QED
    BY <1>3, <1>8, <2>3, <2>4, <2>5
<1>11. CASE HandleDisconnect /\ UNCHANGED clientVars
  BY <1>3, <1>11 DEF HandleDisconnect, transportVars, clientVars, networkVars
<1>12. ASSUME NEW c \in Clients, Receive(c) PROVE IDsOwn'
  <2>1. UNCHANGED <<peers, hasID, clientID>>
    BY <1>12 DEF Receive, ServiceClient, networkVars, serverVars
  <2>2. ASSUME NEW e \in OwnClientEvents(c), AddClientEvent(c, e)
        PROVE  \A b \in Clients : networkEventsQueueClient'[b] \in Seq(OwnClientEvents(b))
    <3>1. Append(networkEventsQueueClient[c], e) \in Seq(OwnClientEvents(c))
      BY <1>0, <2>2, AppendIn
    <3> QED
      BY <1>0, <2>2, <3>1 DEF AddClientEvent, With
  <2>3. ASSUME ClientGets(c)
        PROVE  /\ Head(down[c]) \in OwnDown(c)
               /\ \A b \in Clients : down'[b] \in Seq(OwnDown(b))
    <3>1. Head(down[c]) \in OwnDown(c) /\ Tail(down[c]) \in Seq(OwnDown(c))
      BY <1>0, <2>3, HeadTail DEF ClientGets
    <3> QED
      BY <1>0, <2>3, <3>1 DEF ClientGets, With
  <2>4. ASSUME \A b \in Clients : down'[b] \in Seq(OwnDown(b)),
               NEW e \in OwnClientEvents(c), AddClientEvent(c, e)
        PROVE  IDsOwn'
    BY <1>0, <2>1, <2>2, <2>4, SameOwn DEF IDsOwn
  <2>5. CASE ServiceConnect(c)
    <3>1. [type |-> "CONNECT"] \in OwnClientEvents(c)
      BY OwnValues
    <3> QED
      BY <2>3, <2>4, <2>5, <3>1 DEF ServiceConnect
  <2>6. CASE ServicePacket(c)
    <3>1. Head(down[c]) \in OwnData(c)
      BY <2>3, <2>6, OwnValues DEF ServicePacket
    <3>2. /\ [type |-> "RECEIVE", packet |-> Head(down[c])] \in OwnClientEvents(c)
          /\ [type |-> "RECEIVE", packet |-> [type |-> "SCRIPT", good |-> FALSE]]
                 \in OwnClientEvents(c)
      BY <3>1, OwnValues
    <3> QED
      BY <2>3, <2>4, <2>6, <3>2 DEF ServicePacket
  <2>7. CASE ServiceLoss(c)
    <3>1. [type |-> "DISCONNECT"] \in OwnClientEvents(c)
      BY OwnValues
    <3> QED
      BY <1>0, <2>4, <2>7, <3>1 DEF ServiceLoss
  <2> QED
    BY <1>12, <2>5, <2>6, <2>7 DEF Receive, ServiceClient
<1>13. ASSUME NEW c \in Clients, Frame(c) PROVE IDsOwn'
  BY <1>3, <1>13 DEF Frame, ClientFrame, NoGameEvent, RequestInitScript, RunClientInit,
     UploadTexture, Takes, Postpone, Requeue, transportVars, networkVars, serverVars
<1>14. ASSUME NEW c \in Clients, Handle(c) PROVE IDsOwn'
  <2>0. UNCHANGED peers
    BY <1>14 DEF Handle, serverVars
  <2>1. \A b \in Clients : down'[b] \in Seq(OwnDown(b))
    <3>1. CASE BadImagePacket(c)
      <4>1. down' = [down EXCEPT ![c] = << >>]
        BY <3>1 DEF BadImagePacket, ClientGone
      <4> QED
        BY <1>0, <4>1, EmptySeq
    <3>2. CASE ~BadImagePacket(c)
      <4>1. UNCHANGED down
        BY <1>14, <3>2 DEF Handle, ClientNetwork, ConnectEvent, DisconnectEvent,
           UpdateClientPeerID, ScriptPacket, RequestAgain, LoadScript, ImagePacket, transportVars
      <4> QED
        BY <1>0, <4>1
    <3> QED
      BY <3>1, <3>2
  <2>2. ASSUME NEW type, TakesEvent(c, type)
        PROVE  /\ NextClientEvent(c) \in OwnClientEvents(c)
               /\ \A b \in Clients : networkEventsQueueClient'[b] \in Seq(OwnClientEvents(b))
    <3>1. /\ Head(networkEventsQueueClient[c]) \in OwnClientEvents(c)
          /\ Tail(networkEventsQueueClient[c]) \in Seq(OwnClientEvents(c))
      BY <1>0, <2>2, HeadTail DEF TakesEvent
    <3> QED
      BY <1>0, <2>2, <3>1 DEF TakesEvent, NextClientEvent, With
  <2>3. CASE UpdateClientPeerID(c)
    <3>1. /\ NextClientEvent(c).type = "RECEIVE"
          /\ NextClientEvent(c).packet.type = "NEW_CLIENT_ID"
          /\ NextClientEvent(c) \in OwnClientEvents(c)
          /\ \A b \in Clients : networkEventsQueueClient'[b] \in Seq(OwnClientEvents(b))
      BY <2>2, <2>3 DEF UpdateClientPeerID, TakesPacket, TakesEvent
    <3>2. NextClientEvent(c).packet.id \in Own(c)
      BY <3>1, OwnValues
    <3>3. \A b \in Clients : hasID'[b] => clientID'[b] \in Own(b)
      BY <1>0, <2>3, <3>2 DEF UpdateClientPeerID, With
    <3> QED
      BY <2>0, <2>1, <3>1, <3>3, SameOwn DEF IDsOwn
  <2>4. CASE UNCHANGED <<hasID, clientID>>
    <3>1. \/ UNCHANGED networkEventsQueueClient
          \/ \E type : TakesEvent(c, type)
      BY <1>14, Zenon DEF Handle, ClientNetwork, ConnectEvent, DisconnectEvent, UpdateClientPeerID,
         ScriptPacket, RequestAgain, LoadScript, ImagePacket, BadImagePacket, TakesPacket
    <3>2. \A b \in Clients : networkEventsQueueClient'[b] \in Seq(OwnClientEvents(b))
      BY <1>0, <2>2, <3>1
    <3> QED
      BY <1>0, <2>0, <2>1, <2>4, <3>2, SameOwn DEF IDsOwn
  <2> QED
    BY <1>14, <2>3, <2>4 DEF Handle, ClientNetwork, ConnectEvent, DisconnectEvent,
       ScriptPacket, RequestAgain, LoadScript, ImagePacket, BadImagePacket, networkVars
<1>15. ASSUME NEW c \in Clients, Retry(c) PROVE IDsOwn'
  BY <1>3, <1>15 DEF Retry, Resend, clientVars, networkVars, serverVars
<1>16. CASE ServerAbort
  <2>1. /\ UNCHANGED <<peers, networkEventsQueueClient, hasID, clientID>>
        /\ down' = [c \in Clients |-> << >>]
    BY <1>16 DEF ServerAbort, Abort, AllCut, clientVars, networkVars
  <2>2. \A b \in Clients : down'[b] \in Seq(OwnDown(b))
    BY <2>1, EmptySeq
  <2> QED
    BY <1>1, <2>1, <2>2
<1>17. CASE UNCHANGED vars
  BY <1>3, <1>17 DEF vars, transportVars, clientVars, networkVars, serverVars
<1> QED
  BY <1>4, <1>5, <1>6, <1>7, <1>9, <1>10, <1>11, <1>12, <1>13, <1>14, <1>15, <1>16, <1>17
  DEF Next, Network, ServerNetwork, ServerThread

(* What a queue holds once an event is put at its end,                      *)
LEMMA KindsAppended ==
  ASSUME NEW S, NEW q \in Seq(S), NEW e \in S
  PROVE  /\ \A kind : Holds(q, kind) \/ KindOf(e) = kind => Holds(Append(q, e), kind)
         /\ IDBeforeScript(q) /\ (KindOf(e) = "SCRIPT" => Holds(q, "NEW_CLIENT_ID"))
                => IDBeforeScript(Append(q, e))
<1> DEFINE r == Append(q, e)
<1>1. /\ Len(q) \in Nat /\ Len(r) = Len(q) + 1 /\ r[Len(q) + 1] = e
      /\ \A i \in 1..Len(q) : r[i] = q[i]
  BY AppendProperties
<1> HIDE DEF r
<1>2. ASSUME NEW kind, Holds(q, kind) \/ KindOf(e) = kind PROVE Holds(r, kind)
  BY <1>1, <1>2 DEF Holds
<1>3. ASSUME IDBeforeScript(q), KindOf(e) = "SCRIPT" => Holds(q, "NEW_CLIENT_ID"),
             NEW i \in 1..Len(r), KindOf(r[i]) = "SCRIPT"
      PROVE  \E j \in 1..i - 1 : KindOf(r[j]) = "NEW_CLIENT_ID"
  <2>1. CASE i \in 1..Len(q)
    <3>1. PICK j \in 1..i - 1 : KindOf(q[j]) = "NEW_CLIENT_ID"
      BY <1>1, <1>3, <2>1 DEF IDBeforeScript
    <3> QED
      BY <1>1, <2>1, <3>1
  <2>2. CASE i = Len(q) + 1
    <3>1. PICK j \in 1..Len(q) : KindOf(q[j]) = "NEW_CLIENT_ID"
      BY <1>1, <1>3, <2>2 DEF Holds
    <3> QED
      BY <1>1, <2>2, <3>1
  <2> QED
    BY <1>1, <2>1, <2>2
<1> QED
  BY <1>2, <1>3 DEF IDBeforeScript, r

(* or taken from its front.                                                 *)
LEMMA KindsTaken ==
  ASSUME NEW S, NEW q \in Seq(S), q # << >>
  PROVE  /\ \A kind : Holds(q, kind) => KindOf(Head(q)) = kind \/ Holds(Tail(q), kind)
         /\ IDBeforeScript(q) => KindOf(Head(q)) # "SCRIPT"
         /\ IDBeforeScript(q) /\ KindOf(Head(q)) # "NEW_CLIENT_ID" => IDBeforeScript(Tail(q))
<1> DEFINE r == Tail(q)
<1>1. /\ Len(q) \in Nat \ {0} /\ Len(r) = Len(q) - 1 /\ Head(q) = q[1]
      /\ \A i \in 1..Len(r) : r[i] = q[i + 1]
  BY HeadTailProperties, HeadTail
<1> HIDE DEF r
<1>2. ASSUME NEW kind, Holds(q, kind), KindOf(Head(q)) # kind PROVE Holds(r, kind)
  <2>1. PICK i \in 1..Len(q) : KindOf(q[i]) = kind
    BY <1>2 DEF Holds
  <2>2. i - 1 \in 1..Len(r) /\ (i - 1) + 1 = i
    BY <1>1, <1>2, <2>1
  <2> QED
    BY <1>1, <2>1, <2>2 DEF Holds
<1>3. IDBeforeScript(q) => KindOf(Head(q)) # "SCRIPT"
  BY <1>1 DEF IDBeforeScript
<1>4. ASSUME IDBeforeScript(q), KindOf(Head(q)) # "NEW_CLIENT_ID",
             NEW i \in 1..Len(r), KindOf(r[i]) = "SCRIPT"
      PROVE  \E j \in 1..i - 1 : KindOf(r[j]) = "NEW_CLIENT_ID"
  <2>1. i + 1 \in 1..Len(q) /\ KindOf(q[i + 1]) = "SCRIPT"
    BY <1>1, <1>4
  <2>2. PICK j \in 1..(i + 1) - 1 : KindOf(q[j]) = "NEW_CLIENT_ID"
    BY <1>4, <2>1 DEF IDBeforeScript
  <2>3. j # 1
    BY <1>1, <1>4, <2>2
  <2>4. j - 1 \in 1..i - 1 /\ j - 1 \in 1..Len(r) /\ (j - 1) + 1 = j
    BY <1>1, <2>1, <2>2, <2>3
  <2> QED
    BY <1>1, <2>2, <2>4
<1> QED
  BY <1>2, <1>3, <1>4 DEF IDBeforeScript, r

(* The ID stays ahead of every script: of those sent, those queued, and the *)
(* one that is handled or run.                                              *)
LEMMA FirstStep ==
  ASSUME TypeOK, IDsKnown, RunsAtOnce, SlotsTaken, Linked, PeerToTell,
         \A c \in Clients : IDFirst(c), [Next]_vars, ~wild'
  PROVE  \A c \in Clients : IDFirst(c)'
<1>0. /\ peers \in Seq(Copies) /\ Len(peers) \in Nat
      /\ down \in [Clients -> Seq(DownPackets)] /\ hasID \in [Clients -> BOOLEAN]
      /\ link \in [Clients -> {"idle", "connecting", "connected", "cut", "lost"}]
      /\ ran \in [Clients -> BOOLEAN]
      /\ netPC \in [Clients -> {"idle", "load", "again", "ended"}]
      /\ gameEventQueue \in [Clients -> Seq(PromptEvents)]
      /\ networkEventsQueueClient \in [Clients -> Seq(KnownClientEvents)]
      /\ postponed \in [Clients -> Seq(LateEvents)]
  BY DEF TypeOK, TransportTypeOK, ServerTypeOK, ClientTypeOK, IDsKnown, RunsAtOnce
<1> DEFINE AllFirst == \A c \in Clients : IDFirst(c)
           events   == networkEventsQueueClient
           restVars == <<netPC, hasID, ran, gameEventQueue>>
\* what of IDFirst a step preserves that leaves the variables of it alone
<1>1. ASSUME NEW c \in Clients, hasID'[c] = hasID[c], netPC'[c] = netPC[c], ran'[c] = ran[c],
             gameEventQueue'[c] = gameEventQueue[c],
             UNCHANGED <<events, down, peers, serverPC, adrift>>,
             link'[c] = "connected" => link[c] = "connected"
      PROVE  IDFirst(c)'
  BY <1>0, <1>1 DEF IDFirst, IDDue, IDSent, RunQueued
<1>2. CASE UNCHANGED <<restVars, events, down, peers, serverPC, adrift, link>>
  BY <1>1, <1>2
<1>3. ASSUME NEW c \in Clients, Cut(c), UNCHANGED <<serverVars, clientVars>>
      PROVE  AllFirst'
  <2>1. /\ UNCHANGED <<restVars, events, peers, serverPC, adrift>>
        /\ down' = [down EXCEPT ![c] = << >>] /\ link' = [link EXCEPT ![c] = "cut"]
    BY <1>3 DEF Cut, serverVars, clientVars, mainVars, sharedVars, networkVars
  <2>2. down'[c] = << >> /\ link'[c] = "cut" /\ Len(<< >>) = 0
    BY <1>0, <2>1
  <2>3. IDFirst(c)'
    BY <2>1, <2>2 DEF IDFirst, IDDue, IDBeforeScript, RunQueued
  <2>4. ASSUME NEW b \in Clients, b # c PROVE IDFirst(b)'
    BY <1>0, <2>1, <2>4 DEF IDFirst, IDDue, IDSent, RunQueued
  <2> QED
    BY <2>3, <2>4
<1>4. ASSUME NEW c \in Clients, NEW s \in Slots, Accept(c, s), UNCHANGED <<serverVars, clientVars>>
      PROVE  AllFirst'
  <2>1. /\ UNCHANGED <<restVars, events, peers, serverPC, adrift>>
        /\ down' = [down EXCEPT ![c] = <<[type |-> "CONNECT"]>>]
        /\ link' = [link EXCEPT ![c] = "connecting"]
    BY <1>4 DEF Accept, serverVars, clientVars, mainVars, sharedVars, networkVars
  <2>2. down'[c] = <<[type |-> "CONNECT"]>> /\ link'[c] = "connecting"
    BY <1>0, <2>1
  <2>3. \A i \in 1..Len(down'[c]) : KindOf(down'[c][i]) = "CONNECT"
    BY <2>2 DEF KindOf
  <2>4. IDFirst(c)'
    BY <2>1, <2>2, <2>3 DEF IDFirst, IDDue, IDBeforeScript, RunQueued
  <2>5. ASSUME NEW b \in Clients, b # c PROVE IDFirst(b)'
    BY <1>0, <2>1, <2>5 DEF IDFirst, IDDue, IDSent, RunQueued
  <2> QED
    BY <2>4, <2>5
<1>5. ASSUME NEW s \in Slots, ServerMain(s) PROVE AllFirst'
  BY <1>2, <1>5 DEF ServerMain, ServiceServer, clientVars, networkVars, mainVars, sharedVars
<1>6. CASE AddNewPeer /\ UNCHANGED clientVars
  <2>1. /\ UNCHANGED <<restVars, events, down, adrift, link>>
        /\ serverPC = "idle" /\ serverPC' = "sendID"
        /\ \E e : peers' = Append(peers, e)
    BY <1>6 DEF AddNewPeer, NextServerEvent, transportVars, clientVars, networkVars, mainVars,
                sharedVars
  <2>2. /\ Len(peers') = Len(peers) + 1
        /\ \A i \in 1..Len(peers) : peers'[i] = peers[i]
    BY <1>0, <2>1
  <2>3. ASSUME NEW c \in Clients, IDDue(c) PROVE IDDue(c)'
    <3>1. IDSent(c)' <=> IDSent(c)
      BY <2>1 DEF IDSent
    <3>2. ASSUME NEW i \in 1..Len(peers), peers'[i].client = c, peers'[i].open,
                 link'[c] = "connected", i - 1 \notin adrift'
          PROVE  IDSent(c)
      BY <2>1, <2>2, <2>3, <3>2 DEF IDDue
    <3>3. ASSUME NEW n \in Nat, NEW i \in 1..n + 1 PROVE i \in 1..n \/ i = n + 1
      OBVIOUS
    <3>4. \A i \in 1..Len(peers') : i \in 1..Len(peers) \/ i = Len(peers')
      BY <1>0, <2>2, <3>3
    <3>5. SUFFICES ASSUME NEW i \in 1..Len(peers'), peers'[i].client = c, peers'[i].open,
                          link'[c] = "connected", i - 1 \notin adrift', i # Len(peers')
                   PROVE  IDSent(c)
      BY <2>1, <3>1 DEF IDDue
    <3> QED
      BY <3>2, <3>4, <3>5
  <2> QED
    BY <2>1, <2>3 DEF IDFirst, RunQueued
\* a packet for the client the copy was made of
<1>7. ASSUME NEW id \in Nat, NEW i \in 1..Len(peers), i = id + 1, NEW packet \in DownPackets,
             SendThrough(id, packet), UNCHANGED <<restVars, events, peers, link>>,
             \/ serverPC' = serverPC /\ serverPC = "idle"
             \/ /\ serverPC' = "idle" /\ i = Len(peers) /\ packet.type = "NEW_CLIENT_ID"
      PROVE  AllFirst'
  <2>0. packet.type # "RECEIVE" /\ KindOf(packet) = packet.type
    BY DEF DownPackets, Data, KindOf
  <2>s. /\ adrift \subseteq adrift' /\ i - 1 = id
        /\ \/ /\ UNCHANGED down
              /\ peers[i].open => link[peers[i].client] # "connected" \/ id \in adrift'
           \/ /\ peers[i].client \in Clients /\ peers[i].open /\ id \notin adrift
              /\ link[peers[i].client] = "connected"
              /\ down' = [down EXCEPT ![peers[i].client] = Append(@, packet)]
    BY <1>7, SentToCopy
  <2>1. CASE UNCHANGED down
    <3> SUFFICES ASSUME NEW c \in Clients, IDDue(c) PROVE IDDue(c)'
      BY <1>7, <2>1 DEF IDFirst, RunQueued
    <3>1. CASE serverPC' = serverPC /\ serverPC = "idle"
      BY <1>7, <2>s, <2>1, <3>1 DEF IDDue, IDSent
    <3>2. CASE serverPC' = "idle" /\ i = Len(peers) /\ packet.type = "NEW_CLIENT_ID"
      <4>1. peers[i].open => link[peers[i].client] # "connected" \/ id \in adrift'
        <5>1. ASSUME NEW b \in Clients PROVE down' # [down EXCEPT ![b] = Append(@, packet)]
          <6>1. Len(Append(down[b], packet)) = Len(down[b]) + 1 /\ Len(down[b]) \in Nat
            BY <1>0, AppendProperties
          <6> QED
            BY <1>0, <2>1, <6>1
        <5> QED
          BY <2>s, <5>1
      <4> QED
        BY <1>0, <1>7, <2>s, <2>1, <3>2, <4>1 DEF IDDue, IDSent
    <3> QED
      BY <1>7, <3>1, <3>2
  <2>2. ASSUME NEW c \in Clients, peers[i].client = c, peers[i].open, link[c] = "connected",
               id \notin adrift,
               down' = [down EXCEPT ![c] = Append(@, packet)]
        PROVE  AllFirst'
    <3>1. down'[c] = Append(down[c], packet) /\ \A b \in Clients : b # c => down'[b] = down[b]
      BY <1>0, <2>2
    <3>2. /\ \A kind : Holds(down[c], kind) \/ KindOf(packet) = kind => Holds(down'[c], kind)
          /\ IDBeforeScript(down[c])
             /\ (KindOf(packet) = "SCRIPT" => Holds(down[c], "NEW_CLIENT_ID"))
                 => IDBeforeScript(down'[c])
      BY <1>0, <3>1, KindsAppended
    <3>3. ASSUME NEW b \in Clients, b # c PROVE IDFirst(b)'
      BY <1>0, <1>7, <2>s, <2>2, <3>1, <3>3 DEF IDFirst, IDDue, IDSent, RunQueued
    <3>4. ASSUME ~hasID[c] PROVE IDFirst(c)'
      <4>1. IDFirst(c) /\ IDDue(c)
        BY <3>4 DEF IDFirst
      <4>2. IDDue(c)'
        BY <1>7, <2>0, <2>s, <3>2, <4>1 DEF IDDue, IDSent
      <4>3. KindOf(packet) = "SCRIPT" => IDSent(c)
        BY <1>7, <2>0, <2>s, <2>2, <4>1 DEF IDDue
      <4>4. Holds(events[c], "NEW_CLIENT_ID") \/ IDBeforeScript(down'[c])
        BY <3>2, <3>4, <4>1, <4>3 DEF IDFirst, IDSent
      <4> QED
        BY <1>7, <3>4, <4>1, <4>2, <4>4 DEF IDFirst, RunQueued
    <3>5. hasID[c] => IDFirst(c)'
      BY <1>7 DEF IDFirst
    <3> QED
      BY <3>3, <3>4, <3>5
  <2> QED
    BY <2>s, <2>1, <2>2
<1>8. CASE SendNewClientID /\ UNCHANGED clientVars
  <2> DEFINE i == Len(peers)
             packet == [type |-> "NEW_CLIENT_ID", id |-> i - 1]
  <2>1. i \in 1..Len(peers) /\ i - 1 \in Nat /\ i = (i - 1) + 1
    BY <1>0, <1>8, EmptySeq DEF PeerToTell, SendNewClientID, SendsID
  <2>2. packet \in DownPackets
    BY <2>1 DEF DownPackets, Data
  <2>3. /\ SendThrough(i - 1, packet) /\ serverPC' = "idle"
        /\ UNCHANGED <<restVars, events, peers, link>>
    BY <1>8 DEF SendNewClientID, SendsID, clientVars, networkVars, mainVars, sharedVars
  <2> QED
    BY <1>7, <2>1, <2>2, <2>3
<1>9. CASE ProcessClientPacket /\ UNCHANGED clientVars
  <2> DEFINE request == Head(networkEventsQueue).packet
  <2>1. networkEventsQueue \in Seq(KnownServerEvents) /\ networkEventsQueue # << >>
        /\ Head(networkEventsQueue).type = "RECEIVE"
    BY <1>9 DEF ProcessClientPacket, NextServerEvent, IDsKnown
  <2>2. request \in KnownRequests
    BY <2>1, HeadTail, KnownValues
  <2>3. request.id \in Nat /\ request.id + 1 \in 1..Len(peers)
    BY <1>0, <1>9, <2>2 DEF KnownRequests, KnownIDs, ProcessClientPacket
  <2>4. /\ SendThrough(request.id, Answer(request)) \/ UNCHANGED <<down, adrift>>
        /\ serverPC' = serverPC /\ serverPC = "idle"
        /\ UNCHANGED <<restVars, events, peers, link>>
    BY <1>9 DEF ProcessClientPacket, NextServerEvent, clientVars, networkVars,
                mainVars, sharedVars
  <2>5. Answer(request) \in DownPackets
    BY DEF Answer, DownPackets, Data
  <2> QED
    BY <1>2, <1>7, <2>3, <2>4, <2>5
<1>10. CASE HandleDisconnect /\ UNCHANGED clientVars
  BY <1>2, <1>10 DEF HandleDisconnect, transportVars, clientVars, networkVars, mainVars, sharedVars
<1>11. ASSUME NEW c \in Clients, Receive(c) PROVE AllFirst'
  <2>1. UNCHANGED <<restVars, peers, serverPC, adrift>>
    BY <1>11 DEF Receive, ServiceClient, networkVars, mainVars, sharedVars, serverVars
  <2>2. ASSUME NEW e, AddClientEvent(c, e)
        PROVE  events'[c] = Append(events[c], e)
               /\ \A b \in Clients : b # c => events'[b] = events[b]
    BY <1>0, <2>2 DEF AddClientEvent, With
  <2>3. ASSUME NEW e, AddClientEvent(c, e), e \in KnownClientEvents,
               KindOf(e) = "SCRIPT" => Holds(events[c], "NEW_CLIENT_ID") \/ hasID[c]
        PROVE  /\ \A kind : Holds(events[c], kind) \/ KindOf(e) = kind => Holds(events'[c], kind)
               /\ hasID[c] \/ IDBeforeScript(events'[c])
    <3>0. events[c] \in Seq(KnownClientEvents) /\ events'[c] = Append(events[c], e)
      BY <1>0, <2>2, <2>3
    <3>1. /\ \A kind : Holds(events[c], kind) \/ KindOf(e) = kind => Holds(events'[c], kind)
          /\ IDBeforeScript(events[c])
             /\ (KindOf(e) = "SCRIPT" => Holds(events[c], "NEW_CLIENT_ID"))
                 => IDBeforeScript(events'[c])
      BY <2>3, <3>0, KindsAppended
    <3> QED
      BY <2>3, <3>1 DEF IDFirst
  <2>4. ASSUME ClientGets(c)
        PROVE  /\ down[c] # << >> /\ down'[c] = Tail(down[c]) /\ Head(down[c]) \in KnownDown
               /\ \A b \in Clients : b # c => down'[b] = down[b]
               /\ \A kind : Holds(down[c], kind)
                       => KindOf(Head(down[c])) = kind \/ Holds(down'[c], kind)
               /\ IDBeforeScript(down[c]) => KindOf(Head(down[c])) # "SCRIPT"
               /\ IDBeforeScript(down[c]) /\ KindOf(Head(down[c])) # "NEW_CLIENT_ID"
                       => IDBeforeScript(down'[c])
    <3>1. down[c] # << >> /\ down[c] \in Seq(KnownDown)
      BY <2>4 DEF ClientGets, IDsKnown
    <3>2. down'[c] = Tail(down[c]) /\ \A b \in Clients : b # c => down'[b] = down[b]
      BY <1>0, <2>4 DEF ClientGets, With
    <3> QED
      BY <3>1, <3>2, HeadTail, KindsTaken
\* the event is about what the packet is about
  <2>5. ASSUME ClientGets(c), NEW e \in KnownClientEvents, AddClientEvent(c, e),
               KindOf(e) = KindOf(Head(down[c])),
               \A b \in Clients : b # c => link'[b] = link[b],
               link'[c] = "connected" => link[c] = "connected" \/ ~ \E i \in 1..Len(peers) :
                                             peers[i].client = c /\ peers[i].open
        PROVE  AllFirst'
    <3>1. ASSUME NEW b \in Clients, b # c PROVE IDFirst(b)'
      BY <2>1, <2>2, <2>4, <2>5, <3>1 DEF IDFirst, IDDue, IDSent, RunQueued
    <3>2. hasID[c] => IDFirst(c)'
      BY <2>1 DEF IDFirst
    <3>3. ASSUME ~hasID[c] PROVE IDFirst(c)'
      <4>1. IDFirst(c)
        OBVIOUS
      <4>2. KindOf(e) = "SCRIPT" => Holds(events[c], "NEW_CLIENT_ID")
        BY <2>4, <2>5, <3>3, <4>1 DEF IDFirst
      <4>3. /\ \A kind : Holds(events[c], kind) \/ KindOf(e) = kind => Holds(events'[c], kind)
            /\ IDBeforeScript(events'[c])
        BY <2>3, <2>5, <3>3, <4>2
      <4>4. Holds(events'[c], "NEW_CLIENT_ID") \/ IDBeforeScript(down'[c])
        BY <2>4, <2>5, <3>3, <4>1, <4>3 DEF IDFirst
      <4>5. IDSent(c) => IDSent(c)'
        BY <2>4, <2>5, <4>3 DEF IDSent
      <4>6. IDDue(c)'
        BY <2>1, <2>5, <3>3, <4>1, <4>5 DEF IDFirst, IDDue
      <4> QED
        BY <2>1, <3>3, <4>1, <4>3, <4>4, <4>6 DEF IDFirst, RunQueued
    <3> QED
      BY <3>1, <3>2, <3>3
  <2>6. CASE ServiceConnect(c)
    <3>1. /\ ClientGets(c) /\ AddClientEvent(c, [type |-> "CONNECT"])
          /\ Head(down[c]).type = "CONNECT" /\ link' = With(link, c, "connected")
      BY <2>6 DEF ServiceConnect
    <3>2. [type |-> "CONNECT"] \in KnownClientEvents
      BY KnownValues
    <3>3. KindOf([type |-> "CONNECT"]) = "CONNECT" /\ KindOf(Head(down[c])) = "CONNECT"
      BY <3>1 DEF KindOf
    <3>4. \A b \in Clients : b # c => link'[b] = link[b]
      BY <1>0, <3>1 DEF With
    <3>5. ASSUME NEW i \in 1..Len(peers), peers[i].client = c, peers[i].open
          PROVE  link[c] = "connected"
      <4>1. link[c] \notin {"cut", "lost"} /\ CopyLinked(peers[i])
        BY <2>4, <3>1 DEF Linked
      <4> QED
        BY <3>5, <4>1 DEF CopyLinked
    <3> QED
      BY <2>5, <3>1, <3>2, <3>3, <3>4, <3>5
  <2>7. CASE ServicePacket(c)
    <3>1. ClientGets(c) /\ Head(down[c]).type # "CONNECT" /\ UNCHANGED link
      BY <2>7 DEF ServicePacket
    <3>2. Head(down[c]) \in KnownData
      BY <2>4, <3>1, KnownValues
    <3>3. KindOf(Head(down[c])) = Head(down[c]).type
      BY <3>2 DEF KindOf, KnownData
    <3>4. PICK p \in KnownData : AddClientEvent(c, [type |-> "RECEIVE", packet |-> p])
                                 /\ p.type = Head(down[c]).type
      <4>1. [type |-> "SCRIPT", good |-> FALSE] \in KnownData
        BY KnownValues
      <4> QED
        BY <2>7, <3>2, <4>1 DEF ServicePacket
    <3>5. [type |-> "RECEIVE", packet |-> p] \in KnownClientEvents
      BY KnownValues
    <3>6. KindOf([type |-> "RECEIVE", packet |-> p]) = KindOf(Head(down[c]))
      BY <3>3, <3>4 DEF KindOf
    <3> QED
      BY <2>5, <3>1, <3>4, <3>5, <3>6
  <2>8. CASE ServiceLoss(c)
    <3>1. /\ UNCHANGED down /\ AddClientEvent(c, [type |-> "DISCONNECT"])
          /\ link' = With(link, c, "lost")
      BY <2>8 DEF ServiceLoss
    <3>2. [type |-> "DISCONNECT"] \in KnownClientEvents
          /\ KindOf([type |-> "DISCONNECT"]) = "DISCONNECT"
      BY KnownValues DEF KindOf
    <3>3. /\ \A kind : Holds(events[c], kind) => Holds(events'[c], kind)
          /\ hasID[c] \/ IDBeforeScript(events'[c])
      BY <2>3, <3>1, <3>2
    <3>4. link'[c] = "lost" /\ \A b \in Clients : b # c => link'[b] = link[b]
      BY <1>0, <3>1 DEF With
    <3>5. ASSUME NEW b \in Clients, b # c PROVE IDFirst(b)'
      BY <2>1, <2>2, <3>1, <3>4, <3>5 DEF IDFirst, IDDue, IDSent, RunQueued
    <3>6. IDFirst(c)'
      BY <2>1, <3>1, <3>3, <3>4 DEF IDFirst, IDDue, RunQueued
    <3> QED
      BY <3>5, <3>6
  <2> QED
    BY <1>11, <2>6, <2>7, <2>8 DEF Receive, ServiceClient
\* game events that are not a run
<1>12. ASSUME NEW c \in Clients, NEW e \in PromptEvents, AddEventToQueue(c, e),
              e.action # "RUN_SCRIPT_FUNCTION"
       PROVE  \A b \in Clients : RunQueued(b)' => RunQueued(b)
  <2>1. gameEventQueue'[c] = Append(gameEventQueue[c], e)
        /\ \A b \in Clients : b # c => gameEventQueue'[b] = gameEventQueue[b]
    BY <1>0, <1>12 DEF AddEventToQueue, With
  <2> DEFINE q == gameEventQueue[c]
             r == gameEventQueue'[c]
  <2>2. /\ Len(q) \in Nat /\ Len(r) = Len(q) + 1 /\ r[Len(q) + 1] = e
        /\ \A i \in 1..Len(q) : r[i] = q[i]
    BY <1>0, <2>1, AppendProperties
  <2>3. RunQueued(c)' => RunQueued(c)
    <3> SUFFICES ASSUME NEW i \in 1..Len(r), r[i].action = "RUN_SCRIPT_FUNCTION"
                 PROVE  RunQueued(c)
      BY DEF RunQueued
    <3>1. i \in 1..Len(q)
      BY <1>12, <2>2
    <3> QED
      BY <2>2, <3>1 DEF RunQueued
  <2> QED
    BY <2>1, <2>3 DEF RunQueued
<1>13. ASSUME NEW c \in Clients, gameEventQueue[c] # << >>,
              gameEventQueue' = With(gameEventQueue, c, Tail(gameEventQueue[c]))
       PROVE  /\ \A b \in Clients : RunQueued(b)' => RunQueued(b)
              /\ Head(gameEventQueue[c]) \in PromptEvents
              /\ Head(gameEventQueue[c]).action = "RUN_SCRIPT_FUNCTION" => RunQueued(c)
  <2>1. gameEventQueue'[c] = Tail(gameEventQueue[c])
        /\ \A b \in Clients : b # c => gameEventQueue'[b] = gameEventQueue[b]
    BY <1>0, <1>13 DEF With
  <2> DEFINE q == gameEventQueue[c]
             r == gameEventQueue'[c]
  <2>2. /\ Len(q) \in Nat \ {0} /\ Len(r) = Len(q) - 1 /\ Head(q) = q[1]
        /\ \A i \in 1..Len(r) : r[i] = q[i + 1]
        /\ Head(q) \in PromptEvents
    <3>1. q \in Seq(PromptEvents) /\ q # << >> /\ r = Tail(q)
      BY <1>0, <1>13, <2>1
    <3> HIDE DEF q, r
    <3> QED
      BY <3>1, HeadTailProperties, HeadTail
  <2>3. RunQueued(c)' => RunQueued(c)
    <3> SUFFICES ASSUME NEW i \in 1..Len(r), r[i].action = "RUN_SCRIPT_FUNCTION"
                 PROVE  RunQueued(c)
      BY DEF RunQueued
    <3>1. i + 1 \in 1..Len(q) /\ q[i + 1].action = "RUN_SCRIPT_FUNCTION"
      BY <2>2
    <3> QED
      BY <3>1 DEF RunQueued
  <2>4. 1 \in 1..Len(q)
    BY <2>2
  <2> QED
    BY <2>1, <2>2, <2>3, <2>4 DEF RunQueued
\* what a step preserves that queues no run, handles no event and sends nothing
<1>14. ASSUME UNCHANGED <<events, down, peers, serverPC, adrift, link, hasID, netPC>>,
              \A b \in Clients : (RunQueued(b)' \/ ran'[b]) => RunQueued(b) \/ ran[b]
       PROVE  AllFirst'
  BY <1>0, <1>14 DEF IDFirst, IDDue, IDSent
<1>15. ASSUME NEW c \in Clients, Frame(c) PROVE AllFirst'
  <2>1. UNCHANGED <<events, down, peers, serverPC, adrift, link, hasID, netPC>>
    BY <1>15 DEF Frame, ClientFrame, NoGameEvent, RequestInitScript, RunClientInit,
       UploadTexture, Takes, Postpone, Requeue, transportVars, networkVars, serverVars
  <2>2. CASE NoGameEvent(c)
    BY <1>14, <2>1, <2>2 DEF NoGameEvent, RunQueued
  <2>3. CASE RequestInitScript(c) \/ UploadTexture(c) \/ Postpone(c)
    <3>1. /\ gameEventQueue[c] # << >> /\ UNCHANGED ran
          /\ gameEventQueue' = With(gameEventQueue, c, Tail(gameEventQueue[c]))
      BY <2>3 DEF RequestInitScript, UploadTexture, Postpone, Takes
    <3> QED
      BY <1>13, <1>14, <2>1, <3>1
  <2>4. CASE RunClientInit(c)
    <3>1. /\ gameEventQueue[c] # << >> /\ Head(gameEventQueue[c]).action = "RUN_SCRIPT_FUNCTION"
          /\ gameEventQueue' = With(gameEventQueue, c, Tail(gameEventQueue[c]))
          /\ UNCHANGED ran \/ ran' = With(ran, c, TRUE)
      BY <2>4 DEF RunClientInit, Takes
    <3>2. RunQueued(c) /\ \A b \in Clients : b # c => ran'[b] = ran[b]
      BY <1>0, <1>13, <3>1 DEF With
    <3> QED
      BY <1>13, <1>14, <2>1, <3>1, <3>2
  <2>5. CASE Requeue(c)
    <3>1. /\ AddEventToQueue(c, [postponed[c][1] EXCEPT !.delay = @ - 1])
          /\ mainPC[c] = "requeue" /\ UNCHANGED ran
      BY <2>5 DEF Requeue
    <3>2. postponed[c][1] \in LateEvents
      <4>1. postponed[c] \in Seq(LateEvents) /\ postponed[c] # << >>
        BY <1>0, <3>1 DEF RunsAtOnce
      <4> QED
        BY <4>1, HeadTail
    <3>3. ASSUME NEW f \in LateEvents
          PROVE  /\ [f EXCEPT !.delay = @ - 1] \in PromptEvents
                 /\ [f EXCEPT !.delay = @ - 1].action # "RUN_SCRIPT_FUNCTION"
      BY SessionAssumption DEF LateEvents, PromptEvents, GameEvents
    <3> QED
      BY <1>12, <1>14, <2>1, <3>1, <3>2, <3>3
  <2> QED
    BY <1>15, <2>2, <2>3, <2>4, <2>5 DEF Frame, ClientFrame
\* the process of a client has ended, or its connection has come to nothing
<1>16. ASSUME NEW c \in Clients, down'[c] = << >>, link'[c] # "connected",
              netPC'[c] \in {netPC[c], "ended"}, UNCHANGED <<hasID, ran, gameEventQueue>>,
              hasID[c] \/ IDBeforeScript(events'[c])
       PROVE  IDFirst(c)'
  <2>1. Len(down'[c]) = 0
    BY <1>16, EmptySeq
  <2>2. IDBeforeScript(down'[c]) /\ IDDue(c)'
    BY <1>16, <2>1 DEF IDBeforeScript, IDDue
  <2> QED
    BY <1>16, <2>2 DEF IDFirst, RunQueued
<1>17. ASSUME NEW c \in Clients, Handle(c), ~BadImagePacket(c) PROVE AllFirst'
  <2>1. UNCHANGED <<down, peers, serverPC, adrift, link, ran>>
    BY <1>17 DEF Handle, ClientNetwork, ConnectEvent, DisconnectEvent, UpdateClientPeerID,
       ScriptPacket, RequestAgain, LoadScript, ImagePacket, transportVars, serverVars, mainVars
  <2>2. ASSUME NEW type, TakesEvent(c, type)
        PROVE  /\ NextClientEvent(c) \in KnownClientEvents
               /\ \A b \in Clients : b # c => events'[b] = events[b]
               /\ \A kind : Holds(events[c], kind)
                       => KindOf(NextClientEvent(c)) = kind \/ Holds(events'[c], kind)
               /\ IDBeforeScript(events[c]) => KindOf(NextClientEvent(c)) # "SCRIPT"
               /\ IDBeforeScript(events[c]) /\ KindOf(NextClientEvent(c)) # "NEW_CLIENT_ID"
                       => IDBeforeScript(events'[c])
    <3>1. events[c] # << >> /\ events[c] \in Seq(KnownClientEvents)
      BY <1>0, <2>2 DEF TakesEvent
    <3>2. events'[c] = Tail(events[c]) /\ \A b \in Clients : b # c => events'[b] = events[b]
      BY <1>0, <2>2 DEF TakesEvent, With
    <3> QED
      BY <3>1, <3>2, HeadTail, KindsTaken DEF NextClientEvent
  <2>3. ASSUME NEW type, TakesEvent(c, type), UNCHANGED <<hasID, netPC>>,
               KindOf(NextClientEvent(c)) # "NEW_CLIENT_ID",
               \A b \in Clients : RunQueued(b)' => RunQueued(b)
        PROVE  AllFirst'
    <3>1. ASSUME NEW b \in Clients, b # c PROVE IDFirst(b)'
      BY <1>0, <2>1, <2>2, <2>3, <3>1 DEF IDFirst, IDDue, IDSent
    <3>2. ASSUME ~hasID[c] PROVE IDFirst(c)'
      <4>1. IDFirst(c)
        OBVIOUS
      <4>2. /\ Holds(events[c], "NEW_CLIENT_ID") => Holds(events'[c], "NEW_CLIENT_ID")
            /\ IDBeforeScript(events'[c])
        BY <2>2, <2>3, <3>2, <4>1 DEF IDFirst
      <4>3. IDDue(c)'
        BY <2>1, <3>2, <4>1, <4>2 DEF IDFirst, IDDue, IDSent
      <4> QED
        BY <2>1, <2>3, <3>2, <4>1, <4>2, <4>3 DEF IDFirst
    <3>3. hasID[c] => IDFirst(c)'
      BY <2>3 DEF IDFirst
    <3> QED
      BY <3>1, <3>2, <3>3
  <2>4. CASE ConnectEvent(c)
    <3>1. /\ TakesEvent(c, "CONNECT") /\ UNCHANGED <<hasID, netPC>>
          /\ AddEventToQueue(c, GameEvent("REQUEST_INIT_SCRIPT", InitDelay))
      BY <2>4 DEF ConnectEvent
    <3>2. /\ GameEvent("REQUEST_INIT_SCRIPT", InitDelay) \in PromptEvents
          /\ GameEvent("REQUEST_INIT_SCRIPT", InitDelay).action # "RUN_SCRIPT_FUNCTION"
      BY SessionAssumption DEF GameEvent, PromptEvents, GameEvents, Actions
    <3>3. KindOf(NextClientEvent(c)) # "NEW_CLIENT_ID"
      BY <3>1 DEF TakesEvent, KindOf
    <3> QED
      BY <1>12, <2>3, <3>1, <3>2, <3>3
  <2>5. CASE DisconnectEvent(c)
    <3>1. /\ TakesEvent(c, "DISCONNECT") /\ UNCHANGED <<hasID, netPC, gameEventQueue>>
      BY <2>5 DEF DisconnectEvent, networkVars, sharedVars
    <3>2. KindOf(NextClientEvent(c)) # "NEW_CLIENT_ID"
      BY <3>1 DEF TakesEvent, KindOf
    <3> QED
      BY <2>3, <3>1, <3>2 DEF RunQueued
  <2>6. CASE ImagePacket(c)
    <3>1. /\ TakesEvent(c, "RECEIVE") /\ NextClientEvent(c).packet.type = "IMAGE"
          /\ NextClientEvent(c).type = "RECEIVE" /\ UNCHANGED <<hasID, netPC>>
          /\ \/ AddEventToQueue(c, GameEvent("UPLOAD_TEXTURE", 0))
             \/ UNCHANGED gameEventQueue
      BY <2>6 DEF ImagePacket, TakesPacket, TakesEvent, networkVars
    <3>2. /\ GameEvent("UPLOAD_TEXTURE", 0) \in PromptEvents
          /\ GameEvent("UPLOAD_TEXTURE", 0).action # "RUN_SCRIPT_FUNCTION"
      BY SessionAssumption DEF GameEvent, PromptEvents, GameEvents, Actions
    <3>3. KindOf(NextClientEvent(c)) # "NEW_CLIENT_ID"
      BY <3>1 DEF KindOf
    <3>4. \A b \in Clients : RunQueued(b)' => RunQueued(b)
      <4>1. CASE UNCHANGED gameEventQueue
        BY <4>1 DEF RunQueued
      <4> QED
        BY <1>12, <3>1, <3>2, <4>1
    <3> QED
      BY <2>3, <3>1, <3>3, <3>4
\* what only happens to a client that knows its ID, or is told now
  <2>7. ASSUME hasID'[c],
               \A b \in Clients : b # c => /\ hasID'[b] = hasID[b] /\ netPC'[b] = netPC[b]
                                           /\ events'[b] = events[b]
                                           /\ gameEventQueue'[b] = gameEventQueue[b]
        PROVE  AllFirst'
    BY <2>1, <2>7 DEF IDFirst, IDDue, IDSent, RunQueued
  <2>8. CASE UpdateClientPeerID(c)
    <3>1. /\ TakesEvent(c, "RECEIVE") /\ hasID' = With(hasID, c, TRUE)
          /\ UNCHANGED <<netPC, gameEventQueue>>
      BY <2>8 DEF UpdateClientPeerID, TakesPacket, sharedVars
    <3>2. hasID'[c] /\ \A b \in Clients : b # c => hasID'[b] = hasID[b]
      BY <1>0, <3>1 DEF With
    <3> QED
      BY <2>2, <2>7, <3>1, <3>2
  <2>9. CASE ScriptPacket(c)
    <3>1. /\ TakesEvent(c, "RECEIVE") /\ NextClientEvent(c).packet.type = "SCRIPT"
          /\ NextClientEvent(c).type = "RECEIVE" /\ UNCHANGED <<hasID, gameEventQueue>>
          /\ \E pc : netPC' = With(netPC, c, pc)
      BY <2>9 DEF ScriptPacket, TakesPacket, TakesEvent
    <3>2. KindOf(NextClientEvent(c)) = "SCRIPT"
      BY <3>1 DEF KindOf
    <3>3. hasID[c]
      BY <2>2, <3>1, <3>2 DEF IDFirst
    <3>4. \A b \in Clients : b # c => netPC'[b] = netPC[b]
      BY <1>0, <3>1 DEF With
    <3> QED
      BY <2>2, <2>7, <3>1, <3>3, <3>4
  <2>10. CASE RequestAgain(c) \/ LoadScript(c)
    <3>1. /\ netPC[c] \in {"load", "again"} /\ netPC' = With(netPC, c, "idle")
          /\ UNCHANGED <<hasID, events>>
          /\ UNCHANGED gameEventQueue \/ \E e : AddEventToQueue(c, e)
      BY <2>10 DEF RequestAgain, LoadScript
    <3>2. hasID[c]
      BY <3>1 DEF IDFirst
    <3>3. \A b \in Clients : b # c => /\ netPC'[b] = netPC[b]
                                      /\ gameEventQueue'[b] = gameEventQueue[b]
      BY <1>0, <3>1 DEF AddEventToQueue, With
    <3> QED
      BY <2>7, <3>1, <3>2, <3>3
  <2> QED
    BY <1>17, <2>4, <2>5, <2>6, <2>8, <2>9, <2>10 DEF Handle, ClientNetwork
<1>18. ASSUME NEW c \in Clients, Handle(c), BadImagePacket(c) PROVE AllFirst'
  <2>1. /\ events[c] # << >> /\ events[c] \in Seq(KnownClientEvents)
        /\ events' = With(events, c, Tail(events[c]))
        /\ KindOf(Head(events[c])) = "IMAGE"
        /\ UNCHANGED <<hasID, ran, gameEventQueue, peers, serverPC, adrift>>
    BY <1>0, <1>18 DEF Handle, BadImagePacket, TakesPacket, TakesEvent, NextClientEvent, KindOf,
                       serverVars
  <2>2. /\ link' = [link EXCEPT ![c] = "lost"] /\ down' = [down EXCEPT ![c] = << >>]
        /\ netPC' = With(netPC, c, "ended")
    BY <1>18 DEF BadImagePacket, ClientGone
  <2>3. hasID[c] \/ IDBeforeScript(events'[c])
    <3>1. events'[c] = Tail(events[c])
      BY <1>0, <2>1 DEF With
    <3> QED
      BY <2>1, <3>1, KindsTaken DEF IDFirst
  <2>4. IDFirst(c)'
    BY <1>0, <1>16, <2>1, <2>2, <2>3 DEF With
  <2>5. ASSUME NEW b \in Clients, b # c PROVE IDFirst(b)'
    <3>1. /\ events'[b] = events[b] /\ down'[b] = down[b] /\ link'[b] = link[b]
          /\ netPC'[b] = netPC[b]
      BY <1>0, <2>1, <2>2, <2>5 DEF With
    <3> QED
      BY <2>1, <3>1 DEF IDFirst, IDDue, IDSent, RunQueued
  <2> QED
    BY <2>4, <2>5
<1>19. CASE ServerAbort
  <2>1. UNCHANGED <<restVars, events>>
    BY <1>19 DEF ServerAbort, clientVars, networkVars, mainVars, sharedVars
  <2>2. \A c \in Clients : down'[c] = << >> /\ link'[c] # "connected"
    BY <1>0, <1>19 DEF ServerAbort, Abort, AllCut
  <2>3. \A c \in Clients : hasID[c] \/ IDBeforeScript(events[c])
    BY DEF IDFirst
  <2> QED
    BY <1>16, <2>1, <2>2, <2>3
<1>20. ASSUME NEW c \in Clients, Retry(c) PROVE AllFirst'
  BY <1>2, <1>20 DEF Retry, Resend, clientVars, networkVars, mainVars, sharedVars, serverVars
<1>21. CASE UNCHANGED vars
  BY <1>2, <1>21 DEF vars, transportVars, clientVars, networkVars, mainVars, sharedVars, serverVars
<1> QED
  BY <1>3, <1>4, <1>5, <1>6, <1>8, <1>9, <1>10, <1>11, <1>15, <1>17, <1>18, <1>19,
     <1>20, <1>21
  DEF Next, Network, ServerNetwork, ServerThread

-----------------------------------------------------------------------------
LEMMA InitIDInv == Init => IDInv
<1> SUFFICES ASSUME Init PROVE IDInv
  OBVIOUS
<1> USE DEF Init, TransportInit, ServerInit, ClientInit, Each
<1>1. Len(peers) = 0 /\ \A c \in Clients : Len(down[c]) = 0 /\ Len(gameEventQueue[c]) = 0
                                           /\ Len(networkEventsQueueClient[c]) = 0
  BY EmptySeq
<1>2. SlotsTaken /\ Linked
  BY <1>1 DEF SlotsTaken, Linked
<1>3. IDsOwn
  BY EmptySeq DEF IDsOwn
<1>4. ASSUME NEW c \in Clients PROVE IDFirst(c)
  <2>1. netPC[c] = "idle" /\ ~ran[c]
    OBVIOUS
  <2>2. ~RunQueued(c)
    BY <1>1 DEF RunQueued
  <2>3. IDBeforeScript(networkEventsQueueClient[c]) /\ IDBeforeScript(down[c])
    BY <1>1 DEF IDBeforeScript
  <2>4. IDDue(c)
    BY <1>1 DEF IDDue
  <2> QED
    BY <2>1, <2>2, <2>3, <2>4 DEF IDFirst
<1> QED
  BY <1>2, <1>3, <1>4 DEF IDInv

LEMMA NextIDInv == IInv /\ IDInv /\ [Next]_vars => IDInv'
<1> SUFFICES ASSUME IInv, IDInv, [Next]_vars, ~wild'
             PROVE  /\ SlotsTaken' /\ Linked' /\ IDsOwn'
                    /\ \A c \in Clients : IDFirst(c)'
  BY DEF IDInv
<1>1. /\ SlotsTaken /\ Linked /\ IDsOwn
      /\ \A c \in Clients : IDFirst(c)
  BY WildStays DEF IDInv
<1>2. SlotsTaken' /\ Linked' /\ IDsOwn'
  BY <1>1, TakenStep, LinkedStep, OwnStep DEF IInv
<1>3. \A c \in Clients : IDFirst(c)'
  BY <1>1, FirstStep DEF IInv
<1> QED
  BY <1>2, <1>3

(* The invariant of the IDs: what a client is told and what it is sent, as  *)
(* long as nothing has been written into freed channels.                    *)
THEOREM IDInvariance == Spec => []IDInv
<1> QED
  BY InitIDInv, NextIDInv, Invariance, PTL DEF Spec

(* The ID a client has been told leads to a usable copy of its own peer, as *)
(* long as the server has not written into the channels of a connection     *)
(* that has gone: though slots are used again, copies come adrift and the   *)
(* server's process ends.                                                   *)
THEOREM IDsLeadHome == Spec => []OwnID
<1>1. IDInv => OwnID
  <2> SUFFICES ASSUME IDInv, ~wild, NEW c \in Clients, hasID[c]
               PROVE  /\ clientID[c] < Len(peers)
                      /\ PeerFromClientID(clientID[c]).client = c
                      /\ PeerFromClientID(clientID[c]).open
    BY DEF OwnID
  <2>1. clientID[c] \in Own(c)
    BY DEF IDInv, IDsOwn
  <2> QED
    BY <2>1 DEF Own, PeerFromClientID
<1> QED
  BY <1>1, IDInvariance, PTL

(* As long as the server has not written into freed channels no client runs *)
(* clientInit before it knows its ID, whoever's request has brought it the  *)
(* script: the server sends the ID first, and the order is kept.            *)
THEOREM IDsComeFirst == Spec => []RunsWithID
<1>1. IDInv => RunsWithID
  BY DEF IDInv, IDFirst, RunsWithID
<1> QED
  BY <1>1, IDInvariance, PTL
=============================================================================
