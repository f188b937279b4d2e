------------------------------- MODULE Server -------------------------------
(***************************************************************************)
(* The server.  Its main loop services the ENet host and queues what it    *)
(* gets; its network thread takes the events one by one: a new connection  *)
(* is added to peers and told its index there, a request is answered to    *)
(* the client whose index it carries.                                      *)
(*                                                                         *)
(* peers holds copies (memcpy) of ENetPeer, made when the CONNECT event is *)
(* handled and never refreshed or removed.  What a copy is good for        *)
(* depends on what has become of the slot since: see SendThrough.          *)
(* Locking is EventQueue's subject: here the queue is a FIFO.              *)
(***************************************************************************)
EXTENDS Transport, FiniteSets

CONSTANTS
    Files,       \* the requests that the server has a file for
    FreeAborts,  \* whether free () aborts the process if given what malloc has not
    MaxAdrift    \* bound on the copies that come adrift

ASSUME ServerAssumption == /\ Files \subseteq {"INIT_SCRIPT", "IMAGE"}
                           /\ FreeAborts \in BOOLEAN /\ MaxAdrift \in Nat

VARIABLES
    networkEventsQueue,  \* events of the host, oldest first
    peers,               \* index, from 0: clientID; here from 1
    serverPC,            \* the network thread: "idle" or "sendID"
    adrift,              \* the indices of copies whose list of commands has come
                         \* off their slot's
    wild,                \* something has been written into channels that ENet had
                         \* freed (no variable of the server)
    serverUp             \* the process has not ended

serverVars == <<networkEventsQueue, peers, serverPC, adrift, wild, serverUp>>

ServerInit == /\ networkEventsQueue = << >>
              /\ peers = << >>
              /\ serverPC = "idle"
              /\ adrift = {}
              /\ wild = FALSE
              /\ serverUp = TRUE

\* getPeerFromClientID
PeerFromClientID(id) == peers[id + 1]

-----------------------------------------------------------------------------
(* getNetworkEvents: the host gets the confirmation of a connection, a      *)
(* packet, or notices that a connection is lost.                            *)
ServerGets(s) == /\ up[occupant[s]] # << >>
                 /\ up' = [up EXCEPT ![occupant[s]] = Tail(@)]

ServiceConfirmation(s) ==
    /\ ServerGets(s) /\ Head(up[occupant[s]]).type = "ACK"
    /\ open' = open \cup {s}
    /\ networkEventsQueue' = Append(networkEventsQueue, [type |-> "CONNECT", peer |-> s])
    /\ UNCHANGED occupant

ServiceRequest(s) ==
    /\ ServerGets(s) /\ Head(up[occupant[s]]).type # "ACK"
    /\ networkEventsQueue' = Append(networkEventsQueue,
           [type |-> "RECEIVE", peer |-> s, packet |-> Head(up[occupant[s]])])
    /\ UNCHANGED <<open, occupant>>

ServiceGone(s) ==
    /\ link[occupant[s]] \in {"cut", "lost"}
    /\ occupant' = [occupant EXCEPT ![s] = NoClient]
    /\ open' = open \ {s}
    /\ networkEventsQueue' = IF s \in open
           THEN Append(networkEventsQueue, [type |-> "DISCONNECT", peer |-> s])
           ELSE networkEventsQueue
    /\ UNCHANGED up

ServiceServer(s) ==
    /\ serverUp
    /\ occupant[s] # NoClient
    /\ ServiceConfirmation(s) \/ ServiceRequest(s) \/ ServiceGone(s)
    /\ UNCHANGED <<link, down, cuts, peers, serverPC, adrift, wild, serverUp>>

-----------------------------------------------------------------------------
NextServerEvent(type) == /\ serverPC = "idle"
                         /\ networkEventsQueue # << >>
                         /\ Head(networkEventsQueue).type = type

\* addNewPeer: a copy of the slot as it is now, whoever is in it
AddNewPeer ==
    /\ NextServerEvent("CONNECT")
    /\ LET s == Head(networkEventsQueue).peer IN
       peers' = Append(peers, [slot |-> s, client |-> occupant[s], open |-> s \in open])
    /\ networkEventsQueue' = Tail(networkEventsQueue)
    /\ serverPC' = "sendID"
    /\ UNCHANGED <<transportVars, adrift, wild>>

\* com_sendDataToPeer through the copy of a peer: enet_peer_send refuses if it is
\* not in state CONNECTED.  Else the command goes into the list of the copy, which
\* hangs in the slot's: the slot's own head leads to what the copy holds, and on
\* over the head of the copy's list back to itself.
\*   - Main takes the command from there and sends it.
\*   - ENet has put a command of its own (BANDWIDTH_LIMIT, a ping) into the slot's
\*     list before main came to it: its head leads past the copy's from now on, and
\*     what is sent through this copy stays there.
\*   - The connection has gone since: its channels are freed memory, written to all
\*     the same, and the packet is lost or goes to the client in the slot now.
SendThrough(id, packet) ==
    LET copy == PeerFromClientID(id)
        now  == occupant[copy.slot] IN
    \/ /\ ~copy.open
       /\ UNCHANGED <<down, adrift, wild>>
    \/ /\ copy.open /\ now = copy.client /\ id \notin adrift
       /\ down' = DownAfter(now, packet)
       /\ UNCHANGED <<adrift, wild>>
    \/ /\ copy.open /\ now = copy.client
       /\ adrift' = adrift \cup {id} /\ Cardinality(adrift') <= MaxAdrift
       /\ UNCHANGED <<down, wild>>
    \/ /\ copy.open /\ now # copy.client
       /\ wild' = TRUE
       /\ UNCHANGED down \/ (now # NoClient /\ down' = DownAfter(now, packet))
       /\ UNCHANGED adrift

\* a new client is sent an ID, through the copy that has just been made
SendsID(id) ==
    /\ serverPC = "sendID"
    /\ SendThrough(Len(peers) - 1, [type |-> "NEW_CLIENT_ID", id |-> id])
    /\ serverPC' = "idle"
    /\ UNCHANGED <<link, up, occupant, open, cuts, networkEventsQueue, peers>>

(* Faulty variants of SendNewClientID, not used by the specification: the   *)
(* ID is peers.size (), is left at its default, or is not sent.             *)
SendsSize    == SendsID(Len(peers))
SendsDefault == SendsID(0)
SendsNothing == /\ serverPC = "sendID"
                /\ serverPC' = "idle"
                /\ UNCHANGED <<transportVars, networkEventsQueue, peers, adrift, wild>>

\* s_sendNewClientID: the index in peers that addNewPeer has returned
SendNewClientID == SendsID(Len(peers) - 1)

\* s_processClientPacket: s_sendScriptToClient, s_sendMediaToClient
Answer(request) == IF request.type = "INIT_SCRIPT" THEN [type |-> "SCRIPT", good |-> TRUE]
                                                   ELSE [type |-> "IMAGE"]

ProcessClientPacket ==
    /\ NextServerEvent("RECEIVE")
    /\ LET request == Head(networkEventsQueue).packet IN
       /\ request.id < Len(peers)
       /\ \/ request.type \in Files /\ SendThrough(request.id, Answer(request))
          \/ request.type \notin Files /\ UNCHANGED <<down, adrift, wild>>
    /\ networkEventsQueue' = Tail(networkEventsQueue)
    /\ UNCHANGED <<link, up, occupant, open, cuts, peers, serverPC>>

\* the handler of DISCONNECT leaves peers alone
HandleDisconnect ==
    /\ NextServerEvent("DISCONNECT")
    /\ networkEventsQueue' = Tail(networkEventsQueue)
    /\ UNCHANGED <<transportVars, peers, serverPC, adrift, wild>>

ServerThread ==
    /\ serverUp
    /\ AddNewPeer \/ SendNewClientID \/ ProcessClientPacket \/ HandleDisconnect
    /\ UNCHANGED serverUp

-----------------------------------------------------------------------------
\* something has been sent through a copy
SentThroughCopy == \E i \in 1..Len(peers) :
                       peers[i].open /\ (i < Len(peers) \/ serverPC = "idle")

\* Main comes to the head of the copy's list on its way through the slot's, takes it
\* for a command without a packet and gives it to free ().  With glibc's the process
\* is aborted; built for debugging, with -fsanitize=leak, it goes on, until freed
\* memory that has been written to tells.
Abort ==
    /\ FreeAborts /\ serverUp /\ SentThroughCopy
    /\ serverUp' = FALSE
    /\ AllCut
    /\ networkEventsQueue' = << >>
    /\ UNCHANGED <<peers, serverPC, adrift, wild>>

-----------------------------------------------------------------------------
ServerEvents == [type : {"CONNECT", "DISCONNECT"}, peer : Slots]
                    \cup [type : {"RECEIVE"}, peer : Slots, packet : Requests]
Copies == [slot : Slots, client : Clients \cup {NoClient}, open : BOOLEAN]

ServerTypeOK == /\ networkEventsQueue \in Seq(ServerEvents)
                /\ peers \in Seq(Copies)
                /\ serverPC \in {"idle", "sendID"}
                /\ adrift \subseteq Nat
                /\ {wild, serverUp} \subseteq BOOLEAN
=============================================================================
