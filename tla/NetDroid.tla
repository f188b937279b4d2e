------------------------------ MODULE NetDroid ------------------------------
(***************************************************************************)
(* The whole: clients that connect to the server, are given an ID, ask for *)
(* the init script, run it, and ask for the splash image.                  *)
(***************************************************************************)
EXTENDS Server, ClientSession

vars == <<transportVars, serverVars, clientVars>>

Init == TransportInit /\ ServerInit /\ ClientInit

-----------------------------------------------------------------------------
\* What c has on its way to the server or waiting there, what is on its way to c, and
\* what waits for its main thread; and the bound on it that c keeps to when it sends a
\* request again, for itself and for the client that its ID leads to.  They model
\* nothing.
UnderWay(c) ==
    Len(up[c]) + Len(down[c]) + Len(networkEventsQueueClient[c]) + Len(gameEventQueue[c])
    + Cardinality({i \in 1..Len(networkEventsQueue) :
                       occupant[networkEventsQueue[i].peer] = c})
Room(c) == \A b \in Clients :
    b = c \/ (clientID[c] < Len(peers) /\ PeerFromClientID(clientID[c]).client = b) =>
        UnderWay(b) < MaxInFlight

Network == /\ \E c \in Clients : Cut(c) \/ \E s \in Slots : serverUp /\ Accept(c, s)
           /\ UNCHANGED <<serverVars, clientVars>>

ServerMain(s)  == ServiceServer(s) /\ UNCHANGED clientVars
ServerNetwork  == ServerThread /\ UNCHANGED clientVars
ServerAbort    == Abort /\ UNCHANGED clientVars
Receive(c)     == ServiceClient(c) /\ UNCHANGED serverVars
Frame(c)       == ClientFrame(c) /\ UNCHANGED serverVars
Handle(c)      == ClientNetwork(c) /\ UNCHANGED serverVars
Retry(c)       == Room(c) /\ Resend(c) /\ UNCHANGED serverVars

Next == \/ Network
        \/ \E s \in Slots : ServerMain(s)
        \/ ServerNetwork
        \/ ServerAbort
        \/ \E c \in Clients : Receive(c) \/ Frame(c) \/ Handle(c) \/ Retry(c)

Spec == Init /\ [][Next]_vars

(* All the threads run on.  A client gets what is sent to it: of the frames *)
(* without end in which it services the host, the packet does not miss all. *)
(* Nothing obliges a client to connect, or a connection to be lost.         *)
Fairness == /\ \A s \in Slots : WF_vars(ServerMain(s))
            /\ WF_vars(ServerNetwork)
            /\ \A c \in Clients : /\ SF_vars(Receive(c)) /\ WF_vars(Frame(c))
                                  /\ WF_vars(Handle(c)) /\ WF_vars(Retry(c))

FairSpec == Spec /\ Fairness

-----------------------------------------------------------------------------
TypeOK == TransportTypeOK /\ ServerTypeOK /\ ClientTypeOK

\* the network thread of the server handles a request next
Handling == /\ serverPC = "idle"
            /\ networkEventsQueue # << >>
            /\ Head(networkEventsQueue).type = "RECEIVE"

(* getPeerFromClientID and s_sendScriptToClient index peers, untested, with *)
(* the number the client has sent, be it the default 0: there is an element *)
(* at that index by the time the request is handled.                        *)
IDsInRange == Handling => Head(networkEventsQueue).packet.id < Len(peers)

(* The ID a client has been told leads to a usable copy of its own peer,    *)
(* whoever has had the slot before: unless the server has written into the  *)
(* channels of a connection that has gone.                                  *)
OwnID == ~wild => \A c \in Clients : hasID[c] =>
    /\ clientID[c] < Len(peers)
    /\ PeerFromClientID(clientID[c]).client = c /\ PeerFromClientID(clientID[c]).open

(* clientInit, whose request for the image is not repeated, never runs      *)
(* before the client knows its ID, whoever's request has brought the        *)
(* script; unless, again, the server has written into freed channels.       *)
RunsWithID == ~wild => \A c \in Clients : ran[c] => hasID[c]

\* What the server sends to c stays where it is, through one copy at least.
Adrift(c) == \E id \in adrift : PeerFromClientID(id).client = c

(* A request that is queued is at last taken off, unless the connection is  *)
(* lost (it is if the server's process ends) or its copy in peers is adrift. *)
RequestRetired == \A c \in Clients :
    requestQueue[c] > 0 ~> requestQueue[c] = 0 \/ Adrift(c) \/ link[c] # "connected"

(* A client that is connected comes to run the script: unless the server    *)
(* sends through a copy that is adrift or has written into freed channels,  *)
(* the script is refused, or the connection is lost; and given that the     *)
(* server has the file.                                                     *)
ScriptArrives == \A c \in Clients :
    link[c] = "connected" ~> \/ ran[c] \/ <<c, "script">> \in refused
                             \/ Adrift(c) \/ wild \/ link[c] # "connected"

(* clientInit asks for the splash image once, and never again: that is      *)
(* enough, unless the server sends through a copy that is adrift or has     *)
(* written into freed channels, the image is refused, or the connection is  *)
(* lost; and given that the server has the file.                            *)
SplashArrives == \A c \in Clients :
    ran[c] ~> \/ splash[c] = "texture" \/ <<c, "image">> \in refused
              \/ Adrift(c) \/ wild \/ link[c] # "connected"

-----------------------------------------------------------------------------
(* Why a request that is handled has an ID in range, and why a client that  *)
(* asked does not forget: what holds in between, on the way.                *)

\* the default, and the IDs that have been given
KnownIDs == {id \in Nat : id = 0 \/ id < Len(peers)}

KnownRequests == [type : {"INIT_SCRIPT", "IMAGE"}, id : KnownIDs]
KnownUp       == [type : {"ACK"}] \cup KnownRequests
KnownData     == [type : {"NEW_CLIENT_ID"}, id : KnownIDs]
                     \cup [type : {"SCRIPT"}, good : BOOLEAN] \cup [type : {"IMAGE"}]
KnownDown     == [type : {"CONNECT"}] \cup KnownData
KnownServerEvents == [type : {"CONNECT", "DISCONNECT"}, peer : Slots]
                         \cup [type : {"RECEIVE"}, peer : Slots, packet : KnownRequests]
KnownClientEvents == [type : {"CONNECT", "DISCONNECT"}]
                         \cup [type : {"RECEIVE"}, packet : KnownData]

\* An ID under way, in whatever queue, is the default or one that was given.
IDsKnown == /\ clientID \in [Clients -> KnownIDs]
            /\ up \in [Clients -> Seq(KnownUp)]
            /\ down \in [Clients -> Seq(KnownDown)]
            /\ networkEventsQueue \in Seq(KnownServerEvents)
            /\ networkEventsQueueClient \in [Clients -> Seq(KnownClientEvents)]

\* The network thread of the server has taken a connection, or one is queued for it.
ConnectAt(i) == networkEventsQueue[i].type = "CONNECT"
SeesConnect  == peers # << >> \/ \E i \in 1..Len(networkEventsQueue) : ConnectAt(i)

\* Before that nobody has confirmed a connection,
ConfirmsFirst == SeesConnect \/ \A c \in Clients :
    link[c] = "connected" \/ up[c] # << >> => up[c] # << >> /\ up[c][1].type = "ACK"

\* so a connection is the first that the server comes to handle.
ConnectFirst == peers # << >> \/ \A i \in 1..Len(networkEventsQueue) :
    networkEventsQueue[i].type = "RECEIVE" => \E j \in 1..i - 1 : ConnectAt(j)

PeerToTell == serverPC = "sendID" => peers # << >>

\* The run of a function is never postponed.
PromptEvents == {e \in GameEvents : e.action = "RUN_SCRIPT_FUNCTION" => e.delay = 0}
LateEvents   == {e \in PromptEvents : e.delay > 0}
RunsAtOnce   == /\ gameEventQueue \in [Clients -> Seq(PromptEvents)]
                /\ postponed \in [Clients -> Seq(LateEvents)]
                /\ \A c \in Clients : mainPC[c] = "requeue" => postponed[c] # << >>

\* What keeps a script from being run again is that one has been run, or failed to.
RegisteredMeansRan == \A c \in Clients :
    scriptOne[c] => ran[c] \/ <<c, "script">> \in refused

(* The inductive invariant of NetDroid_proof.                               *)
IInv == /\ TypeOK /\ IDsKnown /\ ConfirmsFirst /\ ConnectFirst /\ PeerToTell
        /\ RunsAtOnce /\ RegisteredMeansRan /\ RequestKept

-----------------------------------------------------------------------------
(* Why an ID leads to its client, and comes before the script, as long as   *)
(* nothing is written into freed channels.                                  *)

\* the indices of usable copies of a client's own peer
Own(c) == {id \in Nat : /\ id < Len(peers)
                        /\ peers[id + 1].client = c /\ peers[id + 1].open}
OwnData(c) == [type : {"NEW_CLIENT_ID"}, id : Own(c)]
                  \cup [type : {"SCRIPT"}, good : BOOLEAN] \cup [type : {"IMAGE"}]
OwnDown(c) == [type : {"CONNECT"}] \cup OwnData(c)
OwnClientEvents(c) == [type : {"CONNECT", "DISCONNECT"}]
                          \cup [type : {"RECEIVE"}, packet : OwnData(c)]

\* An ID on its way to a client is its own.
IDsOwn == \A c \in Clients :
    /\ hasID[c] => clientID[c] \in Own(c)
    /\ down[c] \in Seq(OwnDown(c))
    /\ networkEventsQueueClient[c] \in Seq(OwnClientEvents(c))

\* An open slot, or a copy of one, is some client's.
SlotsTaken == /\ \A s \in open : occupant[s] \in Clients
              /\ \A i \in 1..Len(peers) : peers[i].open => peers[i].client \in Clients

\* What link says of the packets under way, of the open slots and of the copies.
CopyLinked(copy) == copy.open =>
    /\ link[copy.client] \in {"connected", "cut", "lost"}
    /\ link[copy.client] = "connected" => occupant[copy.slot] = copy.client
Linked == /\ \A c \in Clients : up[c] # << >> => link[c] = "connected"
          /\ \A c \in Clients : link[c] \in {"cut", "lost"} => down[c] = << >>
          /\ \A s \in open : link[occupant[s]] \in {"connected", "cut", "lost"}
          /\ \A i \in 1..Len(peers) : CopyLinked(peers[i])

\* what a packet or an event of the client's is about
KindOf(e)      == IF e.type = "RECEIVE" THEN e.packet.type ELSE e.type
Holds(q, kind) == \E i \in 1..Len(q) : KindOf(q[i]) = kind
IDBeforeScript(q) == \A i \in 1..Len(q) : KindOf(q[i]) = "SCRIPT" =>
                         \E j \in 1..i - 1 : KindOf(q[j]) = "NEW_CLIENT_ID"

\* The server has sent c its ID, or it comes to.
IDSent(c) == \/ Holds(networkEventsQueueClient[c], "NEW_CLIENT_ID")
             \/ Holds(down[c], "NEW_CLIENT_ID")
IDDue(c)  == \A i \in 1..Len(peers) :
    peers[i].client = c /\ peers[i].open /\ link[c] = "connected" /\ i - 1 \notin adrift =>
        IDSent(c) \/ (serverPC = "sendID" /\ i = Len(peers))

\* Before a client knows its ID no script is handled or run, and none gets ahead of it.
IDFirst(c) ==
    hasID[c] \/ /\ netPC[c] \in {"idle", "ended"} /\ ~RunQueued(c) /\ ~ran[c]
                /\ IDBeforeScript(networkEventsQueueClient[c])
                /\ Holds(networkEventsQueueClient[c], "NEW_CLIENT_ID") \/ IDBeforeScript(down[c])
                /\ IDDue(c)

(* Inductive besides IInv.                                                  *)
IDInv == ~wild => SlotsTaken /\ Linked /\ IDsOwn /\ \A c \in Clients : IDFirst(c)

-----------------------------------------------------------------------------
(* What the server says of a request and the program does not ensure.       *)

(* s_network.cpp:37, "Received init script request from client [ %i ]": a   *)
(* request comes from the client whose number it carries.                   *)
RequestFromSender == Handling =>
    LET event == Head(networkEventsQueue) IN
    event.packet.id < Len(peers) =>
        PeerFromClientID(event.packet.id).client = occupant[event.peer]
=============================================================================
