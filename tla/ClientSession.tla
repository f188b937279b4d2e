--------------------------- MODULE ClientSession ---------------------------
(***************************************************************************)
(* A client from its connection to the splash screen.  Three of its        *)
(* threads take part:                                                      *)
(*   main      each frame services the ENet host, takes one event of       *)
(*             gameEventQueue and does what the current mode asks          *)
(*             (processClientFrame);                                       *)
(*   network   handles the events of the host (processClientEventNetwork): *)
(*             stores the ID, loads the script, keeps the image, and queues *)
(*             for main what only main may do;                             *)
(*   requests  sends again what is in requestQueue and has not been        *)
(*             answered for a second (c_processRequestQueue).              *)
(* A variable is a function of the client.  A step between two mutexed      *)
(* accesses is a step of its own; locking is EventQueue's subject.         *)
(***************************************************************************)
EXTENDS Transport, FiniteSets

CONSTANTS
    InitDelay,    \* frames the request for the init script waits: 200
    MaxInFlight,  \* bound on the requests under way when one is sent again
    MaxCorrupt,   \* bound on the script packets that arrive damaged
    MaxRefused    \* bound on what is refused

ASSUME SessionAssumption == {InitDelay, MaxInFlight, MaxCorrupt, MaxRefused} \subseteq Nat

VARIABLES
    networkEventsQueueClient,
    gameEventQueue,    \* events for main: action and delayCounter
    currentMode,
    sentInitRequest,
    hasAddress,        \* clientPeer.peerInfo.address.host != 0
    clientID,          \* clientPeer.ID: 0 until the server's packet is handled
    hasID,             \* whether it has been handled (no variable of the client)
    requestQueue,      \* how many requests it holds, all for "initScript"
    mainPC,            \* "frame", "requeue" or, with the process, "ended"
    postponed,         \* the event that waits to be queued again
    netPC,             \* "idle", "load", "again" or "ended"
    cached,            \* the function ID for "clientInit" that run finds: "none",
                       \* "fresh" or, of a module replaced since, "stale"
    scriptOne,         \* clientInit has registered a function the module lacks
    ran,               \* run ("clientInit") has succeeded (no variable of the client)
    splash,            \* clientTextures["splash"]: "none", "surface", "texture"
    corrupted,         \* script packets damaged so far
    refused            \* who could not load or run a script it got, <<c, "script">>,
                       \* or not decode or upload an image (no variable of the client)

mainVars     == <<currentMode, sentInitRequest, mainPC, postponed, scriptOne, ran>>
networkVars  == <<hasAddress, clientID, hasID, netPC, cached>>
sharedVars   == <<gameEventQueue, requestQueue, splash, refused>>
clientVars   == <<mainVars, networkVars, sharedVars, networkEventsQueueClient, corrupted>>

Each(value) == [c \in Clients |-> value]

ClientInit == /\ networkEventsQueueClient = Each(<< >>)
              /\ gameEventQueue = Each(<< >>)
              /\ currentMode = Each("REQUEST_WAIT")
              /\ sentInitRequest = Each(FALSE)
              /\ hasAddress = Each(FALSE)
              /\ clientID = Each(0) /\ hasID = Each(FALSE)
              /\ requestQueue = Each(0)
              /\ mainPC = Each("frame")
              /\ postponed = Each(<< >>)
              /\ netPC = Each("idle")
              /\ cached = Each("none")
              /\ scriptOne = Each(FALSE) /\ ran = Each(FALSE)
              /\ splash = Each("none")
              /\ corrupted = 0
              /\ refused = {}

\* f with c's value changed to v
With(f, c, v) == [f EXCEPT ![c] = v]

GameEvent(action, delay) == [action |-> action, delay |-> delay]

\* c_addEventToQueue
AddEventToQueue(c, event) == gameEventQueue' = With(gameEventQueue, c, Append(gameEventQueue[c], event))

\* c_sendRequestToServer; the ID goes with every request
AfterRequest(wire, c, type) == UpAfter(wire, c, [type |-> type, id |-> clientID[c]])

\* c_addRequestToQueue
Added(c) == With(requestQueue, c, requestQueue[c] + 1)

\* c_removeRequest.  Its loop goes on over the vector it erases from and passes
\* over the element behind the one erased: of n requests of the same name n \div 2
\* stay.  (For n > 1 the loop also reads behind the end of the vector.)
Removed(c) == With(requestQueue, c, requestQueue[c] \div 2)

\* An operation on what c has got returns false.  Nothing asks for it again.
Refuse(c, what) ==
    /\ Cardinality(refused \cup {<<c, what>>}) <= MaxRefused
    /\ refused' = refused \cup {<<c, what>>}

-----------------------------------------------------------------------------
(* The main thread: processClientFrame.                                     *)

\* c_getNetworkEvents: one turn of its loop, when ENet has something
AddClientEvent(c, event) ==
    networkEventsQueueClient' = With(networkEventsQueueClient, c,
                                     Append(networkEventsQueueClient[c], event))

ClientGets(c) == /\ down[c] # << >>
                 /\ down' = With(down, c, Tail(down[c]))

ServiceConnect(c) ==
    /\ ClientGets(c) /\ Head(down[c]).type = "CONNECT"
    /\ link' = With(link, c, "connected")
    /\ up' = With(up, c, <<[type |-> "ACK"]>>)
    /\ AddClientEvent(c, [type |-> "CONNECT"])
    /\ UNCHANGED corrupted

\* a packet, or a script that arrives damaged in its place
ServicePacket(c) ==
    /\ ClientGets(c) /\ Head(down[c]).type # "CONNECT"
    /\ \/ /\ AddClientEvent(c, [type |-> "RECEIVE", packet |-> Head(down[c])])
          /\ UNCHANGED corrupted
       \/ /\ Head(down[c]).type = "SCRIPT" /\ corrupted < MaxCorrupt
          /\ AddClientEvent(c, [type |-> "RECEIVE",
                                packet |-> [type |-> "SCRIPT", good |-> FALSE]])
          /\ corrupted' = corrupted + 1
    /\ UNCHANGED <<link, up>>

ServiceLoss(c) == /\ link[c] = "cut"
                  /\ link' = With(link, c, "lost")
                  /\ AddClientEvent(c, [type |-> "DISCONNECT"])
                  /\ UNCHANGED <<up, down, corrupted>>

ServiceClient(c) == /\ mainPC[c] = "frame"
                    /\ ServiceConnect(c) \/ ServicePacket(c) \/ ServiceLoss(c)
                    /\ UNCHANGED <<occupant, open, cuts, mainVars, networkVars, sharedVars>>

\* One frame: c_processGameEventQueue takes an event, and the switch on the mode
\* follows.  What it reads of the other threads it reads at once.

\* the switch, with the mode and the packets that the event has left.  A request
\* leaves the client only when main services the host again, so sending it and
\* queueing it are one step.
ModeSwitch(c, mode, wire) ==
    IF mode = "REQUEST_INIT_SCRIPT" /\ hasAddress[c] /\ ~sentInitRequest[c]
    THEN /\ up' = AfterRequest(wire, c, "INIT_SCRIPT")
         /\ requestQueue' = Added(c)
         /\ currentMode' = With(currentMode, c, "WAIT_FOR_INIT_SCRIPT")
         /\ sentInitRequest' = With(sentInitRequest, c, TRUE)
    ELSE /\ currentMode' = With(currentMode, c,
                IF mode = "WAIT_FOR_INIT_SCRIPT" THEN "SPLASH_SCREEN" ELSE mode)
         /\ up' = wire
         /\ UNCHANGED <<requestQueue, sentInitRequest>>

\* the queue is empty
NoGameEvent(c) ==
    /\ mainPC[c] = "frame"
    /\ gameEventQueue[c] = << >>
    /\ ModeSwitch(c, currentMode[c], up)
    /\ UNCHANGED <<link, down, occupant, open, cuts, networkVars, networkEventsQueueClient,
                   corrupted, gameEventQueue, mainPC, postponed, scriptOne, ran, splash, refused>>

\* the first event is due
Takes(c, action) ==
    /\ mainPC[c] = "frame"
    /\ gameEventQueue[c] # << >>
    /\ Head(gameEventQueue[c]).delay = 0 /\ Head(gameEventQueue[c]).action = action
    /\ gameEventQueue' = With(gameEventQueue, c, Tail(gameEventQueue[c]))
    /\ UNCHANGED <<link, down, occupant, open, cuts, networkVars, networkEventsQueueClient,
                   corrupted, mainPC, postponed>>

RequestInitScript(c) ==
    /\ Takes(c, "REQUEST_INIT_SCRIPT")
    /\ ModeSwitch(c, "REQUEST_INIT_SCRIPT", up)
    /\ UNCHANGED <<scriptOne, ran, splash, refused>>

\* convertToTexture deletes the texture there is before it can fail, and cannot but
\* fail without a surface.
UploadTexture(c) ==
    /\ Takes(c, "UPLOAD_TEXTURE")
    /\ \/ /\ splash[c] # "none"
          /\ splash' = With(splash, c, "texture")
          /\ UNCHANGED refused
       \/ /\ splash' = With(splash, c, IF splash[c] = "none" THEN "none" ELSE "surface")
          /\ Refuse(c, "image")
    /\ ModeSwitch(c, currentMode[c], up)
    /\ UNCHANGED <<scriptOne, ran>>

\* clientInit of clientInit.sc registers "scriptOne", which is no declaration of a
\* function, and calls loadClientResources, which asks for the splash image, once.
\* Where a stale function ID leads is undefined; with AngelScript as it is built
\* here, to clientInit or to loadClientResources of the module loaded last.  If run
\* returns false, some of it may have been done.
RunClientInit(c) ==
    /\ Takes(c, "RUN_SCRIPT_FUNCTION")
    /\ \E registers, asks \in BOOLEAN :
       /\ asks => registers \/ cached[c] = "stale"
       /\ \/ asks /\ ran' = With(ran, c, TRUE) /\ UNCHANGED refused
          \/ Refuse(c, "script") /\ UNCHANGED ran
       /\ scriptOne' = With(scriptOne, c, scriptOne[c] \/ registers)
       /\ ModeSwitch(c, currentMode[c], IF asks THEN AfterRequest(up, c, "IMAGE") ELSE up)
    /\ UNCHANGED splash

(* A faulty variant of Postpone: >= for >.                                   *)
PostponeDue(c) ==
    /\ mainPC[c] = "frame"
    /\ gameEventQueue[c] # << >> /\ Head(gameEventQueue[c]).delay >= 0
    /\ gameEventQueue' = With(gameEventQueue, c, Tail(gameEventQueue[c]))
    /\ postponed' = With(postponed, c, <<Head(gameEventQueue[c])>>)
    /\ mainPC' = With(mainPC, c, "requeue")
    /\ UNCHANGED <<transportVars, networkVars, requestQueue, splash, networkEventsQueueClient,
                   corrupted, refused, currentMode, sentInitRequest, scriptOne, ran>>

\* The first event is not due: it is taken out under the mutex and put back, a
\* frame older and behind the others, under the mutex again.
Postpone(c) ==
    /\ mainPC[c] = "frame"
    /\ gameEventQueue[c] # << >> /\ Head(gameEventQueue[c]).delay > 0
    /\ gameEventQueue' = With(gameEventQueue, c, Tail(gameEventQueue[c]))
    /\ postponed' = With(postponed, c, <<Head(gameEventQueue[c])>>)
    /\ mainPC' = With(mainPC, c, "requeue")
    /\ UNCHANGED <<transportVars, networkVars, requestQueue, splash, networkEventsQueueClient,
                   corrupted, refused, currentMode, sentInitRequest, scriptOne, ran>>

Requeue(c) ==
    /\ mainPC[c] = "requeue"
    /\ AddEventToQueue(c, [postponed[c][1] EXCEPT !.delay = @ - 1])
    /\ postponed' = With(postponed, c, << >>)
    /\ mainPC' = With(mainPC, c, "frame")
    /\ ModeSwitch(c, currentMode[c], up)
    /\ UNCHANGED <<link, down, occupant, open, cuts, networkVars, splash,
                   networkEventsQueueClient, corrupted, refused, scriptOne, ran>>

ClientFrame(c) == \/ NoGameEvent(c) \/ RequestInitScript(c) \/ RunClientInit(c)
                  \/ UploadTexture(c) \/ Postpone(c) \/ Requeue(c)

-----------------------------------------------------------------------------
(* The network thread: processClientEventNetwork.                           *)

NextClientEvent(c) == Head(networkEventsQueueClient[c])

\* the thread is free and takes the next event, of this type
TakesEvent(c, type) ==
    /\ netPC[c] = "idle"
    /\ networkEventsQueueClient[c] # << >>
    /\ NextClientEvent(c).type = type
    /\ networkEventsQueueClient' = With(networkEventsQueueClient, c, Tail(networkEventsQueueClient[c]))

\* the event is a packet of this type (c_processServerPacket)
TakesPacket(c, type) == /\ TakesEvent(c, "RECEIVE")
                        /\ NextClientEvent(c).packet.type = type

ConnectEvent(c) ==
    /\ TakesEvent(c, "CONNECT")
    /\ hasAddress' = With(hasAddress, c, TRUE)
    /\ AddEventToQueue(c, GameEvent("REQUEST_INIT_SCRIPT", InitDelay))
    /\ UNCHANGED <<transportVars, mainVars, clientID, hasID, netPC, cached, requestQueue, splash,
                   corrupted, refused>>

DisconnectEvent(c) ==
    /\ TakesEvent(c, "DISCONNECT")
    /\ UNCHANGED <<transportVars, mainVars, networkVars, sharedVars, corrupted>>

UpdateClientPeerID(c) ==
    /\ TakesPacket(c, "NEW_CLIENT_ID")
    /\ clientID' = With(clientID, c, NextClientEvent(c).packet.id)
    /\ hasID' = With(hasID, c, TRUE)
    /\ UNCHANGED <<transportVars, mainVars, hasAddress, netPC, cached, sharedVars, corrupted>>

(* Faulty variants of ScriptPacket, RequestAgain, LoadScript, ImagePacket:   *)
(* the request stays in the queue if the script is damaged, or if it is     *)
(* good; it is not queued again; only a script that replaces another is     *)
(* run; the texture is not uploaded.                                        *)
ScriptPacketRemovesIf(c, good) ==
    /\ TakesPacket(c, "SCRIPT")
    /\ requestQueue' = IF NextClientEvent(c).packet.good = good THEN Removed(c) ELSE requestQueue
    /\ netPC' = With(netPC, c, IF NextClientEvent(c).packet.good THEN "load" ELSE "again")
    /\ UNCHANGED <<transportVars, mainVars, hasAddress, clientID, hasID, cached, gameEventQueue,
                   splash, corrupted, refused>>

ScriptPacketKeepsDamaged(c) == ScriptPacketRemovesIf(c, TRUE)
ScriptPacketKeepsGood(c)    == ScriptPacketRemovesIf(c, FALSE)

RequestNotAgain(c) ==
    /\ netPC[c] = "again"
    /\ netPC' = With(netPC, c, "idle")
    /\ UNCHANGED <<transportVars, mainVars, hasAddress, clientID, hasID, cached, sharedVars,
                   networkEventsQueueClient, corrupted>>

LoadScriptNotFirst(c) ==
    /\ netPC[c] = "load"
    /\ cached' = With(cached, c, IF cached[c] = "none" THEN "fresh" ELSE "stale")
    /\ \/ cached[c] # "none" /\ AddEventToQueue(c, GameEvent("RUN_SCRIPT_FUNCTION", 0))
       \/ cached[c] = "none" /\ UNCHANGED gameEventQueue
    /\ netPC' = With(netPC, c, "idle")
    /\ UNCHANGED <<transportVars, mainVars, hasAddress, clientID, hasID, requestQueue,
                   splash, networkEventsQueueClient, corrupted, refused>>

ImagePacketNoUpload(c) ==
    /\ TakesPacket(c, "IMAGE")
    /\ splash' = With(splash, c, "surface")
    /\ UNCHANGED <<transportVars, mainVars, networkVars, gameEventQueue, requestQueue, corrupted,
                   refused>>

\* c_convertPacketToScript: either way the request is taken off the queue first
ScriptPacket(c) ==
    /\ TakesPacket(c, "SCRIPT")
    /\ requestQueue' = Removed(c)
    /\ netPC' = With(netPC, c, IF NextClientEvent(c).packet.good THEN "load" ELSE "again")
    /\ UNCHANGED <<transportVars, mainVars, hasAddress, clientID, hasID, cached, gameEventQueue,
                   splash, corrupted, refused>>

\* the CRC does not match: c_addRequestToQueue
RequestAgain(c) ==
    /\ netPC[c] = "again"
    /\ requestQueue' = Added(c)
    /\ netPC' = With(netPC, c, "idle")
    /\ UNCHANGED <<transportVars, mainVars, hasAddress, clientID, hasID, cached, gameEventQueue,
                   splash, networkEventsQueueClient, corrupted, refused>>

\* addScript, compileModule, cacheFunctions.  A new module replaces the old one, but
\* run goes on finding the function ID cached first.  cacheFunctions fails if
\* "scriptOne" has been registered, and clientInit is not run again.  If any of them
\* fails the request is off the queue already, and the old module may be gone.
LoadScript(c) ==
    /\ netPC[c] = "load"
    /\ \/ /\ cached' = With(cached, c, IF cached[c] = "none" THEN "fresh" ELSE "stale")
          /\ \/ ~scriptOne[c] /\ AddEventToQueue(c, GameEvent("RUN_SCRIPT_FUNCTION", 0))
             \/ scriptOne[c] /\ UNCHANGED gameEventQueue
          /\ UNCHANGED refused
       \/ /\ Refuse(c, "script")
          /\ UNCHANGED cached \/ (cached[c] # "none" /\ cached' = With(cached, c, "stale"))
          /\ UNCHANGED gameEventQueue
    /\ netPC' = With(netPC, c, "idle")
    /\ UNCHANGED <<transportVars, mainVars, hasAddress, clientID, hasID, requestQueue,
                   splash, networkEventsQueueClient, corrupted>>

\* c_convertPacketToSurface: keeps the image, or gives up if there are no data
ImagePacket(c) ==
    /\ TakesPacket(c, "IMAGE")
    /\ \/ /\ splash' = With(splash, c, "surface")
          /\ AddEventToQueue(c, GameEvent("UPLOAD_TEXTURE", 0))
          /\ UNCHANGED refused
       \/ /\ splash' = With(splash, c, "none")
          /\ Refuse(c, "image")
          /\ UNCHANGED gameEventQueue
    /\ UNCHANGED <<transportVars, mainVars, networkVars, requestQueue, corrupted>>

\* setSurface flips the image before anyone asks whether it has been decoded: if it
\* has not, the process ends on a null pointer.
BadImagePacket(c) ==
    /\ TakesPacket(c, "IMAGE")
    /\ Refuse(c, "image")
    /\ ClientGone(c)
    /\ mainPC' = With(mainPC, c, "ended")
    /\ netPC' = With(netPC, c, "ended")
    /\ UNCHANGED <<currentMode, sentInitRequest, postponed, scriptOne, ran, hasAddress, clientID,
                   hasID, cached, gameEventQueue, requestQueue, splash, corrupted>>

ClientNetwork(c) == \/ ConnectEvent(c) \/ DisconnectEvent(c) \/ UpdateClientPeerID(c)
                    \/ ScriptPacket(c) \/ RequestAgain(c) \/ LoadScript(c)
                    \/ ImagePacket(c) \/ BadImagePacket(c)

-----------------------------------------------------------------------------
(* The requests thread: c_processRequestQueue, when the answer is late.  It *)
(* sends with the ID that the client has by now.                            *)

Resend(c) ==
    /\ netPC[c] # "ended"
    /\ requestQueue[c] > 0
    /\ up' = AfterRequest(up, c, "INIT_SCRIPT")
    /\ UNCHANGED <<link, down, occupant, open, cuts, clientVars>>

-----------------------------------------------------------------------------
Actions    == {"REQUEST_INIT_SCRIPT", "RUN_SCRIPT_FUNCTION", "UPLOAD_TEXTURE"}
GameEvents == [action : Actions, delay : 0..InitDelay]

ClientTypeOK ==
    /\ networkEventsQueueClient \in
           [Clients -> Seq([type : {"CONNECT", "DISCONNECT"}]
                           \cup [type : {"RECEIVE"}, packet : Data])]
    /\ gameEventQueue \in [Clients -> Seq(GameEvents)]
    /\ currentMode \in [Clients -> {"REQUEST_WAIT", "REQUEST_INIT_SCRIPT",
                                    "WAIT_FOR_INIT_SCRIPT", "SPLASH_SCREEN"}]
    /\ {sentInitRequest, hasAddress, hasID, scriptOne, ran} \subseteq [Clients -> BOOLEAN]
    /\ {clientID, requestQueue} \subseteq [Clients -> Nat]
    /\ mainPC \in [Clients -> {"frame", "requeue", "ended"}]
    /\ postponed \in [Clients -> Seq(GameEvents)]
    /\ netPC \in [Clients -> {"idle", "load", "again", "ended"}]
    /\ cached \in [Clients -> {"none", "fresh", "stale"}]
    /\ splash \in [Clients -> {"none", "surface", "texture"}]
    /\ corrupted \in 0..MaxCorrupt
    /\ refused \subseteq Clients \X {"script", "image"}

\* something of c's that will come to run clientInit, or to ask for it again
RunQueued(c) == \E i \in 1..Len(gameEventQueue[c]) :
                    gameEventQueue[c][i].action = "RUN_SCRIPT_FUNCTION"

(* A client that has asked for the init script does not forget it: until    *)
(* clientInit has run, the request is queued, an answer is being handled,   *)
(* or the run is queued; unless a script it got could not be loaded or run, *)
(* which nothing in the client makes good.  The answer takes the request    *)
(* off the queue in one critical section and puts back another, or the run, *)
(* in a later one.                                                          *)
RequestKept == \A c \in Clients :
    sentInitRequest[c] => \/ requestQueue[c] > 0 \/ netPC[c] # "idle" \/ RunQueued(c)
                          \/ ran[c] \/ <<c, "script">> \in refused

(* A client never has two requests queued for the one script, whatever is   *)
(* sent again, answered twice or damaged: c_removeRequest can cope with one *)
(* only.  (While it is the only client: another that does not know its ID   *)
(* yet may have asked in its name, and the answer come damaged.)            *)
OneRequest == \A c \in Clients : requestQueue[c] <= 1

-----------------------------------------------------------------------------
(* c_gameEvents.cpp:73, "After running function [ %s ] in script": when     *)
(* run ("clientInit") has succeeded, clientInit has run.                    *)
RunsClientInit == \A c \in Clients : ran[c] => scriptOne[c]
=============================================================================
