---------------------------- MODULE NetworkState ----------------------------
(***************************************************************************)
(* How the client gets its ENet host and its connection.  Three threads    *)
(* share clientNetworkState: the main thread asks for a connection and     *)
(* then services the host once per frame, the monitor thread reads the     *)
(* state, acts on it and writes the next one, and the network thread       *)
(* reports the connection that ENet has made.  Each call of the class      *)
(* networkState is atomic (it has a mutex of its own); what a thread does  *)
(* between two calls is not.                                               *)
(*                                                                         *)
(* previousState and nextState are left out: nothing reads them.  Neither  *)
(* is time modelled; the constant StartupDelayEnough is what the program   *)
(* hopes for from the SDL_Delay (500) in main.                             *)
(***************************************************************************)
EXTENDS Naturals, Sequences

CONSTANTS
    MaxAttempts,        \* rounds of ATTEMPTING_CONNECT before giving up: 5
    StartupDelayEnough  \* TRUE: the delay in main outlasts the monitor's
                        \* work on PRE_INIT and DO_INIT

ASSUME ConstantsAssumption == /\ MaxAttempts \in Nat
                              /\ StartupDelayEnough \in BOOLEAN

VARIABLES
    currentState,        \* networkState::currentState
    networkStarted,      \* networkState::networkStarted
    client,              \* droidClient::client: "none" or "created"
    hosts,               \* how many ENet hosts initClient has created
    link,                \* state of the client's ENet peer
    connectionComplete,  \* droidClient::connectionComplete
    mainPC,              \* where the main thread is
    monitorPC,           \* where the monitor thread is in its loop
    saw,                 \* what getCurrentState has returned to it
    toSet,               \* the state it is about to set
    attemptCounter,      \* its static int
    netQueue,            \* networkEventsQueueClient
    netPC,               \* where the network thread is
    initScriptEvents     \* ACTION_REQUEST_INIT_SCRIPT events queued

mainVars    == <<mainPC>>
monitorVars == <<monitorPC, saw, toSet, attemptCounter>>
netVars     == <<netPC, initScriptEvents, connectionComplete>>
stateVars   == <<currentState, networkStarted>>
enetVars    == <<client, hosts, link>>
vars == <<mainVars, monitorVars, netVars, stateVars, enetVars, netQueue>>

\* KICKED and TIMED_OUT are left out: nothing sets them
networkStates == {"PRE_INIT", "DO_INIT", "INIT_ERROR", "INIT_DONE", "CONNECTED",
                  "ATTEMPTING_CONNECT", "CONNECT_FAILED", "CONNECT_FAILED_ALERT",
                  "CONNECT_SUCCESS", "TRY_SERVER_CONNECT"}

Init == /\ currentState = "PRE_INIT"
        /\ networkStarted = FALSE
        /\ client = "none" /\ hosts = 0 /\ link = "disconnected"
        /\ connectionComplete = FALSE
        /\ mainPC = "start"
        /\ monitorPC = "read" /\ saw = "PRE_INIT" /\ toSet = "PRE_INIT"
        /\ attemptCounter = 0
        /\ netQueue = << >>
        /\ netPC = "idle" /\ initScriptEvents = 0

setNewState(s) == currentState' = s

\* the null host pointer has been read through: the process is gone
Crashed == mainPC = "crashed"

\* the monitor thread runs and is at pc
MonitorAt(pc) == ~Crashed /\ monitorPC = pc

\* the monitor thread is at the case of its switch for the state it has read
Acts(state) == MonitorAt("act") /\ saw = state

\* the monitor goes on to set state s
GoesToSet(s) == monitorPC' = "set" /\ toSet' = s

NextEvent(event) == /\ ~Crashed /\ netPC = "idle"
                    /\ netQueue # << >> /\ Head(netQueue) = event

-----------------------------------------------------------------------------
(* Faulty variants of six steps.  The specification does not use them; each *)
(* must break one of the properties below.                                  *)

\* setNetworkStarted (true) is left out
SetStartedForgotten ==
    /\ MonitorAt("started")
    /\ monitorPC' = "read"
    /\ UNCHANGED <<mainVars, saw, toSet, attemptCounter, netVars, stateVars,
                   enetVars, netQueue>>

\* INIT_DONE is set after setNetworkStarted's turn has gone by
WriteStateSkipsStarted ==
    /\ MonitorAt("set")
    /\ setNewState(toSet)
    /\ monitorPC' = "read"
    /\ UNCHANGED <<mainVars, saw, toSet, attemptCounter, netVars,
                   networkStarted, enetVars, netQueue>>

\* connects without asking isNetworkStarted ()
TryServerConnectUnchecked ==
    /\ Acts("TRY_SERVER_CONNECT")
    /\ monitorPC' = "connect"
    /\ UNCHANGED <<mainVars, saw, toSet, attemptCounter, netVars, stateVars,
                   enetVars, netQueue>>

\* attemptCounter is never incremented
AttemptingForEver ==
    /\ Acts("ATTEMPTING_CONNECT")
    /\ monitorPC' = "read"
    /\ UNCHANGED <<mainVars, saw, toSet, attemptCounter, netVars, stateVars,
                   enetVars, netQueue>>

\* setConnectionComplete (true) is left out
ConnectEventIncomplete ==
    /\ NextEvent("CONNECT")
    /\ netQueue' = Tail(netQueue)
    /\ netPC' = "connected"
    /\ UNCHANGED <<mainVars, monitorVars, initScriptEvents, connectionComplete,
                   stateVars, enetVars>>

\* the loss of the connection starts a new attempt
DisconnectEventRetries ==
    /\ NextEvent("DISCONNECT")
    /\ netQueue' = Tail(netQueue)
    /\ setNewState("TRY_SERVER_CONNECT")
    /\ UNCHANGED <<mainVars, monitorVars, netVars, networkStarted, enetVars>>

-----------------------------------------------------------------------------
(* The main thread.                                                         *)

\* The monitor thread is created; what main does until the delay is over
\* (script engine, font, audio) touches nothing here.
StartNetworkStateThread ==
    /\ mainPC = "start"
    /\ setNewState("PRE_INIT")
    /\ mainPC' = "startup"
    /\ UNCHANGED <<monitorVars, netVars, networkStarted, enetVars, netQueue>>

\* what the delay is for
StackStarted == networkStarted \/ currentState = "INIT_ERROR"

\* SDL_Delay (500); setNewState (TRY_SERVER_CONNECT)
RequestConnection ==
    /\ mainPC = "startup"
    /\ StartupDelayEnough => StackStarted
    /\ setNewState("TRY_SERVER_CONNECT")
    /\ mainPC' = "loop"
    /\ UNCHANGED <<monitorVars, netVars, networkStarted, enetVars, netQueue>>

\* c_getNetworkEvents: getHostPointer ()->peers with no host is the process's end
ServiceWithoutHost ==
    /\ mainPC = "loop"
    /\ client = "none"
    /\ mainPC' = "crashed"
    /\ UNCHANGED <<monitorVars, netVars, stateVars, enetVars, netQueue>>

\* c_getNetworkEvents, when ENet reports what has become of the connection: it
\* is made, the attempt has timed out, or it is lost.  (The mutex of the queue,
\* which the network thread holds while it handles an event, only delays this.)
ServiceHost(from, to, event) ==
    /\ mainPC = "loop"
    /\ client = "created"
    /\ link = from
    /\ link' = to
    /\ netQueue' = Append(netQueue, event)
    /\ UNCHANGED <<mainVars, monitorVars, netVars, stateVars, client, hosts>>

Main == \/ StartNetworkStateThread
        \/ RequestConnection
        \/ ServiceWithoutHost
        \/ ServiceHost("connecting", "connected", "CONNECT")
        \/ ServiceHost("connecting", "disconnected", "DISCONNECT")
        \/ ServiceHost("connected", "disconnected", "DISCONNECT")

-----------------------------------------------------------------------------
(* The monitor thread: processNetworkState.                                 *)

\* switch (clientNetworkState.getCurrentState ())
ReadState ==
    /\ mainPC # "start"
    /\ MonitorAt("read")
    /\ saw' = currentState
    /\ monitorPC' = "act"
    /\ UNCHANGED <<mainVars, toSet, attemptCounter, netVars, stateVars,
                   enetVars, netQueue>>

PreInit == /\ Acts("PRE_INIT")
           /\ networkStarted' = FALSE
           /\ GoesToSet("DO_INIT")
           /\ UNCHANGED <<mainVars, saw, attemptCounter, netVars, currentState,
                          enetVars, netQueue>>

InitClientFails == /\ Acts("DO_INIT")
                   /\ GoesToSet("INIT_ERROR")
                   /\ UNCHANGED <<mainVars, saw, attemptCounter, netVars,
                                  stateVars, enetVars, netQueue>>

InitClient == /\ Acts("DO_INIT")
              /\ client' = "created"
              /\ hosts' = hosts + 1
              /\ link' = "disconnected"
              /\ GoesToSet("INIT_DONE")
              /\ UNCHANGED <<mainVars, saw, attemptCounter, netVars, stateVars,
                             netQueue>>

\* isNetworkStarted ()
TryServerConnect ==
    /\ Acts("TRY_SERVER_CONNECT")
    /\ \/ networkStarted /\ monitorPC' = "connect" /\ UNCHANGED toSet
       \/ ~networkStarted /\ GoesToSet("PRE_INIT")
    /\ UNCHANGED <<mainVars, saw, attemptCounter, netVars, stateVars, enetVars,
                   netQueue>>

\* enet_host_connect finds the one peer of the host unused, or returns null
ConnectToServer ==
    /\ MonitorAt("connect")
    /\ link' = IF link = "disconnected" THEN "connecting" ELSE link
    /\ GoesToSet(IF link = "disconnected" THEN "ATTEMPTING_CONNECT"
                                          ELSE "CONNECT_FAILED_ALERT")
    /\ UNCHANGED <<mainVars, saw, attemptCounter, netVars, stateVars, client,
                   hosts, netQueue>>

\* SDL_Delay (1000); attemptCounter++
Attempting ==
    /\ Acts("ATTEMPTING_CONNECT")
    /\ \/ /\ attemptCounter + 1 > MaxAttempts
          /\ attemptCounter' = 0
          /\ GoesToSet("CONNECT_FAILED_ALERT")
       \/ /\ attemptCounter + 1 <= MaxAttempts
          /\ attemptCounter' = attemptCounter + 1
          /\ monitorPC' = "read" /\ UNCHANGED toSet
    /\ UNCHANGED <<mainVars, saw, netVars, stateVars, enetVars, netQueue>>

FailedAlert == /\ Acts("CONNECT_FAILED_ALERT")
               /\ GoesToSet("CONNECT_FAILED")
               /\ UNCHANGED <<mainVars, saw, attemptCounter, netVars, stateVars,
                              enetVars, netQueue>>

ConnectSuccess == /\ Acts("CONNECT_SUCCESS")
                  /\ GoesToSet("CONNECTED")
                  /\ UNCHANGED <<mainVars, saw, attemptCounter, netVars,
                                 stateVars, enetVars, netQueue>>

\* the states in which the monitor does nothing
Resting == {"INIT_ERROR", "INIT_DONE", "CONNECT_FAILED", "CONNECTED"}

NothingToDo == /\ MonitorAt("act") /\ saw \in Resting
               /\ monitorPC' = "read"
               /\ UNCHANGED <<mainVars, saw, toSet, attemptCounter, netVars,
                              stateVars, enetVars, netQueue>>

\* the setNewState at the end of a case; INIT_DONE is followed by one more call
WriteState == /\ MonitorAt("set")
              /\ setNewState(toSet)
              /\ monitorPC' = IF toSet = "INIT_DONE" THEN "started" ELSE "read"
              /\ UNCHANGED <<mainVars, saw, toSet, attemptCounter, netVars,
                             networkStarted, enetVars, netQueue>>

\* setNetworkStarted (true)
SetStarted == /\ MonitorAt("started")
              /\ networkStarted' = TRUE
              /\ monitorPC' = "read"
              /\ UNCHANGED <<mainVars, saw, toSet, attemptCounter, netVars,
                             currentState, enetVars, netQueue>>

Monitor == \/ ReadState \/ PreInit \/ InitClientFails \/ InitClient
           \/ TryServerConnect \/ ConnectToServer \/ Attempting
           \/ FailedAlert \/ ConnectSuccess \/ NothingToDo
           \/ WriteState \/ SetStarted

-----------------------------------------------------------------------------
(* The network thread: processClientEventNetwork.                           *)

\* setConnectionComplete (true)
ConnectEvent == /\ NextEvent("CONNECT")
                /\ netQueue' = Tail(netQueue)
                /\ connectionComplete' = TRUE
                /\ netPC' = "connected"
                /\ UNCHANGED <<mainVars, monitorVars, initScriptEvents,
                               stateVars, enetVars>>

\* setNewState (CONNECT_SUCCESS), and the event that asks for the init script
ReportSuccess == /\ ~Crashed /\ netPC = "connected"
                 /\ setNewState("CONNECT_SUCCESS")
                 /\ initScriptEvents' = initScriptEvents + 1
                 /\ netPC' = "idle"
                 /\ UNCHANGED <<mainVars, monitorVars, connectionComplete,
                                networkStarted, enetVars, netQueue>>

\* the handler of DISCONNECT changes neither the state nor connectionComplete
DisconnectEvent == /\ NextEvent("DISCONNECT")
                   /\ netQueue' = Tail(netQueue)
                   /\ UNCHANGED <<mainVars, monitorVars, netVars, stateVars,
                                  enetVars>>

Network == ConnectEvent \/ ReportSuccess \/ DisconnectEvent

-----------------------------------------------------------------------------
Terminated == Crashed /\ UNCHANGED vars

Next == Main \/ Monitor \/ Network \/ Terminated

Spec == Init /\ [][Next]_vars

(* The three threads run for as long as the process does.  Nothing makes    *)
(* ENet report an event; the monitor's loop and the frame loop go on.       *)
Fairness == /\ WF_vars(Monitor)
            /\ WF_vars(Network)
            /\ WF_vars(StartNetworkStateThread \/ RequestConnection)

FairSpec == Spec /\ Fairness

-----------------------------------------------------------------------------
Events == {"CONNECT", "DISCONNECT"}

TypeOK == /\ currentState \in networkStates
          /\ networkStarted \in BOOLEAN /\ connectionComplete \in BOOLEAN
          /\ client \in {"none", "created"} /\ hosts \in Nat
          /\ link \in {"disconnected", "connecting", "connected"}
          /\ mainPC \in {"start", "startup", "loop", "crashed"}
          /\ monitorPC \in {"read", "act", "set", "started", "connect"}
          /\ saw \in networkStates /\ toSet \in networkStates
          /\ attemptCounter \in 0..MaxAttempts
          /\ netQueue \in Seq(Events)
          /\ netPC \in {"idle", "connected"} /\ initScriptEvents \in Nat

(* However the request of main and the monitor's own writes overtake each   *)
(* other, PRE_INIT and DO_INIT are not gone through again once there is a   *)
(* host: initClient would overwrite the pointer and leak the host.          *)
HostCreatedOnce == hosts <= 1

(* enet_host_connect is never called before there is a host, although main  *)
(* asks for the connection without knowing whether the library has started. *)
ConnectNeedsHost == monitorPC = "connect" => client = "created"

(* The client says CONNECTED only after ENet has said so.                   *)
ConnectedMeansComplete == currentState = "CONNECTED" => connectionComplete

(* No late write of another thread takes the client out of CONNECTED.       *)
ConnectedIsFinal ==
    [][currentState = "CONNECTED" => currentState' = "CONNECTED"]_vars

(* The monitor does not go round for ever: at last it comes to rest in a    *)
(* state in which it has nothing to do.                                     *)
Settles == <>[](currentState \in Resting \/ Crashed)

-----------------------------------------------------------------------------
(* What a comment of the source says and the program does not do.           *)

(* c_processNetworkState.cpp:10: the monitor acts on the state of the       *)
(* network.  Once the connection "is really complete" (client.cpp:74) the   *)
(* state comes to say so, or the connection is lost.                        *)
VerdictFollows ==
    connectionComplete ~> (currentState = "CONNECTED" \/ link = "disconnected" \/ Crashed)

-----------------------------------------------------------------------------
(* The inductive invariant.  The client makes at most one connection: the   *)
(* proof follows it from the request, which is made once, to CONNECTED.     *)

\* what the monitor will still make of what it has read
Acting(states)  == monitorPC = "act" /\ saw \in states
Setting(states) == monitorPC = "set" /\ toSet \in states

\* before the host is there, and the way from its creation to networkStarted
BeforeHost ==
    hosts = 0 => /\ client = "none"
                 /\ ~networkStarted
                 /\ ~Setting({"INIT_DONE"}) /\ monitorPC # "started"
                 /\ monitorPC # "connect"
AfterHost ==
    hosts # 0 => /\ hosts = 1 /\ client = "created"
                 /\ ~Acting({"PRE_INIT", "DO_INIT"})
                 /\ ~Setting({"PRE_INIT", "DO_INIT"})
                 /\ Setting({"INIT_DONE"}) \/ /\ currentState \notin {"PRE_INIT", "DO_INIT"}
                                              /\ monitorPC # "started" => networkStarted

\* no connection has been asked of ENet
Fresh == /\ link = "disconnected" /\ netQueue = << >>
         /\ netPC = "idle" /\ initScriptEvents = 0 /\ ~connectionComplete

\* the request is on its way from main to enet_host_connect, or still to be made
Requested == \/ currentState = "TRY_SERVER_CONNECT"
                /\ ~Setting({"ATTEMPTING_CONNECT", "CONNECT_FAILED_ALERT"})
             \/ Acting({"TRY_SERVER_CONNECT"})
             \/ monitorPC = "connect"
ToRequest == mainPC \in {"start", "startup"}

AskedOnce == /\ ToRequest \/ Requested => Fresh
             /\ ToRequest => ~Requested
             /\ ~Setting({"TRY_SERVER_CONNECT"})
             /\ mainPC = "start" => monitorPC = "read" /\ hosts = 0

\* the events of the one connection, and how far they have been handled
OneConnection ==
    /\ link = "connecting" => /\ netQueue = << >> /\ netPC = "idle"
                              /\ initScriptEvents = 0 /\ ~connectionComplete
    /\ \A i \in 1..Len(netQueue) : netQueue[i] = "CONNECT" =>
           i = 1 /\ netPC = "idle" /\ initScriptEvents = 0 /\ ~connectionComplete
    /\ netPC = "connected" => connectionComplete /\ initScriptEvents = 0
    /\ initScriptEvents # 0 => initScriptEvents = 1 /\ connectionComplete

\* CONNECT_SUCCESS and what follows from it come after the connection
Reported ==
    \/ currentState \in {"CONNECT_SUCCESS", "CONNECTED"}
    \/ Acting({"CONNECT_SUCCESS", "CONNECTED"})
    \/ Setting({"CONNECT_SUCCESS", "CONNECTED"})

AfterReport == /\ Reported => initScriptEvents = 1
               /\ currentState = "CONNECTED" =>
                      monitorPC = "read" \/ Acting({"CONNECTED"})

IInv == /\ TypeOK
        /\ BeforeHost
        /\ AfterHost
        /\ AskedOnce
        /\ OneConnection
        /\ AfterReport
=============================================================================
