------------------------- MODULE NetworkState_proof -------------------------
(***************************************************************************)
(* What TLC checks of NetworkState for five rounds of ATTEMPTING_CONNECT,  *)
(* proved for any number of them, and whether or not the delay in main is  *)
(* long enough.  IInv follows the one request from main through the        *)
(* monitor to ENet and back through the network thread: it is made before  *)
(* any connection exists (AskedOnce), gives rise to one CONNECT event      *)
(* (OneConnection), and CONNECTED is set only by what that event starts    *)
(* (AfterReport).                                                          *)
(***************************************************************************)
EXTENDS NetworkState, SequenceTheorems, TLAPS

\* What emplace does to the queue of events.
LEMMA AppendEvent ==
  ASSUME NEW q \in Seq(Events), NEW e \in Events
  PROVE  /\ Append(q, e) \in Seq(Events)
         /\ Len(q) \in Nat /\ Len(Append(q, e)) = Len(q) + 1
         /\ \A i \in 1..Len(q) : Append(q, e)[i] = q[i]
         /\ Append(q, e)[Len(q) + 1] = e
         /\ q = << >> => Len(q) = 0
BY AppendProperties

\* What front and pop do to it.
LEMMA TakeEvent ==
  ASSUME NEW q \in Seq(Events), q # << >>
  PROVE  /\ Tail(q) \in Seq(Events)
         /\ Head(q) = q[1]
         /\ Len(q) \in Nat /\ Len(q) > 0
         /\ Len(Tail(q)) = Len(q) - 1
         /\ \A i \in 1..Len(Tail(q)) : Tail(q)[i] = q[i + 1]
BY HeadTailProperties, EmptySeq

LEMMA InitIInv == Init => IInv
<1> SUFFICES ASSUME Init PROVE IInv
  OBVIOUS
<1> USE ConstantsAssumption DEF Init, networkStates, Events
<1>1. TypeOK
  <2>1. netQueue \in Seq(Events) /\ attemptCounter \in 0..MaxAttempts
    OBVIOUS
  <2> QED
    BY <2>1 DEF TypeOK
<1>2. BeforeHost /\ AfterHost
  BY DEF BeforeHost, AfterHost, Setting
<1>3. AskedOnce /\ OneConnection /\ AfterReport
  BY DEF AskedOnce, OneConnection, AfterReport, Fresh, Requested, ToRequest, Reported, Acting, Setting
<1> QED
  BY <1>1, <1>2, <1>3 DEF IInv

\* The main thread: the request, and what enet_host_service reports.
LEMMA MainIInv == IInv /\ Main => IInv'
<1> SUFFICES ASSUME IInv, Main PROVE IInv'
  OBVIOUS
<1> USE ConstantsAssumption
        DEF IInv, TypeOK, networkStates, Events, BeforeHost, AfterHost, AskedOnce,
            OneConnection, AfterReport, Fresh, Requested, ToRequest, Acting,
            Setting, Reported, mainVars, monitorVars, netVars, stateVars, enetVars, setNewState
<1>1. CASE StartNetworkStateThread
  BY <1>1 DEF StartNetworkStateThread
<1>2. CASE RequestConnection
  BY <1>2 DEF RequestConnection
<1>3. CASE ServiceWithoutHost
  BY <1>3 DEF ServiceWithoutHost
<1>4. CASE ServiceHost("connecting", "connected", "CONNECT")
  BY <1>4, AppendEvent DEF ServiceHost
<1>5. CASE ServiceHost("connecting", "disconnected", "DISCONNECT")
  BY <1>5, AppendEvent DEF ServiceHost
<1>6. CASE ServiceHost("connected", "disconnected", "DISCONNECT")
  BY <1>6, AppendEvent DEF ServiceHost
<1> QED
  BY <1>1, <1>2, <1>3, <1>4, <1>5, <1>6 DEF Main

\* The monitor thread.  enet_host_connect is called once, with the peer unused.
LEMMA MonitorIInv == IInv /\ Monitor => IInv'
<1> SUFFICES ASSUME IInv, Monitor PROVE IInv'
  OBVIOUS
<1> USE ConstantsAssumption
        DEF IInv, TypeOK, networkStates, Events, BeforeHost, AfterHost, AskedOnce,
            OneConnection, AfterReport, Fresh, Requested, ToRequest, Acting,
            Setting, Reported, mainVars, monitorVars, netVars, stateVars, enetVars, setNewState,
            MonitorAt, Acts, GoesToSet, Crashed
<1>1. CASE ReadState
  BY <1>1 DEF ReadState
<1>2. CASE PreInit
  BY <1>2 DEF PreInit
<1>3. CASE InitClientFails
  BY <1>3 DEF InitClientFails
<1>4. CASE InitClient
  BY <1>4 DEF InitClient
<1>5. CASE TryServerConnect
  BY <1>5 DEF TryServerConnect
<1>6. CASE ConnectToServer
  <2>1. Fresh /\ monitorPC = "connect"
    BY <1>6 DEF ConnectToServer
  <2>2. /\ link' = "connecting" /\ toSet' = "ATTEMPTING_CONNECT"
        /\ UNCHANGED <<netQueue, netVars>>
    BY <1>6, <2>1 DEF ConnectToServer
  <2>3. OneConnection'
    BY <2>1, <2>2
  <2>4. TypeOK' /\ BeforeHost' /\ AfterHost'
    BY <1>6, <2>2 DEF ConnectToServer
  <2>5. AskedOnce' /\ AfterReport'
    BY <1>6, <2>1, <2>2 DEF ConnectToServer
  <2> QED
    BY <2>3, <2>4, <2>5
<1>7. CASE Attempting
  BY <1>7 DEF Attempting
<1>8. CASE FailedAlert
  BY <1>8 DEF FailedAlert
<1>9. CASE ConnectSuccess
  BY <1>9 DEF ConnectSuccess
<1>10. CASE NothingToDo
  BY <1>10 DEF NothingToDo, Resting
<1>11. CASE WriteState
  BY <1>11 DEF WriteState
<1>12. CASE SetStarted
  BY <1>12 DEF SetStarted
<1> QED
  BY <1>1, <1>2, <1>3, <1>4, <1>5, <1>6, <1>7, <1>8, <1>9, <1>10, <1>11, <1>12 DEF Monitor

\* The network thread.  The CONNECT it takes is the only one there has been.
LEMMA NetworkIInv == IInv /\ Network => IInv'
<1> SUFFICES ASSUME IInv, Network PROVE IInv'
  OBVIOUS
<1> USE ConstantsAssumption
        DEF IInv, TypeOK, networkStates, Events, BeforeHost, AfterHost, AskedOnce,
            OneConnection, AfterReport, Fresh, Requested, ToRequest, Acting,
            Setting, Reported, mainVars, monitorVars, netVars, stateVars, enetVars, setNewState, Crashed
<1>1. CASE ConnectEvent
  BY <1>1, TakeEvent DEF ConnectEvent, NextEvent
<1>2. CASE ReportSuccess
  BY <1>2 DEF ReportSuccess
<1>3. CASE DisconnectEvent
  BY <1>3, TakeEvent DEF DisconnectEvent, NextEvent
<1> QED
  BY <1>1, <1>2, <1>3 DEF Network

LEMMA NextIInv == IInv /\ [Next]_vars => IInv'
<1> SUFFICES ASSUME IInv, [Next]_vars PROVE IInv'
  OBVIOUS
<1>1. CASE Main \/ Monitor \/ Network
  BY <1>1, MainIInv, MonitorIInv, NetworkIInv
<1>2. CASE Terminated \/ UNCHANGED vars
  <2> USE DEF vars, mainVars, monitorVars, netVars, stateVars, enetVars
  <2>1. UNCHANGED vars
    BY <1>2 DEF Terminated
  <2>2. TypeOK' /\ BeforeHost' /\ AfterHost'
    BY <2>1 DEF IInv, TypeOK, BeforeHost, AfterHost, Acting, Setting
  <2>3. AskedOnce' /\ OneConnection' /\ AfterReport'
    BY <2>1 DEF IInv, AskedOnce, OneConnection, AfterReport, Fresh, Requested, ToRequest,
                Reported, Acting, Setting
  <2> QED
    BY <2>2, <2>3 DEF IInv
<1> QED
  BY <1>1, <1>2 DEF Next

(* The invariant that the four theorems below rest on.                      *)
THEOREM Invariance == Spec => []IInv
<1>1. Init => IInv
  BY InitIInv
<1>2. IInv /\ [Next]_vars => IInv'
  BY NextIInv
<1> QED
  BY <1>1, <1>2, PTL DEF Spec

(* initClient succeeds at most once, so the host pointer that main services *)
(* every frame is never replaced under it (client.cpp initClient).          *)
THEOREM OneHost == Spec => []HostCreatedOnce
<1>1. IInv => HostCreatedOnce
  BY DEF IInv, TypeOK, BeforeHost, AfterHost, HostCreatedOnce
<1> QED
  BY <1>1, Invariance, PTL

(* connectToServer is never called before initClient has made the host.     *)
THEOREM NoConnectWithoutHost == Spec => []ConnectNeedsHost
<1>1. IInv => ConnectNeedsHost
  BY DEF IInv, TypeOK, BeforeHost, AfterHost, ConnectNeedsHost
<1> QED
  BY <1>1, Invariance, PTL

(* The client says CONNECTED only after the CONNECT event of ENet.          *)
THEOREM NoEarlyConnected == Spec => []ConnectedMeansComplete
<1>1. IInv => ConnectedMeansComplete
  BY DEF IInv, OneConnection, AfterReport, Reported, ConnectedMeansComplete
<1> QED
  BY <1>1, Invariance, PTL

(* No write of any of the three threads takes the client out of CONNECTED:  *)
(* main has made its only request, the monitor has nothing to do in that    *)
(* state, and no second CONNECT event can come.                             *)
THEOREM ConnectedStays == Spec => ConnectedIsFinal
<1>1. ASSUME IInv, [Next]_vars, currentState = "CONNECTED"
      PROVE  currentState' = "CONNECTED"
  <2> USE <1>1 DEF stateVars, setNewState
  <2>1. mainPC \notin {"start", "startup"} /\ netPC # "connected" /\ monitorPC # "set"
    BY DEF IInv, TypeOK, AskedOnce, Requested, ToRequest, Fresh, OneConnection, AfterReport,
           Reported, Acting
  <2>2. CASE Main
    BY <2>1, <2>2 DEF Main, StartNetworkStateThread, RequestConnection,
                      ServiceWithoutHost, ServiceHost
  <2>3. CASE Monitor
    BY <2>1, <2>3 DEF Monitor, ReadState, PreInit, InitClientFails, InitClient,
                      TryServerConnect, ConnectToServer, Attempting, FailedAlert,
                      ConnectSuccess, NothingToDo, WriteState, SetStarted, MonitorAt
  <2>4. CASE Network
    BY <2>1, <2>4 DEF Network, ConnectEvent, ReportSuccess, DisconnectEvent
  <2>5. CASE Terminated \/ UNCHANGED vars
    BY <2>5 DEF Terminated, vars
  <2> QED
    BY <2>2, <2>3, <2>4, <2>5 DEF Next
<1>2. IInv /\ [Next]_vars
        => [currentState = "CONNECTED" => currentState' = "CONNECTED"]_vars
  BY <1>1
<1> QED
  BY <1>2, Invariance, PTL DEF Spec, ConnectedIsFinal
=============================================================================
