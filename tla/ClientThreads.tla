--------------------------- MODULE ClientThreads ---------------------------
(***************************************************************************)
(* The threads of the client: how main registers their mutexes and starts  *)
(* them one after the other, what each of them locks while it works, and   *)
(* how main leaves them behind when the window is closed                   *)
(* (com_threadsEngine.cpp, main.cpp, c_shutdown.cpp and the places in the  *)
(* client that call lockMutex).                                            *)
(*                                                                         *)
(* Of the queues only the number of elements is kept: what travels in them *)
(* is the subject of ClientSession, what a torn access does to them that   *)
(* of EventQueue.                                                          *)
(***************************************************************************)
EXTENDS Naturals, Sequences

CONSTANT MaxEvents       \* network events received in a behaviour (a bound)

ASSUME MaxEventsAssumption == MaxEvents \in Nat

Workers == {"requests", "network", "monitor"}
Threads == Workers \cup {"main"}

\* The mutexes registered by name, and the one networkState keeps for itself.
Registrable == {"mainLoopMutex", "consoleMutex", "clientRequestsMutex",
                "eventClientNetworkMutex"}
Mutexes == Registrable \cup {"stateMutex"}
Nobody == "nobody"

\* The critical sections of the client, each with the mutex it locks.
MutexOf == [emplace |-> "eventClientNetworkMutex",   \* c_addNetworkEvent
            pop     |-> "eventClientNetworkMutex",   \* processClientEventNetwork
            take    |-> "mainLoopMutex",             \* c_processGameEventQueue
            push    |-> "mainLoopMutex",             \* c_addEventToQueue
            resend  |-> "clientRequestsMutex",       \* c_processRequestQueue
            remove  |-> "clientRequestsMutex",       \* c_removeRequest
            request |-> "clientRequestsMutex",       \* c_addRequestToQueue
            state   |-> "stateMutex"]                \* clientNetworkState

VARIABLES
  \* the threads engine
  registeredThreads,   \* the names of its elements
  moving,              \* main is inside push_back
  misled,              \* the threads whose last look fell into a push_back
  run, ready,          \* the two flags of each of them
  runThreads,          \* what stopThreads clears
  registeredMutexes,
  destroyed,           \* destroyMutexes has been called
  owner,               \* who holds a mutex
  \* main
  step,                \* how much of StartUp is done
  frame,               \* the part of processClientFrame main is in
  sentInitRequest,
  \* every thread
  at,                  \* where it is
  todo,                \* the critical sections it has still to pass through
  cached,              \* whether requestsMutex was found by the requests thread
  \* the queues
  received, networkEvents, gameEvents, requestQueue

engineVars == <<registeredThreads, moving, misled, run, ready, runThreads,
                registeredMutexes, destroyed>>
mainVars   == <<step, frame, sentInitRequest>>
queueVars  == <<received, networkEvents, gameEvents, requestQueue>>
vars == <<engineVars, mainVars, queueVars, owner, at, todo, cached>>

Init ==
  /\ registeredThreads = {} /\ moving = FALSE /\ misled = {}
  /\ run = [t \in Workers |-> FALSE]
  /\ ready = [t \in Workers |-> FALSE]
  /\ runThreads = TRUE
  /\ registeredMutexes = {}
  /\ destroyed = FALSE
  /\ owner = [m \in Mutexes |-> Nobody]
  /\ step = 1
  /\ frame = "service"
  /\ sentInitRequest = FALSE
  /\ at = [t \in Threads |-> IF t = "main" THEN "start" ELSE "unborn"]
  /\ todo = [t \in Threads |-> <<>>]
  /\ cached = FALSE
  /\ received = 0 /\ networkEvents = 0 /\ gameEvents = 0 /\ requestQueue = 0

\* The process has ended, and with it every thread.
Ended == at["main"] = "ended"

GoesTo(t, place) == at' = [at EXCEPT ![t] = place]

-----------------------------------------------------------------------------
(* Start-up: what main calls of the threads engine, in order.              *)

\* registerThread takes four of these steps: push_back begins and ends, the
\* thread is created, its ready flag is cleared.  Its caller sets the flags;
\* startNetworkStateThread sets only one.
StartUp == <<
  <<"registerMutex", "mainLoopMutex">>,
  <<"registerMutex", "consoleMutex">>,
  <<"registerMutex", "clientRequestsMutex">>,
  <<"push_back", "requests">>, <<"pushed", "requests">>, <<"create", "requests">>,
  <<"unready", "requests">>, <<"run", "requests">>, <<"ready", "requests">>,
  <<"registerMutex", "eventClientNetworkMutex">>,
  <<"push_back", "network">>, <<"pushed", "network">>, <<"create", "network">>,
  <<"unready", "network">>, <<"run", "network">>, <<"ready", "network">>,
  <<"push_back", "monitor">>, <<"pushed", "monitor">>, <<"create", "monitor">>,
  <<"unready", "monitor">>, <<"ready", "monitor">> >>

Starting(call) ==
  /\ at["main"] = "start"
  /\ step <= Len(StartUp)
  /\ StartUp[step][1] = call
  /\ step' = step + 1
  /\ UNCHANGED <<frame, sentInitRequest, queueVars, owner, todo, cached,
                 misled, runThreads, destroyed>>

Subject == StartUp[step][2]

\* The fourth mutex, added while the requests thread may look for its own, has
\* room behind the others: none of them moves.
RegisterMutex ==
  /\ Starting("registerMutex")
  /\ registeredMutexes' = registeredMutexes \cup {Subject}
  /\ UNCHANGED <<registeredThreads, moving, run, ready, at>>

\* push_back takes its time: the vector grows to a power of two, which with
\* three threads is each time, and its elements move.
BeginPushBack ==
  /\ Starting("push_back")
  /\ moving' = TRUE
  /\ UNCHANGED <<registeredThreads, run, ready, registeredMutexes, at>>

\* A faulty variant, not used by the specification: the flags are left to the caller.
PushBackNotRunning ==
  /\ Starting("pushed")
  /\ moving' = FALSE
  /\ registeredThreads' = registeredThreads \cup {Subject}
  /\ run' = [run EXCEPT ![Subject] = FALSE]
  /\ ready' = [ready EXCEPT ![Subject] = FALSE]
  /\ UNCHANGED <<registeredMutexes, at>>

\* The element is there, with both flags set, before the thread is.
PushBack ==
  /\ Starting("pushed")
  /\ moving' = FALSE
  /\ registeredThreads' = registeredThreads \cup {Subject}
  /\ run' = [run EXCEPT ![Subject] = TRUE]
  /\ ready' = [ready EXCEPT ![Subject] = TRUE]
  /\ UNCHANGED <<registeredMutexes, at>>

CreateThread ==
  /\ Starting("create")
  /\ GoesTo(Subject, "begin")
  /\ UNCHANGED <<registeredThreads, moving, run, ready, registeredMutexes>>

SetThreadRunState ==
  /\ Starting("run")
  /\ run' = [run EXCEPT ![Subject] = TRUE]
  /\ UNCHANGED <<registeredThreads, moving, ready, registeredMutexes, at>>

\* A faulty variant, not used by the specification: the other flag is set.
SetThreadReadyStateRuns ==
  /\ \/ Starting("ready") /\ run' = [run EXCEPT ![Subject] = TRUE] /\ UNCHANGED ready
     \/ Starting("unready") /\ ready' = [ready EXCEPT ![Subject] = FALSE] /\ UNCHANGED run
  /\ UNCHANGED <<registeredThreads, moving, registeredMutexes, at>>

SetThreadReadyState ==
  /\ \/ Starting("ready") /\ ready' = [ready EXCEPT ![Subject] = TRUE]
     \/ Starting("unready") /\ ready' = [ready EXCEPT ![Subject] = FALSE]
  /\ UNCHANGED <<registeredThreads, moving, run, registeredMutexes, at>>

\* SDL creates no mutex or thread, or a part of the client that is started
\* after the threads does not start: main returns -1.
StartFails ==
  /\ at["main"] = "start"
  /\ step <= Len(StartUp) => StartUp[step][1] \in {"registerMutex", "create"}
  /\ GoesTo("main", "ended")
  /\ UNCHANGED <<engineVars, mainVars, queueVars, owner, todo, cached>>

\* The last thing before the loop is to ask for a connection.
StartDone ==
  /\ at["main"] = "start"
  /\ step > Len(StartUp)
  /\ GoesTo("main", "work")
  /\ todo' = [todo EXCEPT !["main"] = <<"state">>]
  /\ UNCHANGED <<engineVars, mainVars, queueVars, owner, cached>>

-----------------------------------------------------------------------------
(* The frame of main, as far as it calls what locks.                       *)

InFrame(part) ==
  /\ at["main"] = "work"
  /\ todo["main"] = <<>>
  /\ frame = part
  /\ UNCHANGED <<engineVars, step, owner, cached,
                 networkEvents, gameEvents, requestQueue>>

\* c_getNetworkEvents: enet_host_service reports an event.
Receive ==
  /\ InFrame("service")
  /\ received < MaxEvents
  /\ received' = received + 1
  /\ todo' = [todo EXCEPT !["main"] = <<"emplace">>]
  /\ UNCHANGED <<frame, sentInitRequest, at>>

\* A faulty variant, not used by the specification: the queue may be empty.
ProcessGameEventQueueUntested ==
  /\ InFrame("service")
  /\ frame' = "mode"
  /\ todo' = [todo EXCEPT !["main"] = <<"take">>]
  /\ UNCHANGED <<sentInitRequest, received, at>>

\* enet_host_service has no more events: c_processGameEventQueue is next.
ProcessGameEventQueue ==
  /\ InFrame("service")
  /\ frame' = "mode"
  /\ todo' = [todo EXCEPT !["main"] = IF gameEvents > 0 THEN <<"take">> ELSE <<>>]
  /\ UNCHANGED <<sentInitRequest, received, at>>

\* The mode may be the one in which the init script is asked for, once.
ModeSwitch ==
  /\ InFrame("mode")
  /\ frame' = "service"
  /\ \/ UNCHANGED <<sentInitRequest, todo>>
     \/ /\ ~sentInitRequest
        /\ sentInitRequest' = TRUE
        /\ todo' = [todo EXCEPT !["main"] = <<"request">>]
  /\ UNCHANGED <<received, at>>

\* The window has been closed in one of the last MAX_FRAMESKIP frames, and main
\* looks at quitLoop.
LeaveLoop ==
  /\ InFrame("service")
  /\ GoesTo("main", "shutdown")
  /\ UNCHANGED <<frame, sentInitRequest, received, todo>>

-----------------------------------------------------------------------------
(* Shutdown: nobody waits for the threads, which go on until main returns. *)

\* stopThreads clears a flag that nobody reads.  destroyMutexes leaves the
\* entries; what they point to is gone.
Shutdown ==
  /\ at["main"] = "shutdown"
  /\ runThreads' = FALSE
  /\ destroyed' = TRUE
  /\ GoesTo("main", "return")
  /\ UNCHANGED <<registeredThreads, moving, misled, run, ready, registeredMutexes, mainVars,
                 queueVars, owner, todo, cached>>

Return ==
  /\ at["main"] = "return"
  /\ GoesTo("main", "ended")
  /\ UNCHANGED <<engineVars, mainVars, queueVars, owner, todo, cached>>

-----------------------------------------------------------------------------
(* The loop of each of the other threads.                                  *)

Worker(t, place) ==
  /\ ~Ended
  /\ at[t] = place
  /\ todo[t] = <<>>
  /\ UNCHANGED <<registeredThreads, moving, run, ready, runThreads, registeredMutexes,
                 destroyed, mainVars, queueVars, owner>>

\* A faulty variant, not used by the specification: it looks for the mutex of another thread.
BeginWrongMutex(t) ==
  /\ Worker(t, "begin")
  /\ cached' = IF t = "requests" THEN "eventClientNetworkMutex" \in registeredMutexes
               ELSE cached
  /\ GoesTo(t, "work")
  /\ UNCHANGED <<misled, todo>>

\* Before its loop a thread looks for its mutex, once; only the requests
\* thread locks what it has found then.
Begin(t) ==
  /\ Worker(t, "begin")
  /\ cached' = IF t = "requests" THEN "clientRequestsMutex" \in registeredMutexes ELSE cached
  /\ GoesTo(t, "work")
  /\ UNCHANGED <<misled, todo>>

\* canThreadRun and isThreadReady go through registeredThreads with no mutex:
\* they return the flag, FALSE if the name is not there.  Of elements that are
\* being moved away either is returned: in a debug build their names are empty,
\* in a release build the flag is whatever has been written there.
Finds(t, flag) ==
  IF moving THEN BOOLEAN
  ELSE {(t \in registeredThreads) /\ flag[t]}

\* Both are asked in turn at the head of the loop.
CanThreadRun(t) ==
  /\ Worker(t, "work")
  /\ misled' = IF moving THEN misled \cup {t} ELSE misled \ {t}
  /\ \E goesOn \in Finds(t, run), isReady \in Finds(t, ready) :
       GoesTo(t, CASE ~goesOn -> "left" [] goesOn /\ isReady -> "delay" [] OTHER -> "work")
  /\ UNCHANGED <<todo, cached>>

\* The critical sections a thread passes through, once it has slept.  The
\* monitor reads the state and may set another, and networkStarted.
Wakes(t) ==
  CASE t = "requests" -> {IF requestQueue > 0 THEN <<"resend">> ELSE <<>>}
    [] t = "network"  -> {IF networkEvents > 0 THEN <<"pop">> ELSE <<>>}
    [] t = "monitor"  -> {<<"state">>, <<"state", "state">>}

Wake(t) ==
  /\ Worker(t, "delay")
  /\ \E sections \in Wakes(t) : todo' = [todo EXCEPT ![t] = sections]
  /\ GoesTo(t, "work")
  /\ UNCHANGED <<misled, cached>>

-----------------------------------------------------------------------------
(* Critical sections.                                                      *)

Waits(t) == at[t] = "work" /\ todo[t] # <<>> /\ Head(todo[t]) # "unlock"

Wanted(t) == MutexOf[Head(todo[t])]

\* By its name, or by the pointer kept since the thread began.  What the code
\* does without its mutex (the network thread ends the process, the others leave
\* the section out) is not modelled: LocksSucceed says that it does not happen.
FindMutex(t) ==
  \/ Wanted(t) = "stateMutex"
  \/ IF Head(todo[t]) = "resend" THEN cached ELSE Wanted(t) \in registeredMutexes

\* SDL's mutexes may be locked again by who has locked them.
LockMutex(t) ==
  /\ ~Ended /\ Waits(t) /\ FindMutex(t)
  /\ owner[Wanted(t)] \in {Nobody, t}
  /\ owner' = [owner EXCEPT ![Wanted(t)] = t]
  /\ GoesTo(t, "inside")
  /\ UNCHANGED <<engineVars, mainVars, queueVars, todo, cached>>

\* A mutex that has been destroyed may also never be granted.
LockDestroyed(t) ==
  /\ ~Ended /\ Waits(t) /\ FindMutex(t)
  /\ destroyed /\ Wanted(t) \in Registrable
  /\ GoesTo(t, "hangs")
  /\ UNCHANGED <<engineVars, mainVars, queueVars, owner, todo, cached>>

\* What the network thread locks to handle an event, its own mutex held: a
\* connection is reported to the state and to main; a script ends a request
\* and, if it is damaged, begins another; a script or an image is something
\* for main to do; an ID or the end of a connection takes no mutex.
Handling == {<<"state", "push", "unlock">>, <<"remove", "push", "unlock">>,
             <<"remove", "request", "unlock">>, <<"push", "unlock">>, <<"unlock">>}

\* An event taken from gameEventQueue may be one to postpone.
Postponing == {<<"push">>, <<>>}

Inside(t, section) ==
  /\ ~Ended
  /\ at[t] = "inside" /\ Head(todo[t]) = section
  /\ GoesTo(t, "work")
  /\ UNCHANGED <<engineVars, mainVars, received, cached>>

Unlock(t) == owner' = [owner EXCEPT ![Wanted(t)] = Nobody]

Passes(t) == Unlock(t) /\ todo' = [todo EXCEPT ![t] = Tail(@)]

\* c_removeRequest erases every second of the requests with its name.
QueueSections(t) ==
  \/ /\ Inside(t, "emplace") /\ Passes(t)
     /\ networkEvents' = networkEvents + 1
     /\ UNCHANGED <<gameEvents, requestQueue>>
  \/ /\ Inside(t, "push") /\ Passes(t)
     /\ gameEvents' = gameEvents + 1
     /\ UNCHANGED <<networkEvents, requestQueue>>
  \/ /\ Inside(t, "remove") /\ Passes(t)
     /\ requestQueue' = requestQueue \div 2
     /\ UNCHANGED <<networkEvents, gameEvents>>
  \/ /\ Inside(t, "request") /\ Passes(t)
     /\ requestQueue' = requestQueue + 1
     /\ UNCHANGED <<networkEvents, gameEvents>>
  \/ /\ Inside(t, "resend") \/ Inside(t, "state")
     /\ Passes(t)
     /\ UNCHANGED <<networkEvents, gameEvents, requestQueue>>

\* A faulty variant, not used by the specification: the mutex stays locked.
TakeGameEventLocked ==
  /\ Inside("main", "take")
  /\ gameEvents' = gameEvents - 1
  /\ \E sections \in Postponing : todo' = [todo EXCEPT !["main"] = sections]
  /\ UNCHANGED <<owner, networkEvents, requestQueue>>

TakeGameEvent ==
  /\ Inside("main", "take")
  /\ Unlock("main")
  /\ gameEvents' = gameEvents - 1
  /\ \E sections \in Postponing : todo' = [todo EXCEPT !["main"] = sections]
  /\ UNCHANGED <<networkEvents, requestQueue>>

\* The network thread keeps the mutex until it has handled the event.
PopNetworkEvent ==
  /\ Inside("network", "pop")
  /\ networkEvents' = networkEvents - 1
  /\ \E sections \in Handling : todo' = [todo EXCEPT !["network"] = sections]
  /\ UNCHANGED <<owner, gameEvents, requestQueue>>

UnlockNetwork ==
  /\ ~Ended
  /\ at["network"] = "work" /\ todo["network"] = <<"unlock">>
  /\ owner' = [owner EXCEPT !["eventClientNetworkMutex"] = Nobody]
  /\ todo' = [todo EXCEPT !["network"] = <<>>]
  /\ UNCHANGED <<engineVars, mainVars, queueVars, at, cached>>

-----------------------------------------------------------------------------
Locking(t) == LockDestroyed(t) \/ QueueSections(t)

Main ==
  \/ RegisterMutex \/ BeginPushBack \/ PushBack \/ CreateThread \/ SetThreadRunState
  \/ SetThreadReadyState \/ StartDone
  \/ Receive \/ ProcessGameEventQueue \/ ModeSwitch
  \/ Shutdown \/ Return
  \/ TakeGameEvent \/ Locking("main")

Loop(t) ==
  \/ Begin(t) \/ CanThreadRun(t) \/ Wake(t) \/ Locking(t)

Network == Loop("network") \/ PopNetworkEvent \/ UnlockNetwork

Next ==
  \/ Main \/ StartFails \/ LeaveLoop
  \/ Loop("requests") \/ Network \/ Loop("monitor")
  \/ \E t \in Threads : LockMutex(t)

\* Every thread goes on.  A mutex that is free again and again is granted in
\* the end: between two sections of one kind each thread sleeps, and main
\* draws a frame.
Fairness ==
  /\ WF_vars(Main)
  /\ WF_vars(Loop("requests")) /\ WF_vars(Network) /\ WF_vars(Loop("monitor"))
  /\ \A t \in Threads : SF_vars(LockMutex(t))

Spec == Init /\ [][Next]_vars /\ Fairness

-----------------------------------------------------------------------------
\* What may be left to do while an event is handled, and of each thread's todo.
Remaining == Handling \cup {<<"request", "unlock">>}

Todo == [main     |-> {<<>>, <<"state">>, <<"emplace">>, <<"take">>, <<"push">>, <<"request">>},
         requests |-> {<<>>, <<"resend">>},
         network  |-> {<<>>, <<"pop">>} \cup Remaining,
         monitor  |-> {<<>>, <<"state">>, <<"state", "state">>}]

TypeOK ==
  /\ registeredThreads \subseteq Workers
  /\ moving \in BOOLEAN /\ misled \subseteq Workers
  /\ run \in [Workers -> BOOLEAN] /\ ready \in [Workers -> BOOLEAN]
  /\ runThreads \in BOOLEAN /\ destroyed \in BOOLEAN
  /\ registeredMutexes \subseteq Registrable
  /\ owner \in [Mutexes -> Threads \cup {Nobody}]
  /\ step \in 1 .. Len(StartUp) + 1
  /\ frame \in {"service", "mode"}
  /\ sentInitRequest \in BOOLEAN
  /\ at \in [Threads -> {"start", "work", "inside", "hangs", "shutdown", "return",
                         "ended", "unborn", "begin", "delay", "left"}]
  /\ DOMAIN todo = Threads /\ \A t \in Threads : todo[t] \in Todo[t]
  /\ cached \in BOOLEAN
  /\ received \in 0..MaxEvents
  /\ networkEvents \in Nat /\ gameEvents \in Nat /\ requestQueue \in Nat

\* No thread calls lockMutex in vain: the mutexes are registered, and the
\* requests thread has found its own, before anybody locks them
\* (c_requests.cpp:29, c_network.cpp:46 and the order of calls in main.cpp).
LocksSucceed == \A t \in Threads : Waits(t) => FindMutex(t)

\* Nobody asks a thread to stop (stopThreads does not reach canThreadRun), so
\* a thread that has left its loop has been misled: registerThread moved
\* registeredThreads while it was looking (com_threadsEngine.cpp:59 and 148).
LeavesOnlyMisled == \A t \in Workers : at[t] = "left" => t \in misled

\* The network thread locks other mutexes while it holds its own
\* (c_network.cpp:62).  Still there is no deadlock and no lock that is never
\* given back: who has the mutex another thread waits for is inside the critical
\* section, or it is the network thread handling an event, and what that thread
\* may wait for in turn is held by one that is inside.
Blocked(t) == Waits(t) /\ owner[Wanted(t)] \notin {Nobody, t}

Handles(t) == t = "network" /\ todo[t] # <<>>

NoDeadlock ==
  \A t \in Threads : Blocked(t) =>
    LET u == owner[Wanted(t)]
    IN  IF Blocked(u) THEN Handles(u) /\ at[owner[Wanted(u)]] = "inside"
        ELSE Handles(u) \/ at[u] = "inside"

-----------------------------------------------------------------------------
(* The inductive invariant behind them.                                    *)

\* What has been registered and created when main has come to a step.
StartedInOrder ==
  /\ step > 1 => "mainLoopMutex" \in registeredMutexes
  /\ step > 2 => "consoleMutex" \in registeredMutexes
  /\ step > 3 => "clientRequestsMutex" \in registeredMutexes
  /\ step > 10 => "eventClientNetworkMutex" \in registeredMutexes
  /\ step > 5 => "requests" \in registeredThreads
  /\ step > 12 => "network" \in registeredThreads
  /\ step > 18 => "monitor" \in registeredThreads
  /\ at["requests"] # "unborn" => step > 6
  /\ at["network"] # "unborn" => step > 13
  /\ at["monitor"] # "unborn" => step > 19
  /\ \A t \in registeredThreads : run[t]

\* The queues are empty, and nobody locks what is registered, before the loop.
QuietBefore ==
  /\ at["main"] \notin {"start", "ended"} => step > Len(StartUp)
  /\ (at["main"] = "start" \/ step <= Len(StartUp)) =>
       /\ \A t \in Threads \ {"monitor"} : todo[t] = <<>>
       /\ networkEvents = 0 /\ requestQueue = 0

FoundBefore == at["requests"] \notin {"unborn", "begin"} => cached

\* A section that takes something is begun only when there is something.
SomethingToTake ==
  /\ todo["main"] = <<"take">> => gameEvents > 0
  /\ todo["network"] = <<"pop">> => networkEvents > 0

TodoWhereNeeded ==
  \A t \in Threads :
    /\ at[t] \notin {"work", "inside", "hangs"} => todo[t] = <<>>
    /\ at[t] = "inside" => todo[t] \notin {<<>>, <<"unlock">>}

\* Who has a mutex is inside its critical section, or handles an event.
OwnersInside ==
  \A m \in Mutexes : owner[m] # Nobody =>
    \/ at[owner[m]] = "inside" /\ Wanted(owner[m]) = m
    \/ /\ m = "eventClientNetworkMutex" /\ owner[m] = "network"
       /\ todo["network"] \in Remaining

IInv == /\ TypeOK /\ StartedInOrder /\ QuietBefore /\ FoundBefore
        /\ SomethingToTake /\ TodoWhereNeeded /\ OwnersInside
        /\ LeavesOnlyMisled

-----------------------------------------------------------------------------
\* A thread that has been created works, again and again: it is not left
\* waiting for its ready flag, which registerThread sets, clears and leaves to
\* its caller (com_threadsEngine.cpp:144 and 155), nor for a mutex.
KeepsWorking ==
  \A t \in Workers : []<>(at[t] \in {"delay", "left"} \/ Ended)
=============================================================================
