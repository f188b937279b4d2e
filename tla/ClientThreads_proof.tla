------------------------ MODULE ClientThreads_proof ------------------------
(***************************************************************************)
(* Proofs about the threads of the client: no lock is asked for in vain,   *)
(* none of them is held by a thread that waits for another, and a thread   *)
(* leaves its loop only when it has been misled.                           *)
(***************************************************************************)
EXTENDS ClientThreads, TLAPS

(* What main calls at which step. *)

LEMMA StartUpLen == Len(StartUp) = 21
BY DEF StartUp

LEMMA Calls ==
  ASSUME NEW i \in 1 .. 21
  PROVE  /\ StartUp[i][1] = "registerMutex" =>
              \/ i = 1 /\ StartUp[i][2] = "mainLoopMutex"
              \/ i = 2 /\ StartUp[i][2] = "consoleMutex"
              \/ i = 3 /\ StartUp[i][2] = "clientRequestsMutex"
              \/ i = 10 /\ StartUp[i][2] = "eventClientNetworkMutex"
         /\ StartUp[i][1] = "push_back" => i \in {4, 11, 17}
         /\ StartUp[i][1] = "pushed" =>
              \/ i = 5 /\ StartUp[i][2] = "requests"
              \/ i = 12 /\ StartUp[i][2] = "network"
              \/ i = 18 /\ StartUp[i][2] = "monitor"
         /\ StartUp[i][1] = "create" =>
              \/ i = 6 /\ StartUp[i][2] = "requests"
              \/ i = 13 /\ StartUp[i][2] = "network"
              \/ i = 19 /\ StartUp[i][2] = "monitor"
         /\ StartUp[i][1] \in {"unready", "run", "ready"} =>
              /\ i \in {7, 8, 9, 14, 15, 16, 20, 21}
              /\ StartUp[i][2] \in Workers
BY DEF StartUp, Workers

(* The sequences of critical sections. *)

LEMMA One == \A x : Head(<<x>>) = x /\ Tail(<<x>>) = <<>> /\ <<x>> # <<>>
OBVIOUS

LEMMA Two == \A x, y : /\ Head(<<x, y>>) = x /\ Tail(<<x, y>>) = <<y>>
                       /\ <<x, y>> # <<>>
OBVIOUS

LEMMA Three == \A x, y, z : /\ Head(<<x, y, z>>) = x /\ Tail(<<x, y, z>>) = <<y, z>>
                            /\ <<x, y, z>> # <<>>
OBVIOUS

LEMMA Lengths == \A x, y, z, u : <<x, y>> # <<u>> /\ <<x, y, z>> # <<u>>
OBVIOUS

LEMMA Different == \A x, y : <<x>> = <<y>> => x = y
OBVIOUS

LEMMA RemainingFacts ==
  ASSUME NEW s \in Remaining
  PROVE  /\ s # <<>> /\ s # <<"pop">>
         /\ Head(s) \in {"state", "remove", "push", "request", "unlock"}
         /\ Head(s) = "unlock" => s = <<"unlock">>
         /\ s # <<"unlock">> => Tail(s) \in Remaining
<1>1. CASE s = <<"unlock">> BY <1>1, One
<1>2. CASE \E x \in {"push", "request"} : s = <<x, "unlock">>
  <2>1. PICK x \in {"push", "request"} : s = <<x, "unlock">> BY <1>2
  <2>2. Tail(s) \in Remaining BY <2>1, Two DEF Remaining, Handling
  <2>3. s # <<>> /\ s # <<"pop">> /\ Head(s) = x BY <2>1, Two, Lengths
  <2> QED BY <2>1, <2>2, <2>3
<1>3. CASE \E x \in {"state", "remove"}, y \in {"push", "request"} : s = <<x, y, "unlock">>
  <2>1. PICK x \in {"state", "remove"}, y \in {"push", "request"} : s = <<x, y, "unlock">>
    BY <1>3
  <2>2. Tail(s) \in Remaining
    <3>1. Tail(s) = <<y, "unlock">> BY <2>1, Three
    <3> QED BY <3>1 DEF Remaining, Handling
  <2>3. s # <<>> /\ s # <<"pop">> /\ Head(s) = x BY <2>1, Three, Lengths
  <2> QED BY <2>1, <2>2, <2>3
<1> QED BY <1>1, <1>2, <1>3 DEF Remaining, Handling

\* What each thread may be about to enter, and what is left when it has.
LEMMA NextSection ==
  ASSUME TypeOK, NEW t \in Threads, todo[t] # <<>>, Head(todo[t]) # "unlock"
  PROVE  /\ t = "main" => /\ Head(todo[t]) \in {"state", "emplace", "take", "push", "request"}
                          /\ todo[t] = <<Head(todo[t])>> /\ Tail(todo[t]) = <<>>
         /\ t = "requests" => /\ Head(todo[t]) = "resend" /\ Tail(todo[t]) = <<>>
         /\ t = "monitor" => /\ Head(todo[t]) = "state"
                             /\ Tail(todo[t]) \in {<<>>, <<"state">>}
         /\ t = "network" => \/ todo[t] = <<"pop">> /\ Head(todo[t]) = "pop"
                             \/ /\ todo[t] \in Remaining /\ Tail(todo[t]) \in Remaining
                                /\ Head(todo[t]) \in {"state", "remove", "push", "request"}
         /\ Head(todo[t]) \in DOMAIN MutexOf
         /\ Wanted(t) \in Mutexes
         /\ Head(todo[t]) \notin {"emplace", "pop"} => Wanted(t) # "eventClientNetworkMutex"
<1>1. todo[t] \in Todo[t] BY DEF TypeOK
<1>2. CASE t = "main"
  <2>1. PICK x \in {"state", "emplace", "take", "push", "request"} : todo[t] = <<x>>
    BY <1>1, <1>2 DEF Todo
  <2>2. Head(todo[t]) = x /\ Tail(todo[t]) = <<>> BY <2>1, One
  <2> QED BY <1>2, <2>1, <2>2 DEF Wanted, MutexOf, Mutexes, Registrable
<1>3. CASE t = "requests"
  <2>1. todo[t] = <<"resend">> BY <1>1, <1>3 DEF Todo
  <2>2. Head(todo[t]) = "resend" /\ Tail(todo[t]) = <<>> BY <2>1, One
  <2> QED BY <1>3, <2>2 DEF Wanted, MutexOf, Mutexes, Registrable
<1>4. CASE t = "monitor"
  <2>1. todo[t] \in {<<"state">>, <<"state", "state">>} BY <1>1, <1>4 DEF Todo
  <2>2. Head(todo[t]) = "state" /\ Tail(todo[t]) \in {<<>>, <<"state">>} BY <2>1, One, Two
  <2> QED BY <1>4, <2>2 DEF Wanted, MutexOf, Mutexes, Registrable
<1>5. CASE t = "network"
  <2>1. CASE todo[t] = <<"pop">>
    BY <1>5, <2>1, One DEF Wanted, MutexOf, Mutexes, Registrable
  <2>2. CASE todo[t] \in Remaining
    <3>1. todo[t] # <<"unlock">> BY One
    <3>2. Head(todo[t]) \in {"state", "remove", "push", "request"} /\ Tail(todo[t]) \in Remaining
      BY <2>2, <3>1, RemainingFacts
    <3> QED BY <1>5, <2>2, <3>2 DEF Wanted, MutexOf, Mutexes, Registrable
  <2> QED BY <1>1, <1>5, <2>1, <2>2 DEF Todo
<1> QED BY <1>2, <1>3, <1>4, <1>5 DEF Threads, Workers

-----------------------------------------------------------------------------
(* The invariant holds at the beginning and is kept by each action. *)

LEMMA InitInv == Init => IInv
<1> SUFFICES ASSUME Init PROVE IInv OBVIOUS
<1>1. TypeOK
  <2>1. \A t \in Threads : todo[t] \in Todo[t]
    BY DEF Init, Todo, Threads, Workers
  <2>2. received \in 0 .. MaxEvents BY MaxEventsAssumption DEF Init
  <2>3. step \in 1 .. Len(StartUp) + 1 BY StartUpLen DEF Init
  <2>4. /\ at \in [Threads -> {"start", "unborn"}]
        /\ owner \in [Mutexes -> {Nobody}]
    BY DEF Init
  <2>5. /\ run \in [Workers -> BOOLEAN] /\ ready \in [Workers -> BOOLEAN]
        /\ DOMAIN todo = Threads
    BY DEF Init
  <2> QED BY <2>1, <2>2, <2>3, <2>4, <2>5
       DEF Init, TypeOK
<1>2. StartedInOrder BY DEF Init, StartedInOrder, Threads, Workers
<1>3. QuietBefore BY DEF Init, QuietBefore, Threads
<1>4. FoundBefore /\ LeavesOnlyMisled
  BY DEF Init, FoundBefore, LeavesOnlyMisled, Threads, Workers
<1>5. SomethingToTake BY One DEF Init, SomethingToTake, Threads, Workers
<1>6. TodoWhereNeeded BY DEF Init, TodoWhereNeeded, Threads
<1>7. OwnersInside BY DEF Init, OwnersInside, Mutexes
<1> QED BY <1>1, <1>2, <1>3, <1>4, <1>5, <1>6, <1>7 DEF IInv

\* Main's calls at the start change what is registered and no queue or mutex.
StartUpAction ==
  \/ RegisterMutex \/ BeginPushBack \/ PushBack \/ CreateThread
  \/ SetThreadRunState \/ SetThreadReadyState

LEMMA StartingFacts ==
  ASSUME TypeOK, NEW call, Starting(call)
  PROVE  /\ step \in 1 .. 21 /\ step' = step + 1 /\ StartUp[step][1] = call
         /\ at["main"] = "start"
         /\ UNCHANGED <<frame, sentInitRequest, queueVars, owner, todo, cached, misled,
                        runThreads, destroyed>>
BY StartUpLen DEF Starting, TypeOK

LEMMA StartUpTypes ==
  ASSUME IInv, StartUpAction
  PROVE  TypeOK'
<1>1. TypeOK BY DEF IInv
<1>2. PICK call : Starting(call)
  BY DEF StartUpAction, RegisterMutex, BeginPushBack, PushBack, CreateThread,
         SetThreadRunState, SetThreadReadyState
<1>3. /\ step \in 1 .. 21 /\ step' = step + 1
      /\ UNCHANGED <<frame, sentInitRequest, queueVars, owner, todo, cached, misled,
                     runThreads, destroyed>>
  BY <1>1, <1>2, StartingFacts
<1>4. /\ registeredThreads' \subseteq Workers /\ moving' \in BOOLEAN
      /\ registeredMutexes' \subseteq Registrable
      /\ run' \in [Workers -> BOOLEAN] /\ ready' \in [Workers -> BOOLEAN]
  <2>1. CASE RegisterMutex
    BY <1>1, <1>3, <2>1, StartingFacts, Calls
       DEF RegisterMutex, TypeOK, Subject, Registrable
  <2>2. CASE BeginPushBack \/ CreateThread
    BY <1>1, <2>2 DEF BeginPushBack, CreateThread, TypeOK
  <2>3. CASE PushBack
    BY <1>1, <1>3, <2>3, StartingFacts, Calls DEF PushBack, TypeOK, Subject, Workers
  <2>4. CASE SetThreadRunState
    BY <1>1, <2>4 DEF SetThreadRunState, TypeOK
  <2>5. CASE SetThreadReadyState
    BY <1>1, <2>5 DEF SetThreadReadyState, TypeOK
  <2> QED BY <2>1, <2>2, <2>3, <2>4, <2>5 DEF StartUpAction
<1>5. at' \in [Threads -> {"start", "work", "inside", "hangs", "shutdown", "return",
                          "ended", "unborn", "begin", "delay", "left"}]
  BY <1>1 DEF StartUpAction, RegisterMutex, BeginPushBack, PushBack, CreateThread,
         SetThreadRunState, SetThreadReadyState, GoesTo, TypeOK
<1> QED BY <1>1, <1>3, <1>4, <1>5, StartUpLen DEF TypeOK, queueVars

LEMMA StartUpOrder ==
  ASSUME IInv, StartUpAction
  PROVE  StartedInOrder'
<1>1. TypeOK /\ StartedInOrder BY DEF IInv
<1>2. CASE RegisterMutex
  <2>1. /\ step \in 1 .. 21 /\ step' = step + 1 /\ StartUp[step][1] = "registerMutex"
    BY <1>1, <1>2, StartingFacts DEF RegisterMutex
  <2>2. registeredMutexes' = registeredMutexes \cup {StartUp[step][2]}
        /\ UNCHANGED <<registeredThreads, run, at>>
    BY <1>2 DEF RegisterMutex, Subject
  <2> QED BY <1>1, <2>1, <2>2, Calls DEF StartedInOrder
<1>3. CASE BeginPushBack
  <2>1. /\ step \in 1 .. 21 /\ step' = step + 1 /\ StartUp[step][1] = "push_back"
    BY <1>1, <1>3, StartingFacts DEF BeginPushBack
  <2>2. UNCHANGED <<registeredMutexes, registeredThreads, run, at>>
    BY <1>3 DEF BeginPushBack
  <2> QED BY <1>1, <2>1, <2>2, Calls DEF StartedInOrder
<1>4. CASE PushBack
  <2>1. /\ step \in 1 .. 21 /\ step' = step + 1 /\ StartUp[step][1] = "pushed"
    BY <1>1, <1>4, StartingFacts DEF PushBack
  <2>2. /\ registeredThreads' = registeredThreads \cup {StartUp[step][2]}
        /\ run' = [run EXCEPT ![StartUp[step][2]] = TRUE]
        /\ UNCHANGED <<registeredMutexes, at>>
    BY <1>4 DEF PushBack, Subject
  <2>3. run \in [Workers -> BOOLEAN] /\ registeredThreads \subseteq Workers
    BY <1>1 DEF TypeOK
  <2>4. StartUp[step][2] \in Workers BY <2>1, Calls DEF Workers
  <2>5. \A t \in registeredThreads' : run'[t]
    BY <1>1, <2>2, <2>3, <2>4 DEF StartedInOrder
  <2> QED BY <1>1, <2>1, <2>2, <2>5, Calls DEF StartedInOrder
<1>5. CASE CreateThread
  <2>1. /\ step \in 1 .. 21 /\ step' = step + 1 /\ StartUp[step][1] = "create"
    BY <1>1, <1>5, StartingFacts DEF CreateThread
  <2>2. /\ at' = [at EXCEPT ![StartUp[step][2]] = "begin"]
        /\ UNCHANGED <<registeredMutexes, registeredThreads, run>>
    BY <1>5 DEF CreateThread, Subject, GoesTo
  <2>3. DOMAIN at = Threads BY <1>1 DEF TypeOK
  <2> QED BY <1>1, <2>1, <2>2, <2>3, Calls DEF StartedInOrder, Threads, Workers
<1>6. CASE SetThreadRunState \/ SetThreadReadyState
  <2>1. /\ step \in 1 .. 21 /\ step' = step + 1
        /\ StartUp[step][1] \in {"unready", "run", "ready"}
    BY <1>1, <1>6, StartingFacts DEF SetThreadRunState, SetThreadReadyState
  <2>2. UNCHANGED <<registeredMutexes, registeredThreads, at>>
    BY <1>6 DEF SetThreadRunState, SetThreadReadyState
  <2>3. run \in [Workers -> BOOLEAN] /\ registeredThreads \subseteq Workers
    BY <1>1 DEF TypeOK
  <2>4. \A t \in registeredThreads : run'[t]
    BY <1>1, <1>6, <2>3 DEF StartedInOrder, SetThreadRunState, SetThreadReadyState
  <2> QED BY <1>1, <2>1, <2>2, <2>4, Calls DEF StartedInOrder
<1> QED BY <1>2, <1>3, <1>4, <1>5, <1>6 DEF StartUpAction

LEMMA StartUpInv ==
  ASSUME IInv, StartUpAction
  PROVE  IInv'
<1>1. /\ TypeOK /\ QuietBefore /\ FoundBefore /\ SomethingToTake /\ TodoWhereNeeded
      /\ OwnersInside /\ LeavesOnlyMisled
  BY DEF IInv
<1>2. PICK call : Starting(call)
  BY DEF StartUpAction, RegisterMutex, BeginPushBack, PushBack, CreateThread,
         SetThreadRunState, SetThreadReadyState
<1>3. /\ step \in 1 .. 21 /\ step' = step + 1 /\ at["main"] = "start"
      /\ UNCHANGED <<queueVars, owner, todo, cached, misled>>
  BY <1>1, <1>2, StartingFacts
<1>4. \/ UNCHANGED at
      \/ /\ StartUp[step][2] \in Workers
         /\ at' = [at EXCEPT ![StartUp[step][2]] = "begin"]
         /\ at[StartUp[step][2]] = "unborn"
  <2>1. CASE CreateThread
    <3>1. StartUp[step][1] = "create" BY <1>1, <2>1, StartingFacts DEF CreateThread
    <3>2. StartUp[step][2] \in Workers BY <1>3, <3>1, Calls DEF Workers
    <3>3. at[StartUp[step][2]] = "unborn"
      BY <1>3, <3>1, Calls DEF IInv, StartedInOrder
    <3> QED BY <2>1, <3>2, <3>3 DEF CreateThread, GoesTo, Subject
  <2> QED BY <2>1 DEF StartUpAction, RegisterMutex, BeginPushBack, PushBack,
             SetThreadRunState, SetThreadReadyState
<1>5. DOMAIN at = Threads BY <1>1 DEF TypeOK
<1>6. /\ at'["main"] = "start"
      /\ \A t \in Threads : at'[t] = at[t] \/ (at[t] = "unborn" /\ at'[t] = "begin")
  <2>1. CASE UNCHANGED at BY <1>3, <2>1
  <2>2. CASE /\ StartUp[step][2] \in Workers
             /\ at' = [at EXCEPT ![StartUp[step][2]] = "begin"]
             /\ at[StartUp[step][2]] = "unborn"
    <3>1. PICK w \in Workers : at' = [at EXCEPT ![w] = "begin"] /\ at[w] = "unborn"
      BY <2>2
    <3> QED BY <1>3, <1>5, <3>1 DEF Threads, Workers
  <2> QED BY <1>4, <2>1, <2>2
<1>7. QuietBefore' BY <1>1, <1>3, <1>6 DEF QuietBefore, queueVars
<1>8. FoundBefore' BY <1>1, <1>3, <1>6 DEF FoundBefore, Threads, Workers
<1>9. SomethingToTake' BY <1>1, <1>3 DEF SomethingToTake, queueVars
<1>10. TodoWhereNeeded' BY <1>1, <1>3, <1>6 DEF TodoWhereNeeded
<1>11. OwnersInside'
  <2>1. \A t \in Threads : at[t] = "inside" => at'[t] = "inside" BY <1>6
  <2>2. \A m \in Mutexes : owner[m] \in Threads \cup {Nobody} BY <1>1 DEF TypeOK
  <2> QED BY <1>1, <1>3, <2>1, <2>2 DEF OwnersInside, Wanted
<1>12. LeavesOnlyMisled' BY <1>1, <1>3, <1>6 DEF LeavesOnlyMisled, Threads
<1> QED BY <1>7, <1>8, <1>9, <1>10, <1>11, <1>12, StartUpTypes, StartUpOrder DEF IInv

(* What main does by itself. *)

MainAction ==
  \/ StartDone \/ StartFails
  \/ Receive \/ ProcessGameEventQueue \/ ModeSwitch \/ LeaveLoop \/ Shutdown \/ Return

\* It moves only main, and gives it at most one section to enter.
LEMMA MainFacts ==
  ASSUME IInv, MainAction
  PROVE  /\ UNCHANGED <<registeredThreads, moving, misled, run, ready, registeredMutexes,
                        step, owner, cached, networkEvents, gameEvents, requestQueue>>
         /\ DOMAIN at' = Threads /\ DOMAIN todo' = Threads
         /\ \A t \in Workers : at'[t] = at[t] /\ todo'[t] = todo[t]
         /\ at["main"] \in {"start", "work", "shutdown", "return"}
         /\ at'["main"] \in {"work", "shutdown", "return", "ended"}
         /\ at'["main"] # "ended" => step > Len(StartUp)
         /\ at'["main"] # "work" => todo'["main"] = <<>>
         /\ todo["main"] = <<>>
         /\ \/ todo'["main"] \in {<<>>, <<"state">>, <<"emplace">>, <<"request">>}
            \/ todo'["main"] = <<"take">> /\ gameEvents > 0
<1>1. /\ TypeOK /\ QuietBefore /\ TodoWhereNeeded BY DEF IInv
<1>2. DOMAIN at = Threads /\ DOMAIN todo = Threads BY <1>1 DEF TypeOK
<1>3. "main" \in Threads /\ \A t \in Workers : t \in Threads /\ t # "main"
  BY DEF Threads, Workers
<1>4. todo["main"] = <<>>
  BY <1>1, <1>3 DEF MainAction, StartDone, StartFails, Receive, ProcessGameEventQueue,
         ModeSwitch, LeaveLoop, Shutdown, Return, InFrame, TodoWhereNeeded
<1>5. at["main"] \notin {"start", "ended"} => step > Len(StartUp)
  BY <1>1 DEF QuietBefore
<1>6. CASE Receive \/ ProcessGameEventQueue \/ ModeSwitch \/ LeaveLoop
  <2>1. /\ at["main"] = "work"
        /\ UNCHANGED <<engineVars, step, owner, cached, networkEvents, gameEvents,
                       requestQueue>>
    BY <1>6 DEF Receive, ProcessGameEventQueue, ModeSwitch, LeaveLoop, InFrame
  <2>2. CASE Receive \/ ProcessGameEventQueue \/ ModeSwitch
    <3>1. UNCHANGED at BY <2>2 DEF Receive, ProcessGameEventQueue, ModeSwitch
    <3>2. \E x \in {<<>>, <<"emplace">>, <<"request">>, <<"take">>} :
             /\ \/ x = <<>> /\ todo' = todo
                \/ todo' = [todo EXCEPT !["main"] = x]
             /\ x = <<"take">> => gameEvents > 0
      <4>1. CASE Receive BY <4>1, One, Lengths DEF Receive
      <4>2. CASE ProcessGameEventQueue BY <4>2, One DEF ProcessGameEventQueue
      <4>3. CASE ModeSwitch BY <4>3, One DEF ModeSwitch
      <4> QED BY <2>2, <4>1, <4>2, <4>3
    <3>3. PICK x \in {<<>>, <<"emplace">>, <<"request">>, <<"take">>} :
             /\ todo'["main"] = x
             /\ x = <<"take">> => gameEvents > 0
             /\ DOMAIN todo' = Threads /\ \A t \in Workers : todo'[t] = todo[t]
      BY <1>2, <1>3, <1>4, <3>2
    <3> QED BY <1>2, <1>4, <1>5, <2>1, <3>1, <3>2, <3>3 DEF engineVars
  <2>3. CASE LeaveLoop
    BY <1>2, <1>3, <1>4, <1>5, <2>1, <2>3 DEF LeaveLoop, GoesTo, engineVars
  <2> QED BY <1>6, <2>2, <2>3
<1>7. CASE StartDone
  BY <1>2, <1>3, <1>4, <1>7 DEF StartDone, GoesTo, engineVars, mainVars, queueVars
<1>8. CASE StartFails
  BY <1>2, <1>3, <1>4, <1>8 DEF StartFails, GoesTo, engineVars, mainVars, queueVars
<1>9. CASE Shutdown
  BY <1>2, <1>3, <1>4, <1>5, <1>9 DEF Shutdown, mainVars, queueVars, GoesTo
<1>10. CASE Return
  BY <1>2, <1>3, <1>4, <1>5, <1>10 DEF Return, engineVars, mainVars, queueVars, GoesTo
<1> QED BY <1>6, <1>7, <1>8, <1>9, <1>10 DEF MainAction

LEMMA MainInv ==
  ASSUME IInv, MainAction
  PROVE  IInv'
<1>1. /\ TypeOK /\ StartedInOrder /\ QuietBefore /\ FoundBefore /\ SomethingToTake
      /\ TodoWhereNeeded /\ OwnersInside /\ LeavesOnlyMisled
  BY DEF IInv
<1>2. DOMAIN at = Threads /\ DOMAIN todo = Threads BY <1>1 DEF TypeOK
<1>3. /\ UNCHANGED <<registeredThreads, moving, misled, run, ready, registeredMutexes,
                     step, owner, cached, networkEvents, gameEvents, requestQueue>>
      /\ DOMAIN at' = Threads /\ DOMAIN todo' = Threads
      /\ at["main"] \in {"start", "work", "shutdown", "return"}
      /\ at'["main"] \in {"work", "shutdown", "return", "ended"}
      /\ at'["main"] # "ended" => step > Len(StartUp)
      /\ at'["main"] # "work" => todo'["main"] = <<>>
      /\ todo["main"] = <<>>
      /\ \/ todo'["main"] \in {<<>>, <<"state">>, <<"emplace">>, <<"request">>}
         \/ todo'["main"] = <<"take">> /\ gameEvents > 0
  BY MainFacts
<1>4. \A t \in Workers : at'[t] = at[t] /\ todo'[t] = todo[t]
  BY MainFacts
<1>5. TypeOK'
  <2>1. /\ runThreads' \in BOOLEAN /\ destroyed' \in BOOLEAN
        /\ frame' \in {"service", "mode"} /\ sentInitRequest' \in BOOLEAN
    BY <1>1 
       DEF MainAction, StartDone, StartFails, Receive, ProcessGameEventQueue, ModeSwitch,
           LeaveLoop, Shutdown, Return, InFrame, engineVars, mainVars, queueVars, TypeOK
  <2>2. received' \in 0 .. MaxEvents
    <3>1. received' = received \/ (received < MaxEvents /\ received' = received + 1)
      BY DEF MainAction, StartDone, StartFails, Receive, ProcessGameEventQueue, ModeSwitch,
           LeaveLoop, Shutdown, Return, queueVars
    <3> QED BY <1>1, <3>1, MaxEventsAssumption DEF TypeOK
  <2>3. \A t \in Threads : todo'[t] \in Todo[t]
    <3>1. todo'["main"] \in Todo["main"] BY <1>3 DEF Todo
    <3> QED BY <1>1, <1>4, <3>1 DEF TypeOK, Threads
  <2>4. at' \in [Threads -> {"start", "work", "inside", "hangs", "shutdown", "return",
                            "ended", "unborn", "begin", "delay", "left"}]
    <3>1. at' = at \/ \E p \in {"work", "shutdown", "return", "ended"} : GoesTo("main", p)
      BY DEF MainAction, StartDone, StartFails, Receive, ProcessGameEventQueue, ModeSwitch,
           LeaveLoop, Shutdown, Return
    <3> QED BY <1>1, <3>1 DEF TypeOK, GoesTo
  <2> QED BY <1>1, <1>3, <2>1, <2>2, <2>3, <2>4 DEF TypeOK
<1>6. StartedInOrder' BY <1>1, <1>3, <1>4 DEF StartedInOrder, Workers
<1>7. QuietBefore'
  <2>1. step \in 1 .. Len(StartUp) + 1 /\ Len(StartUp) = 21 BY <1>1, StartUpLen DEF TypeOK
  <2>2. step <= Len(StartUp) => todo'["main"] = <<>>
    BY <1>3, <2>1
  <2>3. at'["main"] # "start" BY <1>3
  <2>4. step <= Len(StartUp) => \A t \in Threads \ {"monitor"} : todo'[t] = <<>>
    BY <1>1, <1>4, <2>2 DEF QuietBefore, Threads
  <2> QED BY <1>1, <1>3, <2>1, <2>3, <2>4 DEF QuietBefore
<1>8. FoundBefore' BY <1>1, <1>3, <1>4 DEF FoundBefore, Workers
<1>9. SomethingToTake'
  <2>1. todo'["main"] = <<"take">> => gameEvents > 0
    BY <1>3, One, Different
  <2> QED BY <1>1, <1>3, <1>4, <2>1 DEF SomethingToTake, Workers
<1>10. TodoWhereNeeded'
  <2>1. at'["main"] \notin {"work", "inside", "hangs"} => todo'["main"] = <<>> BY <1>3
  <2> QED BY <1>1, <1>3, <1>4, <2>1 DEF TodoWhereNeeded, Threads
<1>11. OwnersInside'
  <2>1. \A m \in Mutexes : owner[m] \in Workers \cup {"main", Nobody}
    BY <1>1 DEF TypeOK, Threads
  <2> QED BY <1>1, <1>3, <1>4, <2>1 DEF OwnersInside, Wanted, Workers
<1>12. LeavesOnlyMisled' BY <1>1, <1>3, <1>4 DEF LeavesOnlyMisled
<1> QED BY <1>5, <1>6, <1>7, <1>8, <1>9, <1>10, <1>11, <1>12 DEF IInv

(* What the other threads do between their critical sections. *)

WorkerAction(t) == Begin(t) \/ CanThreadRun(t) \/ Wake(t)

LEMMA WorkerFacts ==
  ASSUME IInv, NEW t \in Workers, WorkerAction(t)
  PROVE  /\ UNCHANGED <<registeredThreads, moving, run, ready, runThreads,
                        registeredMutexes, destroyed, mainVars, queueVars, owner>>
         /\ at' \in [Threads -> {"start", "work", "inside", "hangs", "shutdown", "return",
                                 "ended", "unborn", "begin", "delay", "left"}]
         /\ DOMAIN todo' = Threads
         /\ \A u \in Threads \ {t} : at'[u] = at[u] /\ todo'[u] = todo[u]
         /\ at[t] \in {"begin", "work", "delay"} /\ todo[t] = <<>>
         /\ at'[t] \in {"work", "delay", "left"}
         /\ todo'[t] \in Todo[t]
         /\ todo'[t] # <<>> => at'[t] = "work"
         /\ todo'[t] # <<>> /\ t = "requests" => requestQueue > 0
         /\ todo'[t] # <<>> /\ t = "network" => networkEvents > 0
         /\ todo'[t] # <<"unlock">>
<1>1. TypeOK BY DEF IInv
<1>2. /\ DOMAIN todo = Threads /\ t \in Threads
      /\ at \in [Threads -> {"start", "work", "inside", "hangs", "shutdown", "return",
                             "ended", "unborn", "begin", "delay", "left"}]
  BY <1>1 DEF TypeOK, Threads
<1>3. /\ UNCHANGED <<registeredThreads, moving, run, ready, runThreads,
                     registeredMutexes, destroyed, mainVars, queueVars, owner>>
      /\ at[t] \in {"begin", "work", "delay"} /\ todo[t] = <<>>
  BY DEF WorkerAction, Begin, CanThreadRun, Wake, Worker
<1>4. \E p \in {"work", "delay", "left"} : at' = [at EXCEPT ![t] = p]
  <2>1. CASE CanThreadRun(t)
    BY <2>1 DEF CanThreadRun, GoesTo
  <2>2. CASE Begin(t) \/ Wake(t)
    BY <2>2 DEF Begin, Wake, GoesTo
  <2> QED BY <2>1, <2>2 DEF WorkerAction
<1>5. /\ at' \in [Threads -> {"start", "work", "inside", "hangs", "shutdown", "return",
                              "ended", "unborn", "begin", "delay", "left"}]
      /\ at'[t] \in {"work", "delay", "left"}
      /\ \A u \in Threads \ {t} : at'[u] = at[u]
  BY <1>2, <1>4
<1>6. CASE Begin(t) \/ CanThreadRun(t)
  <2>1. todo' = todo BY <1>6 DEF Begin, CanThreadRun
  <2> QED BY <1>1, <1>2, <1>3, <1>5, <2>1, One DEF TypeOK
<1>7. CASE Wake(t)
  <2>1. PICK sections \in Wakes(t) : todo' = [todo EXCEPT ![t] = sections]
    BY <1>7 DEF Wake
  <2>2. at'[t] = "work" BY <1>2, <1>7 DEF Wake, GoesTo
  <2>3. /\ todo'[t] = sections /\ DOMAIN todo' = Threads
        /\ \A u \in Threads \ {t} : todo'[u] = todo[u]
    BY <1>2, <2>1
  <2>4. /\ sections \in Todo[t]
        /\ sections # <<>> /\ t = "requests" => requestQueue > 0
        /\ sections # <<>> /\ t = "network" => networkEvents > 0
        /\ sections # <<"unlock">>
    <3>1. CASE t = "requests" BY <3>1, One, Different DEF Wakes, Todo
    <3>2. CASE t = "network" BY <3>2, One, Different DEF Wakes, Todo
    <3>3. CASE t = "monitor" BY <3>3, One, Different, Lengths DEF Wakes, Todo
    <3> QED BY <3>1, <3>2, <3>3 DEF Workers
  <2> QED BY <1>3, <1>5, <2>2, <2>3, <2>4
<1> QED BY <1>6, <1>7 DEF WorkerAction

LEMMA WorkerInv ==
  ASSUME IInv, NEW t \in Workers, WorkerAction(t)
  PROVE  IInv'
<1>1. /\ TypeOK /\ StartedInOrder /\ QuietBefore /\ FoundBefore /\ SomethingToTake
      /\ TodoWhereNeeded /\ OwnersInside /\ LeavesOnlyMisled
  BY DEF IInv
<1>2. /\ UNCHANGED <<registeredThreads, moving, run, ready, runThreads,
                     registeredMutexes, destroyed, step, frame, sentInitRequest,
                     received, networkEvents, gameEvents, requestQueue, owner>>
      /\ at' \in [Threads -> {"start", "work", "inside", "hangs", "shutdown", "return",
                              "ended", "unborn", "begin", "delay", "left"}]
      /\ DOMAIN todo' = Threads
      /\ \A u \in Threads \ {t} : at'[u] = at[u] /\ todo'[u] = todo[u]
      /\ at[t] \in {"begin", "work", "delay"} /\ todo[t] = <<>>
      /\ at'[t] \in {"work", "delay", "left"}
  BY WorkerFacts DEF mainVars, queueVars
<1>3. /\ todo'[t] \in Todo[t]
      /\ todo'[t] # <<>> => at'[t] = "work"
      /\ todo'[t] # <<>> /\ t = "requests" => requestQueue > 0
      /\ todo'[t] # <<>> /\ t = "network" => networkEvents > 0
      /\ todo'[t] # <<"unlock">>
  BY WorkerFacts
<1>4. /\ at'["main"] = at["main"] /\ todo'["main"] = todo["main"]
      /\ \A u \in Workers : at'[u] = "unborn" <=> at[u] = "unborn"
  BY <1>2 DEF Threads, Workers
<1>5. /\ step \in 1 .. 22 /\ Len(StartUp) = 21 /\ networkEvents \in Nat /\ requestQueue \in Nat
  BY <1>1, StartUpLen DEF TypeOK
<1>6. TypeOK'
  <2>1. cached \in BOOLEAN /\ misled \subseteq Workers BY <1>1 DEF TypeOK
  <2>2. misled' \subseteq Workers
    <3>1. misled' \in {misled, misled \cup {t}, misled \ {t}}
      BY DEF WorkerAction, Begin, CanThreadRun, Wake
    <3> QED BY <2>1, <3>1
  <2>3. cached' \in BOOLEAN
    <3>1. CASE Begin(t)
      <4>1. CASE t = "requests"
        <5>1. cached' = ("clientRequestsMutex" \in registeredMutexes) BY <3>1, <4>1 DEF Begin
        <5> QED BY <5>1
      <4>2. CASE t # "requests" BY <2>1, <3>1, <4>2 DEF Begin
      <4> QED BY <4>1, <4>2
    <3>2. CASE CanThreadRun(t) \/ Wake(t) BY <2>1, <3>2 DEF CanThreadRun, Wake
    <3> QED BY <3>1, <3>2 DEF WorkerAction
  <2>4. \A u \in Threads : todo'[u] \in Todo[u] BY <1>1, <1>2, <1>3 DEF TypeOK
  <2> QED BY <1>1, <1>2, <2>2, <2>3, <2>4 DEF TypeOK
<1>7. StartedInOrder' BY <1>1, <1>2, <1>4 DEF StartedInOrder, Workers
<1>8. QuietBefore'
  <2>1. ASSUME at["main"] = "start" \/ step <= Len(StartUp), t # "monitor"
        PROVE  todo'[t] = <<>>
    <3>1. networkEvents = 0 /\ requestQueue = 0 BY <1>1, <2>1 DEF QuietBefore
    <3> QED BY <1>3, <2>1, <3>1 DEF Workers
  <2>2. at["main"] = "start" \/ step <= Len(StartUp) =>
          \A u \in Threads \ {"monitor"} : todo'[u] = <<>>
    BY <1>1, <1>2, <2>1 DEF QuietBefore
  <2> QED BY <1>1, <1>2, <1>4, <2>2 DEF QuietBefore
<1>9. FoundBefore'
  <2>1. CASE t = "requests" /\ Begin(t)
    <3>1. "clientRequestsMutex" \in registeredMutexes
      BY <1>1, <1>2, <1>5, <2>1 DEF StartedInOrder
    <3> QED BY <2>1, <3>1 DEF Begin, FoundBefore
  <2>2. CASE t = "requests" /\ ~Begin(t)
    <3>1. cached' = cached /\ at[t] # "begin" /\ at[t] # "unborn"
      BY <1>2, <2>2 DEF WorkerAction, CanThreadRun, Wake, Worker
    <3> QED BY <1>1, <2>2, <3>1 DEF FoundBefore
  <2>3. CASE t # "requests"
    <3>1. cached' = cached BY <2>3 DEF WorkerAction, Begin, CanThreadRun, Wake
    <3>2. at'["requests"] = at["requests"] BY <1>2, <2>3 DEF Threads, Workers
    <3> QED BY <1>1, <3>1, <3>2 DEF FoundBefore
  <2> QED BY <2>1, <2>2, <2>3
<1>10. SomethingToTake'
  <2>1. todo'["network"] = <<"pop">> => networkEvents > 0
    <3>1. CASE t = "network" BY <1>3, <3>1, One
    <3>2. CASE t # "network"
      BY <1>1, <1>2, <3>2 DEF SomethingToTake, Threads, Workers
    <3> QED BY <3>1, <3>2
  <2> QED BY <1>1, <1>2, <1>4, <2>1 DEF SomethingToTake
<1>11. TodoWhereNeeded' BY <1>1, <1>2, <1>3 DEF TodoWhereNeeded
<1>12. OwnersInside'
  <2>1. \A m \in Mutexes : owner[m] \in Threads \cup {Nobody} BY <1>1 DEF TypeOK
  <2>2. todo["network"] \in Remaining => t # "network" BY <1>2, RemainingFacts
  <2>3. "network" \in Threads BY DEF Threads, Workers
  <2> QED BY <1>1, <1>2, <2>1, <2>2, <2>3 DEF OwnersInside, Wanted
<1>13. LeavesOnlyMisled'
  <2>1. \A u \in Workers \ {t} : u \in misled' <=> u \in misled
    BY DEF WorkerAction, Begin, CanThreadRun, Wake
  <2>2. at'[t] = "left" => t \in misled'
    <3>1. CASE Begin(t) \/ Wake(t)
      BY <1>1, <3>1 DEF Begin, Wake, GoesTo, TypeOK, Threads
    <3>2. CASE CanThreadRun(t) /\ moving BY <3>2 DEF CanThreadRun
    <3>3. CASE CanThreadRun(t) /\ ~moving
      <4>1. t \in registeredThreads /\ run[t]
        <5>1. at[t] # "unborn" BY <3>3 DEF CanThreadRun, Worker
        <5>2. CASE t = "requests" BY <1>1, <1>5, <5>1, <5>2 DEF StartedInOrder
        <5>3. CASE t = "network" BY <1>1, <1>5, <5>1, <5>3 DEF StartedInOrder
        <5>4. CASE t = "monitor" BY <1>1, <1>5, <5>1, <5>4 DEF StartedInOrder
        <5> QED BY <5>2, <5>3, <5>4 DEF Workers
      <4>2. Finds(t, run) = {TRUE} BY <3>3, <4>1 DEF Finds
      <4>3. at'[t] # "left"
        BY <1>1, <3>3, <4>2 DEF CanThreadRun, GoesTo, TypeOK, Threads
      <4> QED BY <4>3
    <3> QED BY <3>1, <3>2, <3>3 DEF WorkerAction
  <2>3. \A u \in Workers \ {t} : at'[u] = at[u] BY <1>2 DEF Threads
  <2> QED BY <1>1, <2>1, <2>2, <2>3 DEF LeavesOnlyMisled
<1> QED BY <1>6, <1>7, <1>8, <1>9, <1>10, <1>11, <1>12, <1>13 DEF IInv

-----------------------------------------------------------------------------
(* Critical sections. *)

LEMMA InvLocksSucceed == IInv => LocksSucceed
<1> SUFFICES ASSUME IInv, NEW t \in Threads, Waits(t) PROVE FindMutex(t)
  BY DEF LocksSucceed
<1>1. /\ TypeOK /\ StartedInOrder /\ QuietBefore /\ FoundBefore BY DEF IInv
<1>2. at[t] = "work" /\ todo[t] # <<>> /\ Head(todo[t]) # "unlock" BY DEF Waits
<1>3. /\ step \in 1 .. 22 /\ Len(StartUp) = 21
      /\ Wanted(t) \in Mutexes
  BY <1>1, <1>2, StartUpLen, NextSection DEF TypeOK
<1>4. CASE t = "monitor"
  <2>1. Head(todo[t]) = "state" BY <1>1, <1>2, <1>4, NextSection
  <2> QED BY <2>1 DEF FindMutex, Wanted, MutexOf
<1>5. CASE t = "requests"
  <2>1. Head(todo[t]) = "resend" BY <1>1, <1>2, <1>5, NextSection
  <2> QED BY <1>1, <1>2, <1>5, <2>1 DEF FindMutex, FoundBefore
<1>6. CASE t \in {"main", "network"}
  <2>1. step > 21 BY <1>1, <1>2, <1>3, <1>6 DEF QuietBefore, Threads
  <2>2. Registrable \subseteq registeredMutexes
    BY <1>1, <1>3, <2>1 DEF StartedInOrder, Registrable
  <2>3. Head(todo[t]) # "resend"
    BY <1>1, <1>2, <1>6, One, NextSection
  <2> QED BY <1>3, <2>2, <2>3 DEF FindMutex, Mutexes
<1> QED BY <1>4, <1>5, <1>6 DEF Threads, Workers

LEMMA InvNoDeadlock == IInv => NoDeadlock
<1> SUFFICES ASSUME IInv, NEW t \in Threads, Blocked(t)
             PROVE  LET u == owner[Wanted(t)]
                    IN  IF Blocked(u) THEN Handles(u) /\ at[owner[Wanted(u)]] = "inside"
                        ELSE Handles(u) \/ at[u] = "inside"
  BY DEF NoDeadlock
<1> DEFINE u == owner[Wanted(t)]
<1>1. TypeOK /\ OwnersInside BY DEF IInv
<1>2. Wanted(t) \in Mutexes BY <1>1, NextSection DEF Blocked, Waits
<1>3. u # Nobody BY DEF Blocked
<1>4. CASE at[u] = "inside"
  <2>1. ~Blocked(u) BY <1>4 DEF Blocked, Waits
  <2> QED BY <1>4, <2>1
<1>5. CASE u = "network" /\ todo["network"] \in Remaining
  <2>1. Handles(u) BY <1>5, RemainingFacts DEF Handles
  <2>2. ASSUME Blocked("network") PROVE at[owner[Wanted("network")]] = "inside"
    <3>1. /\ "network" \in Threads /\ todo["network"] # <<>>
          /\ Head(todo["network"]) # "unlock" /\ todo["network"] # <<"pop">>
      BY <1>5, <2>2, RemainingFacts DEF Blocked, Waits, Threads, Workers
    <3>2. Wanted("network") \in Mutexes /\ Wanted("network") # "eventClientNetworkMutex"
      BY <1>1, <3>1, NextSection
    <3>3. owner[Wanted("network")] # Nobody BY <2>2 DEF Blocked
    <3> QED BY <1>1, <3>2, <3>3 DEF OwnersInside
  <2> QED BY <1>5, <2>1, <2>2
<1> QED BY <1>1, <1>2, <1>3, <1>4, <1>5 DEF OwnersInside

\* A thread gets a mutex, or waits for one that is gone for good.
LEMMA LockInv ==
  ASSUME IInv, NEW t \in Threads, LockMutex(t) \/ LockDestroyed(t)
  PROVE  IInv'
<1>1. /\ TypeOK /\ StartedInOrder /\ QuietBefore /\ FoundBefore /\ SomethingToTake
      /\ TodoWhereNeeded /\ OwnersInside /\ LeavesOnlyMisled
  BY DEF IInv
<1>2. /\ at[t] = "work" /\ todo[t] # <<>> /\ Head(todo[t]) # "unlock"
      /\ UNCHANGED <<engineVars, mainVars, queueVars, todo, cached>>
  BY DEF LockMutex, LockDestroyed, Waits
<1>3. \/ at' = [at EXCEPT ![t] = "inside"] /\ owner[Wanted(t)] \in {Nobody, t}
         /\ owner' = [owner EXCEPT ![Wanted(t)] = t]
      \/ at' = [at EXCEPT ![t] = "hangs"] /\ owner' = owner
  BY DEF LockMutex, LockDestroyed, GoesTo
<1>4. Wanted(t) \in Mutexes BY <1>1, <1>2, NextSection
<1>5. /\ at \in [Threads -> {"start", "work", "inside", "hangs", "shutdown", "return",
                             "ended", "unborn", "begin", "delay", "left"}]
      /\ owner \in [Mutexes -> Threads \cup {Nobody}]
      /\ step \in 1 .. 22 /\ Len(StartUp) = 21
  BY <1>1, StartUpLen DEF TypeOK
<1>6. /\ at' \in [Threads -> {"start", "work", "inside", "hangs", "shutdown", "return",
                              "ended", "unborn", "begin", "delay", "left"}]
      /\ at'[t] \in {"inside", "hangs"} /\ \A u \in Threads \ {t} : at'[u] = at[u]
      /\ owner' \in [Mutexes -> Threads \cup {Nobody}]
  BY <1>3, <1>4, <1>5
<1>7. TypeOK' BY <1>1, <1>2, <1>6 DEF TypeOK, engineVars, mainVars, queueVars
<1>8. StartedInOrder'
  BY <1>1, <1>2, <1>6 DEF StartedInOrder, Threads, Workers, engineVars, mainVars
<1>9. QuietBefore'
  <2>1. at'["main"] = "start" => at["main"] = "start" BY <1>6 DEF Threads
  <2>2. at'["main"] \notin {"start", "ended"} => at["main"] \notin {"start", "ended"}
    BY <1>2, <1>6 DEF Threads
  <2> QED BY <1>1, <1>2, <2>1, <2>2 DEF QuietBefore, mainVars, queueVars
<1>10. FoundBefore' BY <1>1, <1>2, <1>6 DEF FoundBefore, Threads, Workers
<1>11. SomethingToTake' BY <1>1, <1>2 DEF SomethingToTake, queueVars
<1>12. TodoWhereNeeded'
  <2>1. todo[t] # <<"unlock">> BY <1>2, One
  <2> QED BY <1>1, <1>2, <1>6, <2>1 DEF TodoWhereNeeded
<1>13. OwnersInside'
  <2>1. SUFFICES ASSUME NEW m \in Mutexes, owner'[m] # Nobody
                 PROVE  \/ at'[owner'[m]] = "inside" /\ MutexOf[Head(todo[owner'[m]])] = m
                        \/ /\ m = "eventClientNetworkMutex" /\ owner'[m] = "network"
                           /\ todo["network"] \in Remaining
    BY <1>2 DEF OwnersInside, Wanted
  <2>2. CASE at' = [at EXCEPT ![t] = "inside"] /\ owner' = [owner EXCEPT ![Wanted(t)] = t]
    <3>1. CASE m = Wanted(t) BY <1>4, <1>5, <2>2, <3>1 DEF Wanted
    <3>2. CASE m # Wanted(t)
      <4>1. owner'[m] = owner[m] BY <1>4, <1>5, <2>2, <3>2
      <4>2. at[owner[m]] = "inside" => at'[owner[m]] = "inside"
        BY <1>5, <1>6, <1>2, <2>1, <4>1
      <4> QED BY <1>1, <2>1, <4>1, <4>2 DEF OwnersInside, Wanted
    <3> QED BY <3>1, <3>2
  <2>3. CASE at' = [at EXCEPT ![t] = "hangs"] /\ owner' = owner
    <3>1. at[owner[m]] = "inside" => at'[owner[m]] = "inside"
      BY <1>5, <1>6, <1>2, <2>1, <2>3
    <3> QED BY <1>1, <2>1, <2>3, <3>1 DEF OwnersInside, Wanted
  <2> QED BY <1>3, <2>2, <2>3
<1>14. LeavesOnlyMisled' BY <1>1, <1>2, <1>6 DEF LeavesOnlyMisled, Threads, engineVars
<1> QED BY <1>7, <1>8, <1>9, <1>10, <1>11, <1>12, <1>13, <1>14 DEF IInv

\* A thread passes through a critical section.  The network thread may keep its
\* mutex; the monitor counts nothing; only main takes game events and only the
\* network thread network events.
LEMMA SectionInv ==
  ASSUME IInv, NEW t \in Threads, at[t] = "inside", GoesTo(t, "work"),
         UNCHANGED <<engineVars, mainVars, received, cached>>,
         NEW rest \in Todo[t], todo' = [todo EXCEPT ![t] = rest],
         rest # <<"take">>, rest # <<"pop">>, t = "network" => rest \in Remaining,
         \/ owner' = [owner EXCEPT ![Wanted(t)] = Nobody]
         \/ owner' = owner /\ t = "network" /\ Wanted(t) = "eventClientNetworkMutex",
         networkEvents' \in Nat, gameEvents' \in Nat, requestQueue' \in Nat,
         t \in {"monitor", "requests"} => UNCHANGED <<networkEvents, gameEvents, requestQueue>>,
         t # "main" => gameEvents' >= gameEvents,
         t # "network" => networkEvents' >= networkEvents
  PROVE  IInv'
<1>1. /\ TypeOK /\ StartedInOrder /\ QuietBefore /\ FoundBefore /\ SomethingToTake
      /\ TodoWhereNeeded /\ OwnersInside /\ LeavesOnlyMisled
  BY DEF IInv
<1>2. todo[t] # <<>> /\ todo[t] # <<"unlock">> BY <1>1 DEF TodoWhereNeeded
<1>3. /\ at \in [Threads -> {"start", "work", "inside", "hangs", "shutdown", "return",
                             "ended", "unborn", "begin", "delay", "left"}]
      /\ owner \in [Mutexes -> Threads \cup {Nobody}]
      /\ DOMAIN todo = Threads /\ step \in 1 .. 22 /\ Len(StartUp) = 21
      /\ networkEvents \in Nat /\ gameEvents \in Nat
  BY <1>1, StartUpLen DEF TypeOK
<1>4. /\ at' \in [Threads -> {"start", "work", "inside", "hangs", "shutdown", "return",
                              "ended", "unborn", "begin", "delay", "left"}]
      /\ at'[t] = "work" /\ \A u \in Threads \ {t} : at'[u] = at[u] /\ todo'[u] = todo[u]
      /\ todo'[t] = rest /\ DOMAIN todo' = Threads
  BY <1>3 DEF GoesTo
<1>5. Head(todo[t]) # "unlock"
  <2>1. todo[t] \in Todo[t] BY <1>1 DEF TypeOK
  <2>2. CASE t = "network"
    BY <1>2, <2>1, <2>2, One, RemainingFacts DEF Todo
  <2>3. CASE t # "network"
    <3>1. todo[t] \in {<<x>> : x \in {"state", "emplace", "take", "push", "request", "resend"}}
                        \cup {<<"state", "state">>}
      BY <1>2, <2>1, <2>3 DEF Todo, Threads, Workers
    <3> QED BY <3>1, One, Two
  <2> QED BY <2>2, <2>3
<1>6. Wanted(t) \in Mutexes BY <1>1, <1>2, <1>5, NextSection
<1>7. owner' \in [Mutexes -> Threads \cup {Nobody}] BY <1>3, <1>6
<1>8. TypeOK'
  <2>1. \A u \in Threads : todo'[u] \in Todo[u] BY <1>1, <1>4 DEF TypeOK
  <2> QED BY <1>1, <1>4, <1>7, <2>1 DEF TypeOK, engineVars, mainVars
<1>9. StartedInOrder'
  BY <1>1, <1>4 DEF StartedInOrder, Threads, Workers, engineVars, mainVars
<1>10. t # "monitor" => ~(at["main"] = "start" \/ step <= Len(StartUp))
  BY <1>1, <1>2 DEF QuietBefore
<1>11. QuietBefore'
  <2>1. at'["main"] = "start" => at["main"] = "start" BY <1>4 DEF Threads
  <2>2. at'["main"] \notin {"start", "ended"} => at["main"] \notin {"start", "ended"}
    BY <1>4 DEF Threads
  <2>3. step' = step BY DEF mainVars
  <2>4. CASE t # "monitor" BY <1>1, <1>10, <2>1, <2>2, <2>3, <2>4 DEF QuietBefore
  <2>5. CASE t = "monitor"
    <3>1. \A u \in Threads \ {"monitor"} : todo'[u] = todo[u] BY <1>4, <2>5
    <3> QED BY <1>1, <2>1, <2>2, <2>3, <2>5, <3>1 DEF QuietBefore
  <2> QED BY <2>4, <2>5
<1>12. FoundBefore' BY <1>1, <1>4 DEF FoundBefore, Threads, Workers
<1>13. SomethingToTake'
  <2>1. todo'["main"] = <<"take">> => t # "main" /\ todo["main"] = <<"take">>
    BY <1>4 DEF Threads
  <2>2. todo'["network"] = <<"pop">> => t # "network" /\ todo["network"] = <<"pop">>
    BY <1>4 DEF Threads, Workers
  <2> QED BY <1>1, <1>3, <2>1, <2>2 DEF SomethingToTake
<1>14. TodoWhereNeeded' BY <1>1, <1>4 DEF TodoWhereNeeded
<1>15. OwnersInside'
  <2>1. SUFFICES ASSUME NEW m \in Mutexes, owner'[m] # Nobody
                 PROVE  \/ at'[owner'[m]] = "inside" /\ MutexOf[Head(todo'[owner'[m]])] = m
                        \/ /\ m = "eventClientNetworkMutex" /\ owner'[m] = "network"
                           /\ todo'["network"] \in Remaining
    BY DEF OwnersInside, Wanted
  <2>2. owner'[m] = owner[m] /\ owner[m] \in Threads BY <1>3, <1>6, <2>1
  <2>3. todo["network"] \in Remaining => todo'["network"] \in Remaining
    BY <1>4 DEF Threads, Workers
  <2>4. CASE owner[m] = t /\ Wanted(t) = m
    BY <1>4, <1>3, <1>6, <2>1, <2>2, <2>4
  <2>5. CASE owner[m] # t
    BY <1>1, <1>4, <2>1, <2>2, <2>3, <2>5 DEF OwnersInside, Wanted
  <2>6. CASE Wanted(t) # m /\ owner[m] = t
    BY <1>1, <2>1, <2>2, <2>3, <2>6 DEF OwnersInside
  <2> QED BY <2>4, <2>5, <2>6
<1>16. LeavesOnlyMisled' BY <1>1, <1>4 DEF LeavesOnlyMisled, Threads, engineVars
<1> QED BY <1>8, <1>9, <1>11, <1>12, <1>13, <1>14, <1>15, <1>16 DEF IInv

SectionAction(t) == QueueSections(t) \/ (t = "main" /\ TakeGameEvent)
                                     \/ (t = "network" /\ PopNetworkEvent)

LEMMA SectionActionInv ==
  ASSUME IInv, NEW t \in Threads, SectionAction(t)
  PROVE  IInv'
<1>1. TypeOK /\ SomethingToTake /\ TodoWhereNeeded BY DEF IInv
<1>2. PICK section \in DOMAIN MutexOf : Inside(t, section)
  BY DEF SectionAction, QueueSections, TakeGameEvent, PopNetworkEvent, MutexOf
<1>3. /\ at[t] = "inside" /\ Head(todo[t]) = section /\ GoesTo(t, "work")
      /\ UNCHANGED <<engineVars, mainVars, received, cached>>
  BY <1>2 DEF Inside
<1>4. todo[t] # <<>> /\ section # "unlock" BY <1>1, <1>2, <1>3 DEF TodoWhereNeeded, MutexOf
<1>5. networkEvents \in Nat /\ gameEvents \in Nat /\ requestQueue \in Nat
  BY <1>1 DEF TypeOK
<1>6. CASE t = "main" /\ TakeGameEvent
  <2>1. Head(todo["main"]) = "take" BY <1>6 DEF TakeGameEvent, Inside
  <2>2. gameEvents > 0 BY <1>1, <1>3, <1>4, <1>6, <2>1, NextSection DEF SomethingToTake
  <2>3. PICK rest \in Postponing : todo' = [todo EXCEPT ![t] = rest]
    BY <1>6 DEF TakeGameEvent
  <2>4. rest \in Todo[t] /\ rest # <<"take">> /\ rest # <<"pop">>
    BY <1>6, <2>3, One, Different DEF Postponing, Todo
  <2>5. /\ owner' = [owner EXCEPT ![Wanted(t)] = Nobody] /\ gameEvents' = gameEvents - 1
        /\ UNCHANGED <<networkEvents, requestQueue>>
    BY <1>6 DEF TakeGameEvent, Unlock
  <2>6. networkEvents' \in Nat /\ gameEvents' \in Nat /\ requestQueue' \in Nat
        /\ networkEvents' >= networkEvents
    BY <1>5, <2>2, <2>5
  <2>7. t # "network" /\ t \notin {"monitor", "requests"} BY <1>6
  <2> QED BY <1>3, <1>6, <2>3, <2>4, <2>5, <2>6, <2>7, SectionInv
<1>7. CASE t = "network" /\ PopNetworkEvent
  <2>1. Head(todo["network"]) = "pop" BY <1>7 DEF PopNetworkEvent, Inside
  <2>2. networkEvents > 0
    BY <1>1, <1>3, <1>4, <1>7, <2>1, NextSection DEF SomethingToTake
  <2>3. PICK rest \in Handling : todo' = [todo EXCEPT ![t] = rest]
    BY <1>7 DEF PopNetworkEvent
  <2>4. rest \in Remaining BY <2>3 DEF Remaining
  <2>5. rest \in Todo[t] /\ rest # <<"pop">> BY <1>7, <2>4, RemainingFacts DEF Todo
  <2>6. rest # <<"take">>
    BY <2>4, One, RemainingFacts
  <2>7. Wanted(t) = "eventClientNetworkMutex" BY <1>7, <2>1 DEF Wanted, MutexOf
  <2>8. networkEvents' = networkEvents - 1 /\ UNCHANGED <<owner, gameEvents, requestQueue>>
    BY <1>7 DEF PopNetworkEvent
  <2>9. networkEvents' \in Nat /\ gameEvents' \in Nat /\ requestQueue' \in Nat
        /\ gameEvents' >= gameEvents
    BY <1>5, <2>2, <2>8
  <2>10. t # "main" /\ t \notin {"monitor", "requests"} BY <1>7
  <2> QED BY <1>3, <1>7, <2>3, <2>4, <2>5, <2>6, <2>7, <2>8, <2>9, <2>10, SectionInv
<1>8. CASE QueueSections(t)
  <2>1. /\ Passes(t) /\ section \notin {"take", "pop"}
        /\ \/ section = "emplace" /\ networkEvents' = networkEvents + 1
              /\ UNCHANGED <<gameEvents, requestQueue>>
           \/ section = "push" /\ gameEvents' = gameEvents + 1
              /\ UNCHANGED <<networkEvents, requestQueue>>
           \/ section = "remove" /\ requestQueue' = requestQueue \div 2
              /\ UNCHANGED <<networkEvents, gameEvents>>
           \/ section = "request" /\ requestQueue' = requestQueue + 1
              /\ UNCHANGED <<networkEvents, gameEvents>>
           \/ section \in {"resend", "state"}
              /\ UNCHANGED <<networkEvents, gameEvents, requestQueue>>
    BY <1>3, <1>8 DEF QueueSections, Inside
  <2>2. /\ owner' = [owner EXCEPT ![Wanted(t)] = Nobody]
        /\ todo' = [todo EXCEPT ![t] = Tail(todo[t])]
    BY <2>1 DEF Passes, Unlock
  <2>3. /\ Tail(todo[t]) \in Todo[t]
        /\ t = "network" => Tail(todo[t]) \in Remaining
        /\ Tail(todo[t]) # <<"take">> /\ Tail(todo[t]) # <<"pop">>
    <3>1. CASE t \in {"main", "requests"}
      <4>1. Tail(todo[t]) = <<>> BY <1>1, <1>3, <1>4, <3>1, NextSection
      <4>2. <<>> \in Todo["main"] /\ <<>> \in Todo["requests"] BY DEF Todo
      <4>3. t # "network" BY <3>1
      <4> QED BY <3>1, <4>1, <4>2, <4>3, One
    <3>2. CASE t = "monitor"
      <4>1. Tail(todo[t]) \in {<<>>, <<"state">>} BY <1>1, <1>3, <1>4, <3>2, NextSection
      <4> QED BY <3>2, <4>1, One, Different DEF Todo
    <3>3. CASE t = "network"
      <4>1. Tail(todo[t]) \in Remaining
        BY <1>1, <1>3, <1>4, <2>1, <3>3, NextSection
      <4> QED BY <3>3, <4>1, One, RemainingFacts DEF Todo
    <3> QED BY <3>1, <3>2, <3>3 DEF Threads, Workers
  <2>4. t \in {"monitor", "requests"} => section \in {"state", "resend"}
    BY <1>1, <1>3, <1>4, NextSection
  <2>5. requestQueue \div 2 \in Nat BY <1>5
  <2>6. /\ networkEvents' \in Nat /\ gameEvents' \in Nat /\ requestQueue' \in Nat
        /\ t \in {"monitor", "requests"} =>
             UNCHANGED <<networkEvents, gameEvents, requestQueue>>
        /\ gameEvents' >= gameEvents /\ networkEvents' >= networkEvents
    BY <1>5, <2>1, <2>4, <2>5
  <2> QED BY <1>3, <2>2, <2>3, <2>6, SectionInv
<1> QED BY <1>6, <1>7, <1>8 DEF SectionAction

LEMMA UnlockInv ==
  ASSUME IInv, UnlockNetwork
  PROVE  IInv'
<1>1. /\ TypeOK /\ StartedInOrder /\ QuietBefore /\ FoundBefore /\ SomethingToTake
      /\ TodoWhereNeeded /\ OwnersInside /\ LeavesOnlyMisled
  BY DEF IInv
<1>2. /\ at["network"] = "work"
      /\ owner' = [owner EXCEPT !["eventClientNetworkMutex"] = Nobody]
      /\ todo' = [todo EXCEPT !["network"] = <<>>]
      /\ UNCHANGED <<engineVars, mainVars, queueVars, at, cached>>
  BY DEF UnlockNetwork
<1>3. /\ DOMAIN todo = Threads /\ owner \in [Mutexes -> Threads \cup {Nobody}]
      /\ "network" \in Threads /\ "eventClientNetworkMutex" \in Mutexes
  BY <1>1 DEF TypeOK, Threads, Workers, Mutexes, Registrable
<1>4. /\ DOMAIN todo' = Threads /\ todo'["network"] = <<>>
      /\ \A u \in Threads \ {"network"} : todo'[u] = todo[u]
      /\ owner' \in [Mutexes -> Threads \cup {Nobody}]
      /\ \A m \in Mutexes : owner'[m] # Nobody =>
           m # "eventClientNetworkMutex" /\ owner'[m] = owner[m]
  BY <1>2, <1>3
<1>5. TypeOK'
  <2>1. \A u \in Threads : todo'[u] \in Todo[u]
    <3>1. todo'["network"] \in Todo["network"] BY <1>4 DEF Todo
    <3> QED BY <1>1, <1>4, <3>1 DEF TypeOK
  <2> QED BY <1>1, <1>2, <1>4, <2>1 DEF TypeOK, engineVars, mainVars, queueVars
<1>6. StartedInOrder' BY <1>1, <1>2 DEF StartedInOrder, engineVars, mainVars
<1>7. QuietBefore' BY <1>1, <1>2, <1>4 DEF QuietBefore, mainVars, queueVars
<1>8. FoundBefore' BY <1>1, <1>2 DEF FoundBefore
<1>9. SomethingToTake'
  <2>1. todo'["main"] = todo["main"] BY <1>4 DEF Threads, Workers
  <2>2. todo'["network"] # <<"pop">> BY <1>4, One
  <2> QED BY <1>1, <1>2, <2>1, <2>2 DEF SomethingToTake, queueVars
<1>10. TodoWhereNeeded' BY <1>1, <1>2, <1>4 DEF TodoWhereNeeded
<1>11. OwnersInside'
  <2>1. ASSUME NEW m \in Mutexes, owner'[m] # Nobody
        PROVE  at'[owner'[m]] = "inside" /\ MutexOf[Head(todo'[owner'[m]])] = m
    <3>1. at[owner[m]] = "inside" /\ MutexOf[Head(todo[owner[m]])] = m
      BY <1>1, <1>4, <2>1 DEF OwnersInside, Wanted
    <3>2. owner[m] \in Threads /\ owner[m] # "network" BY <1>2, <1>3, <1>4, <2>1, <3>1
    <3> QED BY <1>2, <1>4, <2>1, <3>1, <3>2
  <2> QED BY <2>1 DEF OwnersInside, Wanted
<1>12. LeavesOnlyMisled' BY <1>1, <1>2 DEF LeavesOnlyMisled, engineVars
<1> QED BY <1>5, <1>6, <1>7, <1>8, <1>9, <1>10, <1>11, <1>12 DEF IInv

LEMMA StutterInv ==
  ASSUME IInv, UNCHANGED vars
  PROVE  IInv'
<1>1. /\ TypeOK' = TypeOK /\ StartedInOrder' = StartedInOrder /\ QuietBefore' = QuietBefore
      /\ FoundBefore' = FoundBefore /\ SomethingToTake' = SomethingToTake
      /\ TodoWhereNeeded' = TodoWhereNeeded /\ LeavesOnlyMisled' = LeavesOnlyMisled
  BY DEF vars, engineVars, mainVars, queueVars, TypeOK, StartedInOrder, QuietBefore,
         FoundBefore, SomethingToTake, TodoWhereNeeded, LeavesOnlyMisled
<1>2. OwnersInside' = OwnersInside
  BY DEF vars, engineVars, mainVars, queueVars, OwnersInside, Wanted
<1> QED BY <1>1, <1>2 DEF IInv

LEMMA NextInv == IInv /\ [Next]_vars => IInv'
<1> SUFFICES ASSUME IInv, [Next]_vars PROVE IInv' OBVIOUS
<1>1. "main" \in Threads /\ Workers \subseteq Threads /\ "network" \in Workers
      /\ "requests" \in Workers /\ "monitor" \in Workers
  BY DEF Threads, Workers
<1>2. CASE Main \/ StartFails \/ LeaveLoop
  <2>1. StartUpAction \/ MainAction \/ SectionAction("main") \/ LockDestroyed("main")
    BY <1>1, <1>2 DEF Main, Locking, StartUpAction, MainAction, SectionAction
  <2> QED BY <1>1, <2>1, StartUpInv, MainInv, SectionActionInv, LockInv
<1>3. ASSUME NEW t \in Workers, Loop(t) PROVE IInv'
  <2>1. WorkerAction(t) \/ SectionAction(t) \/ LockDestroyed(t)
    BY <1>1, <1>3 DEF Loop, Locking, WorkerAction, SectionAction
  <2> QED BY <1>1, <2>1, WorkerInv, SectionActionInv, LockInv
<1>4. CASE PopNetworkEvent BY <1>1, <1>4, SectionActionInv DEF SectionAction
<1>5. CASE UnlockNetwork BY <1>5, UnlockInv
<1>6. CASE \E t \in Threads : LockMutex(t) BY <1>6, LockInv
<1>7. CASE UNCHANGED vars BY <1>7, StutterInv
<1> QED BY <1>1, <1>2, <1>3, <1>4, <1>5, <1>6, <1>7 DEF Next, Network

-----------------------------------------------------------------------------
\* Each part of the invariant, the order in which main registers and starts and
\* what a thread has still to lock, holds at all times.
THEOREM Invariance == Spec => []IInv
<1> QED BY InitInv, NextInv, PTL DEF Spec

\* The flags, owners and queues have their types; no counter goes below zero:
\* nobody takes an element from a queue that has been emptied meanwhile.
THEOREM Types == Spec => []TypeOK
<1>1. IInv => TypeOK BY DEF IInv
<1> QED BY <1>1, Invariance, PTL

\* No thread calls lockMutex for a mutex that is not registered, and the
\* requests thread has found its own: no critical section is left out.
THEOREM LocksAreFound == Spec => []LocksSucceed
<1> QED BY InvLocksSucceed, Invariance, PTL

\* A thread leaves its loop only if its last look fell into a push_back.
THEOREM LoopsAreLeftMisled == Spec => []LeavesOnlyMisled
<1>1. IInv => LeavesOnlyMisled BY DEF IInv
<1> QED BY <1>1, Invariance, PTL

\* However many events arrive, no thread waits for a mutex whose owner waits
\* in turn for one that is not about to be given back.
THEOREM NobodyDeadlocks == Spec => []NoDeadlock
<1> QED BY InvNoDeadlock, Invariance, PTL
=============================================================================
