----------------------------- MODULE EventQueue -----------------------------
(***************************************************************************)
(* The queue that hands the network events from a main loop to the network *)
(* thread: networkEventsQueue on the server, networkEventsQueueClient on   *)
(* the client.  Both are a std::queue behind one SDL mutex, with one       *)
(* producer (the main loop, which services the ENet host) and one consumer *)
(* (the network thread).  The two differ in one point: the server unlocks  *)
(* before it handles the event, the client handles it with the mutex held. *)
(*                                                                         *)
(* Each access to the std::queue is split into a step that reads it and a  *)
(* step that writes it back, so that two accesses that overlap lose one    *)
(* another's effect: nothing but the mutex keeps them apart.               *)
(***************************************************************************)
EXTENDS Naturals, Sequences

CONSTANT MaxEvents  \* bound on the events ENet delivers

ASSUME MaxEventsAssumption == MaxEvents \in Nat

VARIABLES
    side,        \* whose queue it is, "server" or "client"; never changes
    received,    \* number of events enet_host_service has returned
    queue,       \* the std::queue: numbers of events
    mutex,       \* who holds the event mutex: "free", "main" or "worker"
    mainPC,      \* where the main loop is
    mainCopy,    \* the queue as emplace has read it
    workerPC,    \* where the network thread is
    workerCopy,  \* the queue as front has read it
    event,       \* the thread's local networkEvent, 0 before the first
    lastHandled  \* number of the last event handled

vars == <<side, received, queue, mutex, mainPC, mainCopy, workerPC, workerCopy,
          event, lastHandled>>
mainVars   == <<side, received, mainPC, mainCopy>>
workerVars == <<side, workerPC, workerCopy, event, lastHandled>>

MainPCs   == {"service", "lock", "emplace", "write", "unlock"}
WorkerPCs == {"check", "lock", "front", "pop", "unlock", "handle"}

Init == /\ side \in {"server", "client"}
        /\ received = 0
        /\ queue = << >>
        /\ mutex = "free"
        /\ mainPC = "service"
        /\ mainCopy = << >>
        /\ workerPC = "check"
        /\ workerCopy = << >>
        /\ event = 0
        /\ lastHandled = 0

-----------------------------------------------------------------------------
(* Faulty variants of four steps.  The specification does not use them;     *)
(* each must break one of the properties below.                             *)

\* emplace gives the mutex back before it has written the queue
EmplaceReadUnlocks == /\ mainPC = "emplace"
                      /\ mainCopy' = queue
                      /\ mutex' = "free"
                      /\ mainPC' = "write"
                      /\ UNCHANGED <<received, queue, workerVars>>

\* the thread goes on although lockMutex has failed
WorkerLockIgnored == /\ workerPC = "lock"
                     /\ mutex' = "worker"
                     /\ workerPC' = "front"
                     /\ UNCHANGED <<mainVars, queue, workerCopy, event, lastHandled>>

\* the test of empty() is left out
SeesEventAlways == /\ workerPC = "check"
                   /\ workerPC' = "lock"
                   /\ UNCHANGED <<mainVars, queue, mutex, workerCopy, event,
                                  lastHandled>>

\* front() without pop()
PopForgotten == /\ workerPC = "pop"
                /\ workerPC' = IF side = "client" THEN "handle" ELSE "unlock"
                /\ UNCHANGED <<mainVars, queue, mutex, workerCopy, event, lastHandled>>

-----------------------------------------------------------------------------
(* The main loop: getNetworkEvents, then s_addNetworkEventToQueue or        *)
(* c_addNetworkEvent for each event.                                        *)

\* enet_host_service returns an event.  (It returning none changes nothing.)
Service == /\ mainPC = "service"
           /\ received < MaxEvents
           /\ received' = received + 1
           /\ mainPC' = "lock"
           /\ UNCHANGED <<queue, mutex, mainCopy, workerVars>>

MainLock == /\ mainPC = "lock"
            /\ mutex = "free"
            /\ mutex' = "main"
            /\ mainPC' = "emplace"
            /\ UNCHANGED <<received, queue, mainCopy, workerVars>>

\* networkEventsQueue.emplace, first half
EmplaceRead == /\ mainPC = "emplace"
               /\ mainCopy' = queue
               /\ mainPC' = "write"
               /\ UNCHANGED <<received, queue, mutex, workerVars>>

\* networkEventsQueue.emplace, second half
EmplaceWrite == /\ mainPC = "write"
                /\ queue' = Append(mainCopy, received)
                /\ mainPC' = "unlock"
                /\ UNCHANGED <<received, mutex, mainCopy, workerVars>>

MainUnlock == /\ mainPC = "unlock"
              /\ mutex' = "free"
              /\ mainPC' = "service"
              /\ UNCHANGED <<received, queue, mainCopy, workerVars>>

-----------------------------------------------------------------------------
(* The network thread: s_processEventNetworkThread,                         *)
(* processClientEventNetwork.                                               *)

\* What empty() may return: it is called without the mutex, so while the main
\* loop is in the middle of emplace it may see the queue before or after it.
EmptyMayReturn(b) == \/ b = (queue = << >>)
                     \/ mainPC = "write"

\* if (!networkEventsQueue.empty ()), false: round the thread's loop again
SeesEmpty == /\ workerPC = "check"
             /\ EmptyMayReturn(TRUE)
             /\ UNCHANGED vars

\* if (!networkEventsQueue.empty ()), true
SeesEvent == /\ workerPC = "check"
             /\ EmptyMayReturn(FALSE)
             /\ workerPC' = "lock"
             /\ UNCHANGED <<mainVars, queue, mutex, workerCopy, event,
                            lastHandled>>

WorkerLock == /\ workerPC = "lock"
              /\ mutex = "free"
              /\ mutex' = "worker"
              /\ workerPC' = "front"
              /\ UNCHANGED <<mainVars, queue, workerCopy, event, lastHandled>>

\* front () of an empty queue is undefined: there is no such step
Front == /\ workerPC = "front"
         /\ queue # << >>
         /\ event' = Head(queue)
         /\ workerCopy' = queue
         /\ workerPC' = "pop"
         /\ UNCHANGED <<mainVars, queue, mutex, lastHandled>>

AfterPop == IF side = "client" THEN "handle" ELSE "unlock"

Pop == /\ workerPC = "pop"
       /\ queue' = Tail(workerCopy)
       /\ workerPC' = AfterPop
       /\ UNCHANGED <<mainVars, mutex, workerCopy, event, lastHandled>>

\* The server's thread unlocks, then handles.
ServerUnlock == /\ side = "server"
                /\ workerPC = "unlock"
                /\ mutex' = "free"
                /\ workerPC' = "handle"
                /\ UNCHANGED <<mainVars, queue, workerCopy, event, lastHandled>>

ServerHandle == /\ side = "server"
                /\ workerPC = "handle"
                /\ lastHandled' = event
                /\ workerPC' = "check"
                /\ UNCHANGED <<mainVars, queue, mutex, workerCopy, event>>

\* The client's thread handles, then unlocks.
ClientHandle == /\ side = "client"
                /\ workerPC = "handle"
                /\ lastHandled' = event
                /\ workerPC' = "unlock"
                /\ UNCHANGED <<mainVars, queue, mutex, workerCopy, event>>

ClientUnlock == /\ side = "client"
                /\ workerPC = "unlock"
                /\ mutex' = "free"
                /\ workerPC' = "check"
                /\ UNCHANGED <<mainVars, queue, workerCopy, event, lastHandled>>

-----------------------------------------------------------------------------
Add     == MainLock \/ EmplaceRead \/ EmplaceWrite \/ MainUnlock
Worker  == \/ SeesEmpty \/ SeesEvent \/ WorkerLock \/ Front \/ Pop
           \/ ServerUnlock \/ ServerHandle \/ ClientHandle \/ ClientUnlock
Next    == Service \/ Add \/ Worker

(* Both threads run until the process ends, so neither stays for ever in    *)
(* front of a step it can take.  SDL mutexes are not fair, but ENet         *)
(* delivers finitely many events here: WF is enough.  Service is not fair:  *)
(* no event need ever arrive.  SeesEmpty changes no variable, so WF(Worker) *)
(* asks that a queue that stays non-empty is at last seen non-empty.        *)
Fairness == WF_vars(Add) /\ WF_vars(Worker)

Spec     == Init /\ [][Next]_vars
FairSpec == Spec /\ Fairness

-----------------------------------------------------------------------------
TypeOK == /\ side \in {"server", "client"}
          /\ received \in 0..MaxEvents
          /\ queue \in Seq(Nat) /\ mainCopy \in Seq(Nat)
          /\ workerCopy \in Seq(Nat)
          /\ mutex \in {"free", "main", "worker"}
          /\ mainPC \in MainPCs /\ workerPC \in WorkerPCs
          /\ event \in Nat /\ lastHandled \in Nat

MainInside   == mainPC \in {"emplace", "write", "unlock"}
WorkerInside == \/ workerPC \in {"front", "pop", "unlock"}
                \/ side = "client" /\ workerPC = "handle"

(* Never are both threads between lockMutex and unLockMutex of the event    *)
(* mutex: the std::queue is not touched by two threads at once.             *)
MutualExclusion == ~(MainInside /\ WorkerInside)

(* The network thread tests empty() before it takes the mutex and never     *)
(* again after; yet whenever it gets to front(), there is an event.         *)
NeverPopsEmpty == workerPC = "front" => queue # << >>

(* The queue hands over every event once and in order, and hands over each. *)
Fifo == INSTANCE EventFifo WITH received <- received, lastHandled <- lastHandled
HandsOver == Fifo!Spec

-----------------------------------------------------------------------------
(* The inductive invariant.  Popped is the number of events taken off the   *)
(* queue, Added the number put on it; between the two, the queue holds      *)
(* consecutive numbers.                                                     *)
Added  == IF mainPC \in {"lock", "emplace", "write"} THEN received - 1
                                                      ELSE received
Popped == IF workerPC \in {"unlock", "handle"} THEN event ELSE lastHandled

\* mutex says which thread is inside
Owned == /\ MainInside <=> mutex = "main"
         /\ WorkerInside <=> mutex = "worker"

\* mainPC is past Service only for an event that exists
InHand == mainPC # "service" => received > 0

Consecutive == /\ Len(queue) = Added - Popped
               /\ \A i \in 1..Len(queue) : queue[i] = Popped + i

\* each half-done access has read the queue as it still is
FreshCopies == /\ mainPC = "write" => mainCopy = queue
               /\ workerPC = "pop" => workerCopy = queue /\ queue # << >>
                                      /\ event = queue[1]

\* where the event in the thread's hand stands against the last one handled
EventNumber ==
    /\ workerPC \in {"check", "lock", "front"} => event = lastHandled
    /\ workerPC = "handle" => event = lastHandled + 1
    /\ workerPC = "unlock" => event = IF side = "client" THEN lastHandled
                                                           ELSE lastHandled + 1

\* once the thread has seen an event, one is there or is half-way in
SawEvent == /\ workerPC = "lock" => queue # << >> \/ mainPC = "write"
            /\ NeverPopsEmpty

IInv == /\ TypeOK
        /\ Owned
        /\ InHand
        /\ Consecutive
        /\ FreshCopies
        /\ EventNumber
        /\ SawEvent
=============================================================================
