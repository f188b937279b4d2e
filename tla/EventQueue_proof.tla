-------------------------- MODULE EventQueue_proof --------------------------
(***************************************************************************)
(* What TLC checks of EventQueue for four events, proved for any number:   *)
(* IInv is inductive, the two critical sections exclude each other, the    *)
(* network thread never takes an event from an empty queue, and every step *)
(* is a step or a stutter of EventFifo.                                    *)
(***************************************************************************)
EXTENDS EventQueue, SequenceTheorems, TLAPS

\* The sequence q holds the numbers from p + 1 to a, in order.
HoldsFrom(q, p, a) == /\ q \in Seq(Nat) /\ p \in Nat /\ a \in Nat
                      /\ Len(q) = a - p
                      /\ \A i \in 1..Len(q) : q[i] = p + i

LEMMA AppendNext ==
  ASSUME NEW q, NEW p, NEW a \in Nat, a > 0, HoldsFrom(q, p, a - 1)
  PROVE  HoldsFrom(Append(q, a), p, a) /\ Append(q, a) # << >>
<1>1. q \in Seq(Nat) /\ p \in Nat /\ Len(q) = a - 1 - p /\ Len(q) \in Nat
  BY DEF HoldsFrom
<1>2. /\ Append(q, a) \in Seq(Nat)
      /\ Append(q, a) # << >>
      /\ Len(Append(q, a)) = Len(q) + 1
      /\ \A i \in 1..Len(q) : Append(q, a)[i] = q[i]
      /\ Append(q, a)[Len(q) + 1] = a
  BY <1>1, AppendProperties
<1>3. ASSUME NEW i \in 1..Len(Append(q, a))
      PROVE  Append(q, a)[i] = p + i
  <2>1. CASE i \in 1..Len(q)
    BY <1>2, <2>1 DEF HoldsFrom
  <2>2. CASE i = Len(q) + 1
    BY <1>1, <1>2, <2>2
  <2> QED
    BY <1>1, <1>2, <2>1, <2>2
<1>4. Len(Append(q, a)) = a - p
  BY <1>1, <1>2
<1> QED
  BY <1>1, <1>2, <1>3, <1>4, Zenon DEF HoldsFrom

LEMMA HeadIsNext ==
  ASSUME NEW q, NEW p, NEW a, HoldsFrom(q, p, a), q # << >>
  PROVE  Head(q) = q[1] /\ Head(q) = p + 1 /\ Len(q) > 0
<1>1. q \in Seq(Nat) /\ Len(q) \in Nat /\ Len(q) # 0
  BY EmptySeq DEF HoldsFrom
<1> QED
  BY <1>1 DEF HoldsFrom

LEMMA TailDropsNext ==
  ASSUME NEW q, NEW p, NEW a, HoldsFrom(q, p, a), q # << >>
  PROVE  HoldsFrom(Tail(q), p + 1, a)
<1>1. q \in Seq(Nat) /\ p \in Nat /\ a \in Nat /\ Len(q) = a - p
  BY DEF HoldsFrom
<1>2. /\ Tail(q) \in Seq(Nat)
      /\ Len(Tail(q)) = Len(q) - 1
      /\ \A i \in 1..Len(Tail(q)) : Tail(q)[i] = q[i + 1]
  BY <1>1, HeadTailProperties
<1>3. ASSUME NEW i \in 1..Len(Tail(q)) PROVE Tail(q)[i] = (p + 1) + i
  <2>1. i + 1 \in 1..Len(q) /\ i \in Nat
    BY <1>1, <1>2
  <2>2. q[i + 1] = p + (i + 1)
    BY <2>1 DEF HoldsFrom
  <2> QED
    BY <1>1, <1>2, <2>1, <2>2
<1> QED
  BY <1>1, <1>2, <1>3 DEF HoldsFrom

-----------------------------------------------------------------------------
LEMMA InitIInv == Init => IInv
BY MaxEventsAssumption
   DEF Init, IInv, TypeOK, MainPCs, WorkerPCs, Owned, MainInside, WorkerInside,
       InHand, Consecutive, Added, Popped, FreshCopies, EventNumber, SawEvent,
       NeverPopsEmpty

LEMMA NextIInv == IInv /\ [Next]_vars => IInv'
<1> SUFFICES ASSUME IInv, [Next]_vars PROVE IInv'
  OBVIOUS
<1> USE MaxEventsAssumption
    DEF IInv, TypeOK, MainPCs, WorkerPCs, Owned, MainInside, WorkerInside,
        InHand, Consecutive, Added, Popped, FreshCopies, EventNumber, SawEvent,
        NeverPopsEmpty, mainVars, workerVars
<1>1. CASE Service
  BY <1>1 DEF Service
<1>2. CASE MainLock
  BY <1>2 DEF MainLock
<1>3. CASE EmplaceRead
  BY <1>3 DEF EmplaceRead
<1>4. CASE EmplaceWrite
  <2>1. mainCopy = queue /\ queue' = Append(queue, received)
    BY <1>4 DEF EmplaceWrite
  <2>2. HoldsFrom(queue, Popped, received - 1) /\ received \in Nat /\ received > 0
    BY <1>4 DEF EmplaceWrite, HoldsFrom
  <2>3. HoldsFrom(queue', Popped, received) /\ queue' # << >>
    BY <2>1, <2>2, AppendNext
  <2> QED
    BY <1>4, <2>1, <2>3 DEF EmplaceWrite, HoldsFrom
<1>5. CASE MainUnlock
  BY <1>5 DEF MainUnlock
<1>6. CASE SeesEmpty
  BY <1>6 DEF SeesEmpty, EmptyMayReturn, vars
<1>7. CASE SeesEvent
  BY <1>7 DEF SeesEvent, EmptyMayReturn
<1>8. CASE WorkerLock
  BY <1>8 DEF WorkerLock
<1>9. CASE Front
  <2>1. HoldsFrom(queue, lastHandled, Added)
    BY <1>9 DEF Front, HoldsFrom
  <2>2. event' = queue[1] /\ event' = lastHandled + 1
    BY <1>9, <2>1, HeadIsNext DEF Front
  <2>3. /\ workerPC = "front" /\ workerPC' = "pop" /\ queue # << >>
        /\ workerCopy' = queue
        /\ UNCHANGED <<side, received, mainPC, mainCopy, queue, mutex, lastHandled>>
    BY <1>9 DEF Front
  <2>4. TypeOK'
    BY <2>2, <2>3
  <2>5. Consecutive' /\ FreshCopies'
    BY <2>2, <2>3
  <2>6. Owned' /\ InHand' /\ EventNumber' /\ SawEvent'
    BY <2>3
  <2> QED
    BY <2>4, <2>5, <2>6
<1>10. CASE Pop
  <2>1. HoldsFrom(queue, lastHandled, Added) /\ queue # << >>
    BY <1>10 DEF Pop, HoldsFrom
  <2>2. event = lastHandled + 1
    BY <1>10, <2>1, HeadIsNext DEF Pop
  <2>3. queue' = Tail(queue)
    BY <1>10 DEF Pop
  <2>4. HoldsFrom(queue', event, Added)
    BY <2>1, <2>2, <2>3, TailDropsNext
  <2> QED
    BY <1>10, <2>2, <2>4 DEF Pop, AfterPop, HoldsFrom
<1>11. CASE ServerUnlock
  BY <1>11 DEF ServerUnlock
<1>12. CASE ServerHandle
  BY <1>12 DEF ServerHandle
<1>13. CASE ClientHandle
  BY <1>13 DEF ClientHandle
<1>14. CASE ClientUnlock
  BY <1>14 DEF ClientUnlock
<1>15. CASE UNCHANGED vars
  BY <1>15 DEF vars
<1> QED
  BY <1>1, <1>2, <1>3, <1>4, <1>5, <1>6, <1>7, <1>8, <1>9, <1>10, <1>11, <1>12, <1>13, <1>14, <1>15 DEF Next, Add, Worker

-----------------------------------------------------------------------------
(* IInv holds in every reachable state, for every bound on the events.      *)
THEOREM Invariance == Spec => []IInv
BY InitIInv, NextIInv, PTL DEF Spec

(* The main loop and the network thread are never both inside the critical  *)
(* sections that s_network.cpp and c_network.cpp guard with the event mutex.*)
THEOREM Exclusion == Spec => []MutualExclusion
<1>1. IInv => MutualExclusion
  BY DEF IInv, TypeOK, Owned, MutualExclusion
<1> QED
  BY <1>1, Invariance, PTL

(* front() is never called on an empty queue, although empty() is asked     *)
(* without the mutex.                                                       *)
THEOREM NoEmptyPop == Spec => []NeverPopsEmpty
<1>1. IInv => NeverPopsEmpty
  BY DEF IInv, SawEvent
<1> QED
  BY <1>1, Invariance, PTL

(* Every event that the main loop receives is handled at most once and in   *)
(* the order received: the queue implements EventFifo's safety part.        *)
THEOREM ImplementsFifo == Spec => Fifo!Init /\ [][Fifo!Next]_Fifo!fifoVars
<1>1. Init => Fifo!Init
  BY DEF Init, Fifo!Init
<1>2. IInv /\ [Next]_vars => [Fifo!Next]_Fifo!fifoVars
  <2> SUFFICES ASSUME IInv, [Next]_vars PROVE [Fifo!Next]_Fifo!fifoVars
    OBVIOUS
  <2> USE DEF Fifo!fifoVars, Fifo!Next, Fifo!Receive, Fifo!Handle
  <2>1. CASE Service
    BY <2>1 DEF Service, workerVars
  <2>2. ASSUME workerPC = "handle" PROVE event = lastHandled + 1 /\ event <= received
    BY <2>2 DEF IInv, TypeOK, EventNumber, Consecutive, Added, Popped, InHand
  <2>3. CASE ServerHandle
    BY <2>2, <2>3 DEF ServerHandle, mainVars, IInv, TypeOK
  <2>4. CASE ClientHandle
    BY <2>2, <2>4 DEF ClientHandle, mainVars, IInv, TypeOK
  <2>5. ASSUME Add \/ (Worker /\ ~ServerHandle /\ ~ClientHandle) \/ UNCHANGED vars
        PROVE  UNCHANGED <<received, lastHandled>>
    BY <2>5 DEF Add, Worker, MainLock, EmplaceRead, EmplaceWrite, MainUnlock,
         SeesEmpty, SeesEvent, WorkerLock, Front, Pop, ServerUnlock,
         ClientUnlock, mainVars, workerVars, vars
  <2> QED
    BY <2>1, <2>3, <2>4, <2>5 DEF Next, Worker
<1> QED
  BY <1>1, <1>2, Invariance, PTL DEF Spec
=============================================================================
