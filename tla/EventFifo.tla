------------------------------ MODULE EventFifo ------------------------------
(***************************************************************************)
(* What the queue between a main loop and its network thread promises,     *)
(* with no queue, lock or thread in it: the events that enet_host_service  *)
(* returns, numbered in the order it returns them, are handled once each   *)
(* and in that order.  EventQueue implements it (EventQueue!Fifo).         *)
(***************************************************************************)
EXTENDS Naturals

VARIABLES
    received,    \* events the main loop has got from enet_host_service
    lastHandled  \* number of the last event handled, 0 before the first

fifoVars == <<received, lastHandled>>

Init == received = 0 /\ lastHandled = 0

Receive == received' = received + 1 /\ UNCHANGED lastHandled

\* The next event to be handled is the one after the last, never an older one
\* (handled twice), a later one (a lost event) or one that was not received.
Handle == /\ lastHandled < received
          /\ lastHandled' = lastHandled + 1
          /\ UNCHANGED received

Next == Receive \/ Handle

Spec == Init /\ [][Next]_fifoVars /\ WF_fifoVars(Handle)
==============================================================================
