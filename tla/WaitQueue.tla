------------------------------ MODULE WaitQueue ------------------------------
(***************************************************************************)
(* The bounded queue a demand pool falls through to when it has no lane to *)
(* give (omega-core/src/queue.rs).                                         *)
(*                                                                         *)
(* The code's queue is two things that know nothing of each other: a deque *)
(* of unit tickets, of which only the length can ever matter, and a        *)
(* tokio Notify.  Notify.notify_waiters() wakes the tasks registered at    *)
(* that moment and stores no permit: a task that registers later sleeps    *)
(* until the next call.                                                    *)
(***************************************************************************)
EXTENDS Naturals, FiniteSets

CONSTANTS Requests,  \* the tasks that may wait: one slot per concurrent call of acquire
          QueueMax   \* the limit the queue was built with

ASSUME QueueAssumption == /\ IsFiniteSet(Requests)
                          /\ QueueMax \in Nat

VARIABLES tickets,   \* the length of the deque of tickets
          waiters    \* the tasks registered with the Notify and not yet woken

queueVars == <<tickets, waiters>>

QueueTypeOK == /\ tickets \in 0..QueueMax
               /\ waiters \subseteq Requests

QueueInit == /\ tickets = 0
             /\ waiters = {}

-----------------------------------------------------------------------------
QueueFull == tickets >= QueueMax

(* A bug the checks must notice: the limit is not looked at.                *)
TryEnqueueUnbounded == tickets' = tickets + 1

(* The accepting half of try_enqueue; the refusing half is QueueFull.       *)
TryEnqueue == /\ ~QueueFull
              /\ tickets' = tickets + 1

(* pop_front: a pop of an empty deque does nothing.                         *)
RemoveTicket == tickets' = IF tickets = 0 THEN 0 ELSE tickets - 1

WaitForSlot(r) == waiters' = waiters \cup {r}

(* The future returned by wait_for_slot is dropped before it was woken.     *)
StopWaiting(r) == waiters' = waiters \ {r}

(* Every registered task becomes runnable; nothing is remembered.           *)
NotifySlotAvailable == waiters' = {}
=============================================================================
