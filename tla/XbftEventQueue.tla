-------------------------- MODULE XbftEventQueue --------------------------
(***************************************************************************)
(* The bounded queues between the threads of the sample,                   *)
(* src/test/sample/common/EventQueue.h. The values do not matter, only how  *)
(* many there are. Each queue has one consumer, which looks for a value for *)
(* a limited time, and any number of producers, which wait for room without *)
(* a limit. An action holds the queue's mutex from its first line to its    *)
(* last or to the wait.                                                    *)
(***************************************************************************)
EXTENDS Integers, FiniteSets

CONSTANTS
  Queue,      \* the queues
  Producer,   \* the threads that push
  Capacity    \* m_capacity of each queue

ASSUME QueueAssumption ==
  /\ IsFiniteSet(Producer)
  /\ Capacity \in [Queue -> Nat \ {0}]

\* size: m_size; asleep: who waits on m_notifyPut; woken: who was notified and
\* has not looked at the queue again yet.
VARIABLE queue

EventQueue == [size : Nat, asleep : SUBSET Producer, woken : SUBSET Producer]

QueueTypeOK ==
  /\ queue \in [Queue -> EventQueue]
  /\ \A k \in Queue : queue[k].size <= Capacity[k]

QueueInit == queue = [k \in Queue |-> [size |-> 0, asleep |-> {}, woken |-> {}]]

\* Mutant: one value too many.
HasRoomForOneMore(k) == queue[k].size <= Capacity[k]

HasRoom(k) == queue[k].size < Capacity[k]

\* Push finds room. A thread that has been asleep checks again when it is woken.
Put(k, p) ==
  /\ p \notin queue[k].asleep
  /\ HasRoom(k)
  /\ queue' = [queue EXCEPT ![k].size = @ + 1, ![k].woken = @ \ {p}]

\* Push finds no room, and waits until it is notified.
Wait(k, p) ==
  /\ p \notin queue[k].asleep
  /\ ~ HasRoom(k)
  /\ queue' = [queue EXCEPT ![k].asleep = @ \cup {p}, ![k].woken = @ \ {p}]

\* A condition variable may wake a thread that nobody has notified.
SpuriousWakeup(k, p) ==
  /\ p \in queue[k].asleep
  /\ queue' = [queue EXCEPT ![k].asleep = @ \ {p}]

\* Mutant: TryPop notifies a producer only when the queue was full.
NotifyPutIfFull(k, q) ==
  IF q.asleep = {} \/ q.size < Capacity[k] - 1
  THEN {q}
  ELSE {[q EXCEPT !.asleep = @ \ {p}, !.woken = @ \cup {p}] : p \in q.asleep}

\* notify_one: what becomes of the state q of queue k, which wakes one of the sleepers.
NotifyPut(k, q) ==
  IF q.asleep = {}
  THEN {q}
  ELSE {[q EXCEPT !.asleep = @ \ {p}, !.woken = @ \cup {p}] : p \in q.asleep}

TryPop(k) ==
  /\ queue[k].size > 0
  /\ \E q \in NotifyPut(k, [queue[k] EXCEPT !.size = @ - 1]) :
       queue' = [queue EXCEPT ![k] = q]

\* Mutant: the consumer waits for a value without a limit (Pop).
NeverGivesUp(k) == FALSE

\* TryPop's time is up and there is nothing.
GivesUp(k) == queue[k].size = 0

QueueNext ==
  \E k \in Queue :
    \/ TryPop(k)
    \/ \E p \in Producer : Put(k, p) \/ Wait(k, p) \/ SpuriousWakeup(k, p)

QueueSpec == QueueInit /\ [][QueueNext]_queue

-----------------------------------------------------------------------------
(* Properties                                                              *)

\* While a producer sleeps, every free place has been announced to another one
\* that is about to look: EventQueue.h:61 notifies one thread for every value
\* popped, so no producer sleeps on beside a queue with room.
NoLostWakeup ==
  \A k \in Queue :
    queue[k].asleep # {} => Capacity[k] - queue[k].size <= Cardinality(queue[k].woken)
=============================================================================
