------------------------- MODULE XbftSample_proofs -------------------------
(***************************************************************************)
(* What the threads of the sample application, their queues and timers     *)
(* keep: no queue loses a wakeup, whatever its capacity and however many    *)
(* producers there are; Stop of a timer leaves nothing behind; the sample's *)
(* threads use both as XbftEventQueue and XbftTimer say, and main frees     *)
(* nothing that a thread still uses.                                       *)
(***************************************************************************)
EXTENDS XbftSample, FiniteSetTheorems, TLAPS

-----------------------------------------------------------------------------
(* Queues                                                                  *)

\* A producer is not asleep and woken at once.
AsleepOrWoken == \A k \in Queue : queue[k].asleep \cap queue[k].woken = {}

QInv == QueueTypeOK /\ AsleepOrWoken /\ NoLostWakeup

\* What the invariant says of one queue with the state q.
Good(k, q) ==
  /\ q \in EventQueue
  /\ q.size <= Capacity[k]
  /\ q.asleep \cap q.woken = {}
  /\ q.asleep # {} => Capacity[k] - q.size <= Cardinality(q.woken)

\* The invariant is the same of each queue.
LEMMA QInvIsGood ==
  ASSUME QInv, NEW k \in Queue
  PROVE  Good(k, queue[k])
BY DEF QInv, QueueTypeOK, AsleepOrWoken, NoLostWakeup, Good

\* A step that leaves one queue good keeps the invariant.
LEMMA OneQueue ==
  ASSUME QInv, NEW k \in Queue, NEW q, Good(k, q), queue' = [queue EXCEPT ![k] = q]
  PROVE  QInv'
<1>1. queue \in [Queue -> EventQueue]
  BY DEF QInv, QueueTypeOK
<1>2. queue' \in [Queue -> EventQueue]
  BY <1>1 DEF Good
<1>3. ASSUME NEW j \in Queue PROVE Good(j, queue'[j])
  <2>1. CASE j = k
    BY <2>1, <1>1
  <2>2. CASE j # k
    BY <2>2, <1>1, QInvIsGood
  <2> QED BY <2>1, <2>2
<1> QED
  BY <1>2, <1>3 DEF QInv, QueueTypeOK, AsleepOrWoken, NoLostWakeup, Good

\* Sets of producers are finite, and lose at most one with one.
LEMMA WithoutOne ==
  ASSUME NEW S \in SUBSET Producer, NEW p
  PROVE  /\ Cardinality(S) \in Nat
         /\ Cardinality(S \ {p}) \in Nat
         /\ Cardinality(S \ {p}) >= Cardinality(S) - 1
<1>1. IsFiniteSet(S)
  BY QueueAssumption, FS_Subset
<1>2. Cardinality(S) \in Nat
  BY <1>1, FS_CardinalityType
<1>3. CASE p \in S
  <2>1. Cardinality(S \ {p}) = Cardinality(S) - 1
    BY <1>1, <1>3, FS_RemoveElement
  <2>2. Cardinality(S) > 0
    BY <1>1, <1>3, <1>2, FS_EmptySet
  <2> QED BY <2>1, <2>2, <1>2
<1>4. CASE p \notin S
  <2>1. S \ {p} = S
    BY <1>4
  <2>2. Cardinality(S) >= Cardinality(S) - 1
    BY <1>2
  <2> QED BY <2>1, <2>2, <1>2, Zenon
<1> QED BY <1>3, <1>4

\* Push keeps the invariant: who fills a place was woken for it, or took it
\* from nobody.
LEMMA PutKeeps ==
  ASSUME QInv, NEW k \in Queue, NEW p \in Producer, Put(k, p)
  PROVE  QInv'
<1> DEFINE q == queue[k]
           r == [q EXCEPT !.size = @ + 1, !.woken = @ \ {p}]
<1>1. Good(k, q)
  BY QInvIsGood
<1>2. q.size < Capacity[k] /\ queue' = [queue EXCEPT ![k] = r]
  BY DEF Put, HasRoom
<1>3. Capacity[k] \in Nat
  BY QueueAssumption
<1>4. q \in EventQueue
  BY <1>1 DEF Good
<1>6. q.size \in Nat /\ q.woken \in SUBSET Producer
  BY <1>4 DEF EventQueue
<1>5. r \in EventQueue /\ r.size = q.size + 1 /\ r.asleep = q.asleep /\ r.woken = q.woken \ {p}
  <2> DEFINE n == q.size + 1
             r1 == [q EXCEPT !.size = n]
  <2>1. n \in Nat
    BY <1>6
  <2>2. r = [r1 EXCEPT !.woken = q.woken \ {p}]
    BY <1>4 DEF EventQueue
  <2> HIDE DEF n, q
  <2>3. r1 \in EventQueue /\ r1.size = n /\ r1.asleep = q.asleep /\ r1.woken = q.woken
    BY <2>1, <1>4 DEF EventQueue
  <2> HIDE DEF r1, r
  <2>4. r \in EventQueue /\ r.size = n /\ r.asleep = q.asleep /\ r.woken = q.woken \ {p}
    BY <2>2, <2>3 DEF EventQueue
  <2> QED BY <2>4 DEF n
<1>7. Cardinality(q.woken) \in Nat /\ Cardinality(q.woken \ {p}) \in Nat
      /\ Cardinality(q.woken \ {p}) >= Cardinality(q.woken) - 1
  BY <1>6, WithoutOne
<1> HIDE DEF r, q
<1>8. r.asleep # {} => Capacity[k] - r.size <= Cardinality(r.woken)
  BY <1>1, <1>3, <1>5, <1>6, <1>7 DEF Good
<1>9. Good(k, r)
  BY <1>1, <1>2, <1>3, <1>5, <1>6, <1>8 DEF Good
<1> QED BY <1>2, <1>9, OneQueue

\* Who goes to sleep does so beside a full queue.
LEMMA WaitKeeps ==
  ASSUME QInv, NEW k \in Queue, NEW p \in Producer, Wait(k, p)
  PROVE  QInv'
<1> DEFINE q == queue[k]
           r == [q EXCEPT !.asleep = @ \cup {p}, !.woken = @ \ {p}]
<1>1. Good(k, q)
  BY QInvIsGood
<1>2. ~ (q.size < Capacity[k]) /\ queue' = [queue EXCEPT ![k] = r]
  BY DEF Wait, HasRoom
<1>3. Capacity[k] \in Nat
  BY QueueAssumption
<1>4. q \in EventQueue
  BY <1>1 DEF Good
<1>5. r \in EventQueue /\ r.size = q.size /\ r.asleep = q.asleep \cup {p} /\ r.woken = q.woken \ {p}
  BY <1>4 DEF EventQueue
<1>6. q.size \in Nat /\ q.woken \in SUBSET Producer
  BY <1>4 DEF EventQueue
<1>7. Cardinality(q.woken \ {p}) \in Nat
  BY <1>6, WithoutOne
<1> HIDE DEF r, q
<1>8. Capacity[k] - r.size <= Cardinality(r.woken)
  BY <1>1, <1>2, <1>3, <1>5, <1>6, <1>7 DEF Good
<1>9. Good(k, r)
  BY <1>1, <1>2, <1>3, <1>5, <1>6, <1>8 DEF Good
<1> QED BY <1>2, <1>9, OneQueue

\* A wakeup out of nothing leaves fewer asleep.
LEMMA SpuriousKeeps ==
  ASSUME QInv, NEW k \in Queue, NEW p \in Producer, SpuriousWakeup(k, p)
  PROVE  QInv'
<1> DEFINE q == queue[k]
           r == [q EXCEPT !.asleep = @ \ {p}]
<1>1. Good(k, q)
  BY QInvIsGood
<1>2. queue' = [queue EXCEPT ![k] = r]
  BY DEF SpuriousWakeup
<1>3. r \in EventQueue /\ r.size = q.size /\ r.asleep = q.asleep \ {p} /\ r.woken = q.woken
  BY <1>1 DEF EventQueue, Good
<1> HIDE DEF r, q
<1>4. Good(k, r)
  BY <1>1, <1>3 DEF Good
<1> QED BY <1>2, <1>4, OneQueue

\* Each place that becomes free wakes one sleeper, if there is any.
LEMMA TryPopKeeps ==
  ASSUME QInv, NEW k \in Queue, TryPop(k)
  PROVE  QInv'
<1> DEFINE q == queue[k]
           s == [q EXCEPT !.size = @ - 1]
<1>1. Good(k, q)
  BY QInvIsGood
<1>2. q.size > 0
  BY DEF TryPop
<1>3. PICK r \in NotifyPut(k, s) : queue' = [queue EXCEPT ![k] = r]
  BY DEF TryPop
<1>4. Capacity[k] \in Nat
  BY QueueAssumption
<1>5. q \in EventQueue /\ q.size \in Nat /\ q.woken \in SUBSET Producer
  BY <1>1 DEF Good, EventQueue
<1>6. s \in EventQueue /\ s.size = q.size - 1 /\ s.asleep = q.asleep /\ s.woken = q.woken
  BY <1>2, <1>5 DEF EventQueue
<1> HIDE DEF q, s
<1>7. CASE q.asleep = {}
  <2>1. r = s
    BY <1>3, <1>6, <1>7 DEF NotifyPut
  <2>2. Good(k, r)
    BY <2>1, <1>1, <1>4, <1>5, <1>6, <1>7 DEF Good
  <2> QED BY <2>2, <1>3, OneQueue
<1>8. CASE q.asleep # {}
  <2>1. PICK p \in s.asleep : r = [s EXCEPT !.asleep = @ \ {p}, !.woken = @ \cup {p}]
    BY <1>3, <1>6, <1>8 DEF NotifyPut
  <2>2. p \in Producer /\ p \notin q.woken
    BY <2>1, <1>1, <1>6 DEF Good, EventQueue
  <2>3. r \in EventQueue /\ r.size = q.size - 1 /\ r.asleep = q.asleep \ {p} /\ r.woken = q.woken \cup {p}
    BY <2>1, <2>2, <1>6 DEF EventQueue
  <2>4. IsFiniteSet(q.woken)
    BY <1>5, QueueAssumption, FS_Subset
  <2>5. Cardinality(q.woken) \in Nat /\ Cardinality(r.woken) = Cardinality(q.woken) + 1
    BY <2>2, <2>3, <2>4, FS_CardinalityType, FS_AddElement
  <2>6. Capacity[k] - r.size <= Cardinality(r.woken)
    BY <2>3, <2>5, <1>1, <1>4, <1>5, <1>8 DEF Good
  <2>7. Good(k, r)
    BY <2>3, <2>6, <1>1, <1>4, <1>5 DEF Good
  <2> QED BY <2>7, <1>3, OneQueue
<1> QED BY <1>7, <1>8

\* The empty queues are good.
LEMMA QInvInit == QueueInit => QInv
<1> SUFFICES ASSUME QueueInit PROVE QInv
  OBVIOUS
<1> USE DEF QueueInit
<1>1. QueueTypeOK
  BY QueueAssumption DEF QueueTypeOK, EventQueue
<1>2. AsleepOrWoken /\ NoLostWakeup
  BY DEF AsleepOrWoken, NoLostWakeup
<1> QED BY <1>1, <1>2 DEF QInv

\* Every step keeps the invariant.
LEMMA QInvNext == QInv /\ [QueueNext]_queue => QInv'
<1> SUFFICES ASSUME QInv, [QueueNext]_queue PROVE QInv'
  OBVIOUS
<1>1. CASE UNCHANGED queue
  BY <1>1 DEF QInv, QueueTypeOK, AsleepOrWoken, NoLostWakeup
<1>2. CASE QueueNext
  <2>1. PICK k \in Queue :
          \/ TryPop(k)
          \/ \E p \in Producer : Put(k, p) \/ Wait(k, p) \/ SpuriousWakeup(k, p)
    BY <1>2 DEF QueueNext
  <2> QED BY <2>1, TryPopKeeps, PutKeeps, WaitKeeps, SpuriousKeeps
<1> QED BY <1>1, <1>2

\* EventQueue.h:61: no producer sleeps on beside a queue with room that nobody
\* else is about to look at, for every capacity and any number of threads.
THEOREM NoWakeupLost == QueueSpec => []NoLostWakeup
<1>1. QInv => NoLostWakeup
  BY DEF QInv
<1> QED BY <1>1, QInvInit, QInvNext, PTL DEF QueueSpec

-----------------------------------------------------------------------------
(* Timers                                                                  *)

TInv == TimerTypeOK /\ ThreadsStoppable /\ StopLeavesNothing

\* What the invariant says of one timer b.
Sound(b) ==
  /\ b \in TimerBase
  /\ b.threadVec # {} => b.isRun \/ b.stopping
  /\ \A t \in TimerThread : t \notin b.threadVec => b.pc[t] \in {"none", "end"}

\* The invariant is the same of each timer.
LEMMA TInvIsSound ==
  ASSUME TInv, NEW k \in Timer
  PROVE  Sound(timer[k])
BY DEF TInv, TimerTypeOK, ThreadsStoppable, StopLeavesNothing, Sound

\* A step that leaves one timer sound keeps the invariant.
LEMMA OneTimer ==
  ASSUME TInv, NEW k \in Timer, NEW b, Sound(b), timer' = [timer EXCEPT ![k] = b]
  PROVE  TInv'
<1>1. timer \in [Timer -> TimerBase]
  BY DEF TInv, TimerTypeOK
<1>2. timer' \in [Timer -> TimerBase]
  BY <1>1 DEF Sound
<1>3. ASSUME NEW j \in Timer PROVE Sound(timer'[j])
  <2>1. CASE j = k
    BY <2>1, <1>1
  <2>2. CASE j # k
    BY <2>2, <1>1, TInvIsSound
  <2> QED BY <2>1, <2>2
<1> QED
  BY <1>2, <1>3 DEF TInv, TimerTypeOK, ThreadsStoppable, StopLeavesNothing, Sound

\* SetTimeOut sets the flag again before there is a thread.
LEMMA SetTimeOutKeeps ==
  ASSUME TInv, NEW k \in Timer, NEW t \in TimerThread, SetTimeOut(k, t)
  PROVE  TInv'
<1> DEFINE b == timer[k]
           c == Started(b, t)
<1>1. Sound(b)
  BY TInvIsSound
<1>2. timer' = [timer EXCEPT ![k] = c]
  BY DEF SetTimeOut
<1> HIDE DEF b
<1>3. b \in TimerBase /\ b.pc \in [TimerThread -> TimerPc]
  BY <1>1 DEF Sound, TimerBase
<1> DEFINE p == [b.pc EXCEPT ![t] = "sleep"]
<1>4. p \in [TimerThread -> TimerPc] /\ \A u \in TimerThread : u # t => p[u] = b.pc[u]
  BY <1>3 DEF TimerPc
<1>5. c = [b EXCEPT !.isRun = TRUE, !.threadVec = @ \cup {t}, !.pc = p]
  BY DEF Started
<1> HIDE DEF c, p
<1>6. c \in TimerBase /\ c.isRun = TRUE /\ c.threadVec = b.threadVec \cup {t} /\ c.pc = p
  BY <1>3, <1>4, <1>5 DEF TimerBase
<1>7. Sound(c)
  BY <1>1, <1>4, <1>6 DEF Sound
<1> QED BY <1>2, <1>7, OneTimer

\* A thread moves on only while m_threadVec holds it.
LEMMA MoveKeeps ==
  ASSUME TInv, NEW k \in Timer, NEW t \in TimerThread, NEW to \in TimerPc,
         timer[k].pc[t] \notin {"none", "end"}, MoveTo(k, t, to)
  PROVE  TInv'
<1> DEFINE b == timer[k]
           p == [b.pc EXCEPT ![t] = to]
           c == [b EXCEPT !.pc = p]
<1>1. Sound(b)
  BY TInvIsSound
<1>2. timer' = [timer EXCEPT ![k] = c]
  BY DEF MoveTo
<1>3. b.pc[t] \notin {"none", "end"}
  OBVIOUS
<1> HIDE DEF b
<1>4. b \in TimerBase /\ b.pc \in [TimerThread -> TimerPc]
  BY <1>1 DEF Sound, TimerBase
<1>5. p \in [TimerThread -> TimerPc] /\ \A u \in TimerThread : u # t => p[u] = b.pc[u]
  BY <1>4
<1> HIDE DEF p
<1>6. c \in TimerBase /\ c.isRun = b.isRun /\ c.threadVec = b.threadVec
      /\ c.stopping = b.stopping /\ c.pc = p
  BY <1>4, <1>5 DEF TimerBase
<1>7. t \in b.threadVec
  BY <1>1, <1>3 DEF Sound
<1> HIDE DEF c
<1>8. Sound(c)
  BY <1>1, <1>5, <1>6, <1>7 DEF Sound
<1> QED BY <1>2, <1>8, OneTimer

\* Stop clears the flag of a timer it then empties.
LEMMA BeginStopKeeps ==
  ASSUME TInv, NEW k \in Timer, BeginStop(k)
  PROVE  TInv'
<1> DEFINE b == timer[k]
           c == [b EXCEPT !.isRun = FALSE, !.stopping = TRUE]
<1>1. Sound(b)
  BY TInvIsSound
<1>2. timer' = [timer EXCEPT ![k] = c]
  BY DEF BeginStop
<1> HIDE DEF b
<1>3. c \in TimerBase /\ c.stopping = TRUE /\ c.threadVec = b.threadVec /\ c.pc = b.pc
  BY <1>1 DEF Sound, TimerBase
<1> HIDE DEF c
<1>4. Sound(c)
  BY <1>1, <1>3 DEF Sound
<1> QED BY <1>2, <1>4, OneTimer

\* Every thread that Stop drops has been joined.
LEMMA EndStopKeeps ==
  ASSUME TInv, NEW k \in Timer, EndStop(k)
  PROVE  TInv'
<1> DEFINE b == timer[k]
           c == [b EXCEPT !.threadVec = {}, !.stopping = FALSE]
<1>1. Sound(b)
  BY TInvIsSound
<1>2. timer' = [timer EXCEPT ![k] = c] /\ \A t \in b.threadVec : b.pc[t] = "end"
  BY DEF EndStop, Joined
<1> HIDE DEF b
<1>3. c \in TimerBase /\ c.threadVec = {} /\ c.pc = b.pc
  BY <1>1 DEF Sound, TimerBase
<1> HIDE DEF c
<1>4. Sound(c)
  BY <1>1, <1>2, <1>3 DEF Sound
<1> QED BY <1>2, <1>4, OneTimer

\* A timer that was never started is sound.
LEMMA TInvInit == TimerInit => TInv
BY DEF TimerInit, TInv, TimerTypeOK, ThreadsStoppable, StopLeavesNothing, TimerBase, TimerPc

\* Every step keeps the invariant.
LEMMA TInvNext == TInv /\ [TimerNext]_timer => TInv'
<1> SUFFICES ASSUME TInv, [TimerNext]_timer PROVE TInv'
  OBVIOUS
<1>1. CASE UNCHANGED timer
  BY <1>1 DEF TInv, TimerTypeOK, ThreadsStoppable, StopLeavesNothing
<1>2. CASE TimerNext
  <2>1. PICK k \in Timer :
          \/ BeginStop(k)
          \/ EndStop(k)
          \/ \E t \in TimerThread : SetTimeOut(k, t) \/ WakeUp(k, t) \/ Return(k, t)
    BY <1>2 DEF TimerNext
  <2>2. ASSUME NEW t \in TimerThread, WakeUp(k, t) PROVE TInv'
    BY <2>2, MoveKeeps DEF WakeUp, TimerPc
  <2>3. ASSUME NEW t \in TimerThread, Return(k, t) PROVE TInv'
    BY <2>3, MoveKeeps DEF Return, TimerPc
  <2> QED BY <2>1, <2>2, <2>3, BeginStopKeeps, EndStopKeeps, SetTimeOutKeeps
<1> QED BY <1>1, <1>2

\* Timer.h:47: when Stop has returned, no thread of the timer is left that could
\* call back, however often the timer was started before.
THEOREM NothingLeft == TimerSpec => []StopLeavesNothing
<1>1. TInv => StopLeavesNothing
  BY DEF TInv
<1> QED BY <1>1, TInvInit, TInvNext, PTL DEF TimerSpec

\* Timer.h:39: the destructor's Stop never finds a thread that it would not join,
\* since SetTimeOut sets m_isRun again (Timer.h:72, 97 and 123).
THEOREM DestructorJoins == TimerSpec => []ThreadsStoppable
<1>1. TInv => ThreadsStoppable
  BY DEF TInv
<1> QED BY <1>1, TInvInit, TInvNext, PTL DEF TimerSpec

-----------------------------------------------------------------------------
(* The sample: the inductive invariant                                     *)

\* A thread pushes from inside a handler or a callback.
PushesInside == \A p \in Producer : pushing[p] # NoQueue => Handling(p)

\* What main is about to do once it has joined the ledger's threads, once it has
\* stopped the ledger's timer, and once it has freed the engine.
StopsLedger == {"stopTimer", "stoppingTimer"}
LedgerStopped == {"joinRecv", "joinSend", "freeEngine", "freeingEngine", "freeNetwork", "end"}
EngineFreed == {"freeNetwork", "end"}

\* Whom main has not started has not begun.
NotBegun ==
  /\ main = "startNetwork" => pc["recvMsg"] = "none" /\ pc["sendMsg"] = "none"
  /\ main \in {"startNetwork", "startEngine", "startWorkers"} =>
       pc["dealConsensusData"] = "none" /\ pc["dealSyncData"] = "none"

\* Whom main has joined has ended.
JoinedEnded ==
  /\ main \in {"joinSyncData"} \cup StopsLedger \cup LedgerStopped => pc["dealConsensusData"] = "end"
  /\ main \in StopsLedger \cup LedgerStopped => pc["dealSyncData"] = "end"
  /\ main \in LedgerStopped \ {"joinRecv"} => pc["recvMsg"] = "end"

\* What main has stopped has no threads.
StoppedEmpty ==
  /\ main \in LedgerStopped => timer["m_timerLoop"].threadVec = {}
  /\ main \in EngineFreed => timer["mp_paceMaker"].threadVec = {}

SampleInv ==
  TypeOK /\ QInv /\ TInv /\ PushesInside /\ NotBegun /\ JoinedEnded /\ StoppedEmpty

-----------------------------------------------------------------------------
(* The steps                                                               *)

\* Main, the workers and the callbacks change a queue only as its actions do.
LEMMA QueueStep == SampleInv /\ [Next]_vars => [QueueNext]_queue
<1>. SUFFICES ASSUME SampleInv, [Next]_vars PROVE [QueueNext]_queue
  OBVIOUS
<1>1. CASE Signal \/ UNCHANGED vars
  BY <1>1 DEF Signal, vars
<1>2. CASE MainStep
  BY <1>2 DEF MainStep, StartNetwork, StartEngine, StartWorkers, StartTimer, SeeExitFlag, JoinWorker,
              Join, StopTimer, FreeNetwork, MainGoes
<1>3. ASSUME NEW w \in Worker, WorkerStep(w)
      PROVE  [QueueNext]_queue
  <2>1. Source[w] \in Queue \/ w = "recvMsg"
    BY SampleAssumption DEF Source, Worker
  <2>2. CASE w = "recvMsg"
    BY <1>3, <2>2 DEF WorkerStep, Receive
  <2>3. CASE w # "recvMsg"
    <3>1. CASE Take(w)
      BY <2>1, <2>3, <3>1 DEF Take, QueueNext
    <3>2. CASE TakeNothing(w) \/ Finish(w)
      BY <3>2 DEF TakeNothing, Finish
    <3>. QED  BY <1>3, <2>3, <3>1, <3>2 DEF WorkerStep
  <2>. QED  BY <2>2, <2>3
<1>4. ASSUME NEW p \in Producer, BeginPush(p) \/ EndPush(p) \/ WaitForRoom(p) \/ WakeForNothing(p)
      PROVE  [QueueNext]_queue
  <2>1. CASE BeginPush(p)
    BY <2>1 DEF BeginPush
  <2>2. CASE EndPush(p) \/ WaitForRoom(p) \/ WakeForNothing(p)
    <3>1. pushing[p] \in Queue
      BY <2>2 DEF SampleInv, TypeOK, EndPush, WaitForRoom, WakeForNothing
    <3>. QED  BY <2>2, <3>1 DEF EndPush, WaitForRoom, WakeForNothing, QueueNext
  <2>. QED  BY <1>4, <2>1, <2>2
<1>5. ASSUME NEW k \in Timer, TimerWakesUp(k) \/ CallbackReturns(k)
      PROVE  [QueueNext]_queue
  BY <1>5 DEF TimerWakesUp, CallbackReturns
<1>. QED  BY <1>1, <1>2, <1>3, <1>4, <1>5 DEF Next

\* Main and the timers' threads change a timer only as its actions do.
LEMMA TimerStep == SampleInv /\ [Next]_vars => [TimerNext]_timer
<1>. SUFFICES ASSUME SampleInv, [Next]_vars PROVE [TimerNext]_timer
  OBVIOUS
<1>0. "mp_paceMaker" \in Timer /\ "m_timerLoop" \in Timer /\ 1 \in TimerThread
  BY SampleAssumption
<1>1. CASE Signal \/ UNCHANGED vars
  BY <1>1 DEF Signal, vars
<1>2. CASE MainStep
  <2>1. CASE StartEngine \/ StartTimer
    BY <1>0, <2>1 DEF StartEngine, StartTimer, TimerNext
  <2>2. CASE StopTimer
    BY <1>0, <2>2 DEF StopTimer, TimerNext
  <2>3. CASE StartNetwork \/ StartWorkers \/ SeeExitFlag \/ JoinWorker \/ FreeNetwork
    BY <2>3 DEF StartNetwork, StartWorkers, SeeExitFlag, JoinWorker, Join, FreeNetwork
  <2>. QED  BY <1>2, <2>1, <2>2, <2>3 DEF MainStep
<1>3. ASSUME NEW w \in Worker, WorkerStep(w)
      PROVE  [TimerNext]_timer
  BY <1>3 DEF WorkerStep, Receive, Take, TakeNothing, Finish
<1>4. ASSUME NEW p \in Producer, BeginPush(p) \/ EndPush(p) \/ WaitForRoom(p) \/ WakeForNothing(p)
      PROVE  [TimerNext]_timer
  BY <1>4 DEF BeginPush, EndPush, WaitForRoom, WakeForNothing
<1>5. ASSUME NEW k \in Timer, TimerWakesUp(k) \/ CallbackReturns(k)
      PROVE  [TimerNext]_timer
  BY <1>0, <1>5 DEF TimerWakesUp, CallbackReturns, TimerNext
<1>. QED  BY <1>1, <1>2, <1>3, <1>4, <1>5 DEF Next

-----------------------------------------------------------------------------
(* The invariant                                                           *)

LocalTypeOK ==
  /\ exitFlag \in BOOLEAN
  /\ main \in MainPc
  /\ pc \in [Worker -> WorkerPc]
  /\ pushing \in [Producer -> Queue \cup {NoQueue}]

LEMMA InitSampleInv == Init => SampleInv
<1>. SUFFICES ASSUME Init PROVE SampleInv
  OBVIOUS
<1>1. QInv /\ TInv
  BY QInvInit, TInvInit DEF Init
<1>2. TypeOK
  BY <1>1 DEF QInv, TInv, Init, TypeOK, MainPc, WorkerPc
<1>3. PushesInside
  BY DEF Init, PushesInside
<1>4. NotBegun /\ JoinedEnded /\ StoppedEmpty
  BY DEF Init, NotBegun, JoinedEnded, StoppedEmpty, StopsLedger, LedgerStopped, EngineFreed, Worker
<1>. QED  BY <1>1, <1>2, <1>3, <1>4 DEF SampleInv

\* A step of a thread that is not main leaves alone what main relies on.
LEMMA NotMain ==
  ASSUME SampleInv, main' = main,
         \A w \in Worker : pc[w] \in {"none", "end"} => pc'[w] = pc[w],
         \A k \in Timer : timer'[k].threadVec = timer[k].threadVec
  PROVE  NotBegun' /\ JoinedEnded' /\ StoppedEmpty'
<1>1. "mp_paceMaker" \in Timer /\ "m_timerLoop" \in Timer
  BY SampleAssumption
<1>2. {"dealConsensusData", "dealSyncData", "recvMsg", "sendMsg"} \subseteq Worker
  BY DEF Worker
<1>3. NotBegun' /\ JoinedEnded'
  BY <1>2 DEF SampleInv, NotBegun, JoinedEnded
<1>4. StoppedEmpty'
  BY <1>1 DEF SampleInv, StoppedEmpty
<1>. QED  BY <1>3, <1>4

LEMMA Threads ==
  /\ Producer \ Timer = {"recvMsg", "dealConsensusData", "dealSyncData"}
  /\ Producer \ Timer \subseteq Worker
  /\ Timer \subseteq Producer /\ 1 \in TimerThread
  /\ "mp_paceMaker" \in Timer /\ "m_timerLoop" \in Timer
BY SampleAssumption DEF Worker

LEMMA WorkerKeeps ==
  ASSUME SampleInv, NEW w \in Worker, WorkerStep(w)
  PROVE  LocalTypeOK' /\ PushesInside' /\ NotBegun' /\ JoinedEnded' /\ StoppedEmpty'
<1>1. LocalTypeOK /\ PushesInside
  BY DEF SampleInv, TypeOK, LocalTypeOK
<1>2. /\ UNCHANGED <<timer, exitFlag, main>>
      /\ pc[w] \in {"get", "busy"}
      /\ \/ Loops(w) /\ pushing' = pushing /\ (pc[w] = "busy" => pushing[w] = NoQueue)
         \/ Handles(w) /\ pushing' = pushing
         \/ /\ Handles(w) /\ w = "recvMsg"
            /\ \E k \in {"m_recvMsgQueue", "m_recvSyncMsgQueue"} :
                 pushing' = [pushing EXCEPT !["recvMsg"] = k]
  BY DEF WorkerStep, Receive, Take, TakeNothing, Finish
<1>3. /\ pc' \in [Worker -> WorkerPc]
      /\ \A x \in Worker \ {w} : pc'[x] = pc[x]
      /\ Handles(w) => pc'[w] = "busy"
  BY <1>1, <1>2 DEF Loops, Handles, LocalTypeOK, WorkerPc
<1>4. /\ pushing' \in [Producer -> Queue \cup {NoQueue}]
      /\ \A p \in Producer \ {w} : pushing'[p] = pushing[p]
  BY <1>1, <1>2, SampleAssumption DEF LocalTypeOK
<1>5. LocalTypeOK'
  BY <1>1, <1>2, <1>3, <1>4 DEF LocalTypeOK
<1>6. PushesInside'
  <2>1. ASSUME NEW p \in Producer, p # w, pushing'[p] # NoQueue
        PROVE  Handling(p)'
    <3>1. Handling(p)
      BY <1>1, <1>4, <2>1 DEF PushesInside
    <3>. QED  BY <1>2, <1>3, <2>1, <3>1, Threads DEF Handling
  <2>2. ASSUME w \in Producer, pushing'[w] # NoQueue
        PROVE  Handling(w)'
    <3>1. w \notin Timer
      BY SampleAssumption DEF Worker
    <3>2. ~ (Loops(w) /\ pushing' = pushing /\ (pc[w] = "busy" => pushing[w] = NoQueue))
      BY <1>1, <2>2, <3>1 DEF PushesInside, Handling
    <3>. QED  BY <1>2, <1>3, <3>1, <3>2 DEF Handling
  <2>. QED  BY <2>1, <2>2 DEF PushesInside
<1>. QED  BY <1>2, <1>3, <1>5, <1>6, NotMain

LEMMA PushKeeps ==
  ASSUME SampleInv, NEW p \in Producer,
         BeginPush(p) \/ EndPush(p) \/ WaitForRoom(p) \/ WakeForNothing(p)
  PROVE  LocalTypeOK' /\ PushesInside' /\ NotBegun' /\ JoinedEnded' /\ StoppedEmpty'
<1>1. LocalTypeOK /\ PushesInside
  BY DEF SampleInv, TypeOK, LocalTypeOK
<1>2. UNCHANGED <<timer, exitFlag, main>>
  BY DEF BeginPush, EndPush, WaitForRoom, WakeForNothing
<1>3. CASE BeginPush(p)
  <2>1. pc' = pc /\ pushing' = [pushing EXCEPT ![p] = "m_sendMsgQueue"] /\ Handling(p)
    BY <1>3 DEF BeginPush
  <2>2. LocalTypeOK'
    BY <1>1, <1>2, <2>1, SampleAssumption DEF LocalTypeOK
  <2>3. PushesInside'
    BY <1>1, <1>2, <2>1 DEF LocalTypeOK, PushesInside, Handling
  <2>. QED  BY <1>2, <2>1, <2>2, <2>3, NotMain
<1>4. CASE EndPush(p)
  <2>1. /\ pushing[p] # NoQueue /\ Handling(p)
        /\ pushing' = [pushing EXCEPT ![p] = NoQueue]
        /\ IF p \in Timer THEN pc' = pc ELSE Loops(p)
    BY <1>1, <1>4 DEF EndPush, PushesInside
  <2>2. /\ pc' \in [Worker -> WorkerPc]
        /\ \A x \in Worker : x # p => pc'[x] = pc[x]
        /\ p \in Worker \ Timer => pc[p] = "busy"
        /\ p \in Timer => pc' = pc
    BY <1>1, <2>1, Threads DEF Loops, LocalTypeOK, WorkerPc, Handling
  <2>3. LocalTypeOK'
    BY <1>1, <1>2, <2>1, <2>2 DEF LocalTypeOK
  <2>4. PushesInside'
    BY <1>1, <1>2, <2>1, <2>2, Threads DEF LocalTypeOK, PushesInside, Handling
  <2>5. Worker \cap Timer = {}
    BY SampleAssumption DEF Worker
  <2>. QED  BY <1>2, <2>2, <2>3, <2>4, <2>5, NotMain
<1>5. CASE WaitForRoom(p) \/ WakeForNothing(p)
  <2>1. UNCHANGED <<pc, pushing>>
    BY <1>5 DEF WaitForRoom, WakeForNothing
  <2>2. LocalTypeOK' /\ PushesInside'
    BY <1>1, <1>2, <2>1 DEF LocalTypeOK, PushesInside, Handling
  <2>. QED  BY <1>2, <2>1, <2>2, NotMain
<1>. QED  BY <1>3, <1>4, <1>5

LEMMA TimerKeeps ==
  ASSUME SampleInv, NEW k \in Timer, TimerWakesUp(k) \/ CallbackReturns(k)
  PROVE  LocalTypeOK' /\ PushesInside' /\ NotBegun' /\ JoinedEnded' /\ StoppedEmpty'
<1>1. LocalTypeOK /\ PushesInside /\ timer \in [Timer -> TimerBase] /\ timer[k] \in TimerBase
  BY DEF SampleInv, TypeOK, LocalTypeOK, TimerTypeOK
<1>2. UNCHANGED <<exitFlag, main, pc, pushing>> /\ \E x : MoveTo(k, 1, x)
  BY DEF TimerWakesUp, CallbackReturns, WakeUp, Return
<1>3. /\ pushing[k] = NoQueue \/ timer[k].pc[1] # "call"
  BY DEF TimerWakesUp, CallbackReturns, WakeUp
<1>4. /\ \A j \in Timer : timer'[j].threadVec = timer[j].threadVec
      /\ \A j \in Timer \ {k} : timer'[j] = timer[j]
  BY <1>1, <1>2 DEF MoveTo, TimerBase
<1>5. LocalTypeOK'
  BY <1>1, <1>2 DEF LocalTypeOK
<1>6. pushing[k] = NoQueue
  BY <1>1, <1>3, Threads DEF PushesInside, Handling
<1>7. PushesInside'
  BY <1>1, <1>2, <1>4, <1>6 DEF PushesInside, Handling
<1>. QED  BY <1>2, <1>4, <1>5, <1>7, NotMain

\* Main begins two threads that have not begun.
LEMMA BeginKeeps ==
  ASSUME SampleInv, StartNetwork \/ StartWorkers
  PROVE  LocalTypeOK' /\ PushesInside' /\ NotBegun' /\ JoinedEnded' /\ StoppedEmpty'
<1>1. LocalTypeOK /\ PushesInside /\ NotBegun
  BY DEF SampleInv, TypeOK, LocalTypeOK
<1>2. UNCHANGED <<timer, exitFlag, pushing>>
  BY DEF StartNetwork, StartWorkers, MainGoes
<1>3. PICK ws : /\ Begin(ws)
                /\ \/ /\ main = "startNetwork" /\ main' = "startEngine"
                      /\ ws = {"recvMsg", "sendMsg"}
                   \/ /\ main = "startWorkers" /\ main' = "startTimer"
                      /\ ws = {"dealConsensusData", "dealSyncData"}
  BY DEF StartNetwork, StartWorkers, MainGoes
<1>4. /\ pc' \in [Worker -> WorkerPc]
      /\ \A w \in Worker \ ws : pc'[w] = pc[w]
      /\ \A w \in ws : pc[w] = "none"
  BY <1>1, <1>3 DEF Begin, LocalTypeOK, NotBegun, WorkerPc
<1>5. LocalTypeOK'
  BY <1>1, <1>2, <1>3, <1>4 DEF LocalTypeOK, MainPc
<1>6. PushesInside'
  BY <1>1, <1>2, <1>4, Threads DEF PushesInside, Handling
<1>7. NotBegun'
  BY <1>1, <1>3, <1>4 DEF NotBegun, Worker
<1>8. JoinedEnded' /\ StoppedEmpty'
  BY <1>3 DEF JoinedEnded, StoppedEmpty, StopsLedger, LedgerStopped, EngineFreed
<1>. QED  BY <1>5, <1>6, <1>7, <1>8

\* Main begins or stops a timer.
LEMMA MainTimerKeeps ==
  ASSUME SampleInv, StartEngine \/ StartTimer \/ StopTimer
  PROVE  LocalTypeOK' /\ PushesInside' /\ NotBegun' /\ JoinedEnded' /\ StoppedEmpty'
<1>1. /\ LocalTypeOK /\ PushesInside /\ NotBegun /\ JoinedEnded /\ StoppedEmpty
      /\ TInv /\ timer \in [Timer -> TimerBase]
  BY DEF SampleInv, TypeOK, LocalTypeOK, TInv, TimerTypeOK
<1>2. UNCHANGED <<exitFlag, pc, pushing>>
  BY DEF StartEngine, StartTimer, StopTimer, MainGoes
<1>3. PICK k \in Timer :
        \/ main = "startEngine" /\ main' = "startWorkers" /\ SetTimeOut(k, 1)
        \/ main = "startTimer" /\ main' = "running" /\ SetTimeOut(k, 1)
        \/ main = "stopTimer" /\ main' = "stoppingTimer" /\ BeginStop(k)
        \/ main = "stoppingTimer" /\ main' = "joinRecv" /\ k = "m_timerLoop" /\ EndStop(k)
        \/ main = "freeEngine" /\ main' = "freeingEngine" /\ k = "mp_paceMaker" /\ BeginStop(k)
        \/ main = "freeingEngine" /\ main' = "freeNetwork" /\ k = "mp_paceMaker" /\ EndStop(k)
  BY Threads DEF StartEngine, StartTimer, StopTimer, MainGoes
<1>4. /\ \A j \in Timer \ {k} : timer'[j] = timer[j]
      /\ \/ main \in {"startEngine", "startTimer"} /\ timer[k].pc[1] \in {"none", "end"}
         \/ /\ main \in {"stopTimer", "freeEngine"} /\ timer'[k].pc = timer[k].pc
            /\ timer'[k].threadVec = timer[k].threadVec
         \/ /\ main \in {"stoppingTimer", "freeingEngine"} /\ timer'[k].pc = timer[k].pc
            /\ timer'[k].threadVec = {}
  <2>1. timer[k] \in TimerBase /\ (1 \notin timer[k].threadVec => timer[k].pc[1] \in {"none", "end"})
    BY <1>1, Threads DEF TInv, StopLeavesNothing
  <2>2. CASE main \in {"startEngine", "startTimer"} /\ SetTimeOut(k, 1)
    BY <1>1, <2>1, <2>2 DEF SetTimeOut
  <2>3. CASE main \in {"stopTimer", "freeEngine"} /\ BeginStop(k)
    BY <1>1, <2>1, <2>3 DEF BeginStop, TimerBase
  <2>4. CASE main \in {"stoppingTimer", "freeingEngine"} /\ EndStop(k)
    BY <1>1, <2>1, <2>4 DEF EndStop, TimerBase
  <2>. QED  BY <1>3, <2>2, <2>3, <2>4
<1>5. LocalTypeOK'
  BY <1>1, <1>2, <1>3 DEF LocalTypeOK, MainPc
<1>6. PushesInside'
  BY <1>1, <1>2, <1>4 DEF PushesInside, Handling
<1>7. NotBegun'
  BY <1>1, <1>2, <1>3 DEF NotBegun
<1>8. JoinedEnded'
  BY <1>1, <1>2, <1>3 DEF JoinedEnded, StopsLedger, LedgerStopped
<1>9. StoppedEmpty'
  <2>1. CASE main \in {"startEngine", "startTimer"}
    BY <1>3, <2>1 DEF StoppedEmpty, LedgerStopped, EngineFreed
  <2>. QED  BY <1>1, <1>3, <1>4, <2>1, Threads DEF StoppedEmpty, LedgerStopped, EngineFreed
<1>. QED  BY <1>5, <1>6, <1>7, <1>8, <1>9

\* Main goes on once it sees the flag, has joined a thread or has freed the rest.
LEMMA MainGoesOnKeeps ==
  ASSUME SampleInv, SeeExitFlag \/ JoinWorker \/ FreeNetwork
  PROVE  LocalTypeOK' /\ PushesInside' /\ NotBegun' /\ JoinedEnded' /\ StoppedEmpty'
<1>1. /\ LocalTypeOK /\ PushesInside /\ NotBegun /\ JoinedEnded /\ StoppedEmpty
  BY DEF SampleInv, TypeOK, LocalTypeOK
<1>2. UNCHANGED <<timer, exitFlag, pc, pushing>>
  BY DEF SeeExitFlag, JoinWorker, Join, FreeNetwork, MainGoes
<1>3. \/ main = "running" /\ main' = "joinConsensusData"
      \/ main = "joinConsensusData" /\ main' = "joinSyncData" /\ pc["dealConsensusData"] = "end"
      \/ main = "joinSyncData" /\ main' = "stopTimer" /\ pc["dealSyncData"] = "end"
      \/ main = "joinRecv" /\ main' = "joinSend" /\ pc["recvMsg"] = "end"
      \/ main = "joinSend" /\ main' = "freeEngine"
      \/ main = "freeNetwork" /\ main' = "end"
  BY DEF SeeExitFlag, JoinWorker, Join, FreeNetwork, MainGoes
<1>4. LocalTypeOK' /\ PushesInside'
  BY <1>1, <1>2, <1>3 DEF LocalTypeOK, MainPc, PushesInside, Handling
<1>5. NotBegun' /\ JoinedEnded'
  BY <1>1, <1>2, <1>3 DEF NotBegun, JoinedEnded, StopsLedger, LedgerStopped
<1>6. StoppedEmpty'
  BY <1>1, <1>2, <1>3 DEF StoppedEmpty, LedgerStopped, EngineFreed
<1>. QED  BY <1>4, <1>5, <1>6

LEMMA NextKeepsSampleInv == SampleInv /\ [Next]_vars => SampleInv'
<1>. SUFFICES ASSUME SampleInv, [Next]_vars PROVE SampleInv'
  OBVIOUS
<1>1. QInv' /\ TInv'
  BY QueueStep, TimerStep, QInvNext, TInvNext DEF SampleInv
<1>2. LocalTypeOK' /\ PushesInside' /\ NotBegun' /\ JoinedEnded' /\ StoppedEmpty'
  <2>1. CASE UNCHANGED vars
    <3>1. LocalTypeOK' /\ PushesInside'
      BY <2>1 DEF SampleInv, TypeOK, LocalTypeOK, PushesInside, Handling, vars
    <3>. QED  BY <2>1, <3>1, NotMain DEF vars
  <2>2. CASE Signal
    <3>1. LocalTypeOK' /\ PushesInside'
      BY <2>2 DEF Signal, SampleInv, TypeOK, LocalTypeOK, PushesInside, Handling
    <3>. QED  BY <2>2, <3>1, NotMain DEF Signal
  <2>3. CASE MainStep
    BY <2>3, BeginKeeps, MainTimerKeeps, MainGoesOnKeeps DEF MainStep
  <2>. QED  BY <2>1, <2>2, <2>3, WorkerKeeps, PushKeeps, TimerKeeps DEF Next
<1>3. TypeOK'
  BY <1>1, <1>2 DEF TypeOK, LocalTypeOK, QInv, TInv
<1>. QED  BY <1>1, <1>2, <1>3 DEF SampleInv

-----------------------------------------------------------------------------
(* Theorems                                                                *)

\* In every behaviour the threads of the sample, its queues and its timers stay in
\* the invariant, at every point where one thread may be stopped for another.
THEOREM SampleInvariance == Spec => []SampleInv
BY InitSampleInv, NextKeepsSampleInv, PTL DEF Spec

\* Whatever the capacities of the queues, the flags of the threads and main's
\* progress keep their types, and no queue holds more than its capacity.
THEOREM TypeCorrect == Spec => []TypeOK
<1>1. SampleInv => TypeOK
  BY DEF SampleInv
<1>. QED  BY <1>1, SampleInvariance, PTL

\* The sample implements the specifications of its parts: its threads do to a queue
\* and to a timer only what XbftEventQueue and XbftTimer allow.
THEOREM PartsImplemented == Spec => QueueSpec /\ TimerSpec
<1>1. Init => QueueInit /\ TimerInit
  BY DEF Init
<1>. QED  BY <1>1, SampleInvariance, QueueStep, TimerStep, PTL DEF Spec, QueueSpec, TimerSpec

\* No thread of the sample sleeps on beside a queue with room: while one sleeps,
\* every free place was announced to another that is about to look.
THEOREM WakeupsKept == Spec => []NoLostWakeup
BY PartsImplemented, NoWakeupLost, PTL

\* When main.cpp:110 frees the engine and the network, no thread is in a handler,
\* in a callback or in Push: main has joined every worker that pushes, and the
\* Stops of both timers have joined their threads.
THEOREM NobodyInside == Spec => []EngineOutlivesUsers
<1>1. SampleInv => EngineOutlivesUsers
  <2>. SUFFICES ASSUME SampleInv, main \in EngineFreed, NEW p \in Producer
                PROVE  ~ Handling(p) /\ pushing[p] = NoQueue
    BY DEF EngineOutlivesUsers, EngineFreed
  <2>1. PushesInside /\ JoinedEnded /\ StoppedEmpty /\ StopLeavesNothing
    BY DEF SampleInv, TInv
  <2>2. CASE p \in Timer
    <3>1. timer[p].threadVec = {}
      BY <2>1, <2>2, SampleAssumption DEF StoppedEmpty, EngineFreed, LedgerStopped
    <3>. QED  BY <2>1, <2>2, <3>1, Threads DEF StopLeavesNothing, PushesInside, Handling
  <2>3. CASE p \notin Timer
    <3>1. pc[p] = "end"
      BY <2>1, <2>3, Threads DEF JoinedEnded, EngineFreed, LedgerStopped
    <3>. QED  BY <2>1, <2>3, <3>1 DEF PushesInside, Handling
  <2>. QED  BY <2>2, <2>3
<1>. QED  BY <1>1, SampleInvariance, PTL
=============================================================================
