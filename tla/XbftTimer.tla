----------------------------- MODULE XbftTimer -----------------------------
(***************************************************************************)
(* The timers, src/include/utils/Timer.h: threads that sleep and then call  *)
(* back, all of one timer sharing the flag m_isRun. SetTimeOut and Stop are *)
(* called by one thread, the timer's owner, as everywhere in the repository.*)
(***************************************************************************)
EXTENDS Integers, FiniteSets

CONSTANTS
  Timer,        \* the timers
  TimerThread,  \* the threads a timer may have
  LoopTimer     \* the TimerLoops; the others are TimerFors and TimerUntils

ASSUME TimerAssumption == LoopTimer \subseteq Timer

\* threadVec: m_threadVec; stopping: the owner is in Stop, joining the threads;
\* pc: what each thread is about to do.
VARIABLE timer

TimerPc == {"none", "sleep", "call", "end"}

TimerBase == [isRun : BOOLEAN, threadVec : SUBSET TimerThread, stopping : BOOLEAN,
              pc : [TimerThread -> TimerPc]]

TimerTypeOK == timer \in [Timer -> TimerBase]

TimerInit ==
  timer = [k \in Timer |->
             [isRun |-> TRUE, threadVec |-> {}, stopping |-> FALSE,
              pc |-> [t \in TimerThread |-> "none"]]]

\* The timer b with the new thread t.
Started(b, t) ==
  [b EXCEPT !.isRun = TRUE, !.threadVec = @ \cup {t}, !.pc[t] = "sleep"]

SetTimeOut(k, t) ==
  /\ ~ timer[k].stopping
  /\ t \notin timer[k].threadVec
  /\ timer' = [timer EXCEPT ![k] = Started(@, t)]

MoveTo(k, t, pc) == timer' = [timer EXCEPT ![k].pc[t] = pc]

\* The thread looks at the flag when it wakes up, and calls back.
WakeUp(k, t) ==
  /\ timer[k].pc[t] = "sleep"
  /\ MoveTo(k, t, IF timer[k].isRun THEN "call" ELSE "end")

\* The callback is over. A loop goes to sleep again if the flag is still set, which
\* it was when the thread began.
Return(k, t) ==
  /\ timer[k].pc[t] = "call"
  /\ MoveTo(k, t, IF k \in LoopTimer /\ timer[k].isRun THEN "sleep" ELSE "end")

\* Stop of a timer without threads, or stopped before, does nothing.
StopsAtOnce(k) == timer[k].threadVec = {} \/ ~ timer[k].isRun

BeginStop(k) ==
  /\ ~ timer[k].stopping
  /\ ~ StopsAtOnce(k)
  /\ timer' = [timer EXCEPT ![k].isRun = FALSE, ![k].stopping = TRUE]

\* Mutant: the threads are not waited for.
JoinedAtOnce(k) == TRUE

\* join has returned for every thread.
Joined(k) == \A t \in timer[k].threadVec : timer[k].pc[t] = "end"

EndStop(k) ==
  /\ timer[k].stopping
  /\ Joined(k)
  /\ timer' = [timer EXCEPT ![k].threadVec = {}, ![k].stopping = FALSE]

TimerNext ==
  \E k \in Timer :
    \/ BeginStop(k)
    \/ EndStop(k)
    \/ \E t \in TimerThread :
         SetTimeOut(k, t) \/ WakeUp(k, t) \/ Return(k, t)

TimerSpec == TimerInit /\ [][TimerNext]_timer

-----------------------------------------------------------------------------
(* Properties                                                              *)

\* A timer that is not being stopped and has threads is running, so the Stop of
\* its destructor (Timer.h:39) does join them: std::thread ends the process when
\* it is destroyed unjoined.
ThreadsStoppable ==
  \A k \in Timer : timer[k].threadVec # {} => timer[k].isRun \/ timer[k].stopping

\* What m_threadVec no longer holds has ended: Stop (Timer.h:47) leaves no thread
\* that could still call back into an object that is destroyed next.
StopLeavesNothing ==
  \A k \in Timer : \A t \in TimerThread :
    t \notin timer[k].threadVec => timer[k].pc[t] \in {"none", "end"}
=============================================================================
