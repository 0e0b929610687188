---------------------------- MODULE XbftSample ----------------------------
(***************************************************************************)
(* The threads of the sample application: main (src/test/sample/main.cpp),  *)
(* two of the network (net/Network.cpp), two of the ledger and its timer    *)
(* (dealing/BlockChain.cpp) and the timer of the engine's pacemaker. They    *)
(* meet in three queues (XbftEventQueue), two timers (XbftTimer) and a flag  *)
(* that a signal sets (common/ExitHandler.h). What the messages say and     *)
(* what the engine does with them is XbftSystem's.                          *)
(***************************************************************************)
EXTENDS XbftEventQueue, XbftTimer

ASSUME SampleAssumption ==
  /\ Queue = {"m_sendMsgQueue", "m_recvMsgQueue", "m_recvSyncMsgQueue"}
  /\ Producer = {"recvMsg", "dealConsensusData", "dealSyncData", "m_timerLoop", "mp_paceMaker"}
  /\ Timer = {"m_timerLoop", "mp_paceMaker"}
  /\ LoopTimer = Timer
  /\ TimerThread = {1}

VARIABLES
  exitFlag,   \* ms_exitFlag
  main,       \* what main is about to do
  pc,         \* what each worker is about to do
  pushing     \* the queue a thread is in Push of

vars == <<queue, timer, exitFlag, main, pc, pushing>>

Worker == {"recvMsg", "sendMsg", "dealConsensusData", "dealSyncData"}
WorkerPc == {"none", "get", "busy", "end"}
NoQueue == "none"

MainPc == {"startNetwork", "startEngine", "startWorkers", "startTimer", "running",
           "joinConsensusData", "joinSyncData", "stopTimer", "stoppingTimer",
           "joinRecv", "joinSend", "freeEngine", "freeingEngine", "freeNetwork", "end"}

TypeOK ==
  /\ QueueTypeOK
  /\ TimerTypeOK
  /\ exitFlag \in BOOLEAN
  /\ main \in MainPc
  /\ pc \in [Worker -> WorkerPc]
  /\ pushing \in [Producer -> Queue \cup {NoQueue}]

Init ==
  /\ QueueInit
  /\ TimerInit
  /\ exitFlag = FALSE
  /\ main = "startNetwork"
  /\ pc = [w \in Worker |-> "none"]
  /\ pushing = [p \in Producer |-> NoQueue]

Signal ==
  /\ ~ exitFlag
  /\ exitFlag' = TRUE
  /\ UNCHANGED <<queue, timer, main, pc, pushing>>

-----------------------------------------------------------------------------
(* The workers                                                             *)

\* The worker is back at the head of its loop, where it looks at the flag.
Loops(w) == pc' = [pc EXCEPT ![w] = IF exitFlag THEN "end" ELSE "get"]

Handles(w) == pc' = [pc EXCEPT ![w] = "busy"]

\* The queue a worker takes from.
Source == [w \in Worker \ {"recvMsg"} |->
  CASE w = "sendMsg" -> "m_sendMsgQueue"
    [] w = "dealConsensusData" -> "m_recvMsgQueue"
    [] w = "dealSyncData" -> "m_recvSyncMsgQueue"]

\* recvfrom, which does not wait: a datagram goes into one of the two queues, or
\* there is none, or one that says nothing.
Receive ==
  /\ pc["recvMsg"] = "get"
  /\ \/ /\ Handles("recvMsg")
        /\ \E k \in {"m_recvMsgQueue", "m_recvSyncMsgQueue"} :
             pushing' = [pushing EXCEPT !["recvMsg"] = k]
     \/ /\ Loops("recvMsg")
        /\ UNCHANGED pushing
  /\ UNCHANGED <<queue, timer, exitFlag, main>>

\* A datagram to send leaves the program; the others are handled.
Take(w) ==
  /\ pc[w] = "get"
  /\ TryPop(Source[w])
  /\ IF w = "sendMsg" THEN Loops(w) ELSE Handles(w)
  /\ UNCHANGED <<timer, exitFlag, main, pushing>>

TakeNothing(w) ==
  /\ pc[w] = "get"
  /\ GivesUp(Source[w])
  /\ Loops(w)
  /\ UNCHANGED <<queue, timer, exitFlag, main, pushing>>

\* The message is refused, or handled without sending one.
Finish(w) ==
  /\ pc[w] = "busy"
  /\ pushing[w] = NoQueue
  /\ Loops(w)
  /\ UNCHANGED <<queue, timer, exitFlag, main, pushing>>

-----------------------------------------------------------------------------
(* Push                                                                    *)

\* The thread is in a handler or a callback.
Handling(p) == IF p \in Timer THEN timer[p].pc[1] = "call" ELSE pc[p] = "busy"

\* The engine, or the synchronisation, sends a message.
BeginPush(p) ==
  /\ Handling(p)
  /\ pushing[p] = NoQueue
  /\ pushing' = [pushing EXCEPT ![p] = "m_sendMsgQueue"]
  /\ UNCHANGED <<queue, timer, exitFlag, main, pc>>

\* A worker sends at most one message for one it has handled; a callback may
\* send more.
EndPush(p) ==
  /\ pushing[p] # NoQueue
  /\ Put(pushing[p], p)
  /\ pushing' = [pushing EXCEPT ![p] = NoQueue]
  /\ IF p \in Timer THEN UNCHANGED pc ELSE Loops(p)
  /\ UNCHANGED <<timer, exitFlag, main>>

WaitForRoom(p) ==
  /\ pushing[p] # NoQueue
  /\ Wait(pushing[p], p)
  /\ UNCHANGED <<timer, exitFlag, main, pc, pushing>>

WakeForNothing(p) ==
  /\ pushing[p] # NoQueue
  /\ SpuriousWakeup(pushing[p], p)
  /\ UNCHANGED <<timer, exitFlag, main, pc, pushing>>

-----------------------------------------------------------------------------
(* The timers                                                              *)

TimerWakesUp(k) ==
  /\ WakeUp(k, 1)
  /\ UNCHANGED <<queue, exitFlag, main, pc, pushing>>

CallbackReturns(k) ==
  /\ pushing[k] = NoQueue
  /\ Return(k, 1)
  /\ UNCHANGED <<queue, exitFlag, main, pc, pushing>>

-----------------------------------------------------------------------------
(* main                                                                    *)

MainGoes(from, to) ==
  /\ main = from
  /\ main' = to
  /\ UNCHANGED <<queue, exitFlag, pushing>>

\* Two threads begin, and look at the flag.
Begin(ws) == pc' = [w \in Worker |->
  IF w \notin ws THEN pc[w] ELSE IF exitFlag THEN "end" ELSE "get"]

StartNetwork ==
  /\ MainGoes("startNetwork", "startEngine")
  /\ Begin({"recvMsg", "sendMsg"})
  /\ UNCHANGED timer

\* CreateXbftEngine starts the pacemaker's timer.
StartEngine ==
  /\ MainGoes("startEngine", "startWorkers")
  /\ SetTimeOut("mp_paceMaker", 1)
  /\ UNCHANGED pc

StartWorkers ==
  /\ MainGoes("startWorkers", "startTimer")
  /\ Begin({"dealConsensusData", "dealSyncData"})
  /\ UNCHANGED timer

\* Three seconds later, whether or not the signal has come.
StartTimer ==
  /\ MainGoes("startTimer", "running")
  /\ SetTimeOut("m_timerLoop", 1)
  /\ UNCHANGED pc

SeeExitFlag ==
  /\ exitFlag
  /\ MainGoes("running", "joinConsensusData")
  /\ UNCHANGED <<timer, pc>>

Join(w, from, to) ==
  /\ pc[w] = "end"
  /\ MainGoes(from, to)
  /\ UNCHANGED <<timer, pc>>

\* BlockChain::Exit, then Network::Exit.
JoinWorker ==
  \/ Join("dealConsensusData", "joinConsensusData", "joinSyncData")
  \/ Join("dealSyncData", "joinSyncData", "stopTimer")
  \/ Join("recvMsg", "joinRecv", "joinSend")
  \/ Join("sendMsg", "joinSend", "freeEngine")

\* BlockChain::Exit stops the ledger's timer. Freeing BlockChain frees the engine,
\* which stops the pacemaker's.
StopTimer ==
  /\ \/ MainGoes("stopTimer", "stoppingTimer") /\ BeginStop("m_timerLoop")
     \/ MainGoes("stoppingTimer", "joinRecv") /\ EndStop("m_timerLoop")
     \/ MainGoes("freeEngine", "freeingEngine") /\ BeginStop("mp_paceMaker")
     \/ MainGoes("freeingEngine", "freeNetwork") /\ EndStop("mp_paceMaker")
  /\ UNCHANGED pc

FreeNetwork ==
  /\ MainGoes("freeNetwork", "end")
  /\ UNCHANGED <<timer, pc>>

-----------------------------------------------------------------------------

MainStep ==
  \/ StartNetwork \/ StartEngine \/ StartWorkers \/ StartTimer
  \/ SeeExitFlag \/ JoinWorker \/ StopTimer \/ FreeNetwork

WorkerStep(w) ==
  \/ w = "recvMsg" /\ Receive
  \/ w # "recvMsg" /\ (Take(w) \/ TakeNothing(w))
  \/ w \notin {"recvMsg", "sendMsg"} /\ Finish(w)

Next ==
  \/ Signal
  \/ MainStep
  \/ \E w \in Worker : WorkerStep(w)
  \/ \E p \in Producer : BeginPush(p) \/ EndPush(p) \/ WaitForRoom(p) \/ WakeForNothing(p)
  \/ \E k \in Timer : TimerWakesUp(k) \/ CallbackReturns(k)

Spec == Init /\ [][Next]_vars

\* Every thread runs, and a callback sends finitely many messages. Nothing wakes
\* a thread that was not notified, and no signal need come.
FairSpec ==
  /\ Spec
  /\ WF_vars(MainStep)
  /\ \A w \in Worker : WF_vars(WorkerStep(w))
  /\ \A p \in Producer : WF_vars(EndPush(p))
  /\ \A k \in Timer : WF_vars(TimerWakesUp(k)) /\ SF_vars(CallbackReturns(k))

-----------------------------------------------------------------------------
(* Properties                                                              *)

\* Nobody is in the engine or in a queue after main has freed them (main.cpp:110):
\* the two timers' callbacks and the workers hold plain pointers to both.
EngineOutlivesUsers ==
  main \in {"freeNetwork", "end"} =>
    \A p \in Producer : ~ Handling(p) /\ pushing[p] = NoQueue

\* Somebody waits for room in a queue whose consumer has ended.
Stranded ==
  \E p \in Producer, w \in Worker \ {"recvMsg"} :
    /\ pushing[p] = Source[w]
    /\ ~ HasRoom(Source[w])
    /\ pc[w] = "end"

\* After a signal (ExitHandler.h:46, "the program will exit right now") main
\* comes to its end, unless a queue is full when its consumer stops: the Push at
\* EventQueue.h:47 has no limit of time and never looks at the flag.
ShutdownCompletes == exitFlag ~> (main = "end" \/ Stranded)
=============================================================================
