-------------------------- MODULE MCSystemConflict --------------------------
(* One schedule of the engine of four replicas, none of them faulty: each     *)
(* step is a step of XbftSystem, and pc only says which. Three DECIDEs are    *)
(* lost and each view change misses one replica. Two branches, A and B, each  *)
(* get the three-chain of one of their nodes.                                *)
EXTENDS XbftSystem

VARIABLE pc   \* the number of schedule steps taken

scheduleVars == <<systemVars, pc>>

Steps(do, r, S) == SetToSeq({<<do, r, x>> : x \in S})

\* Leader l proposes node h, the replicas in V vote for it, l takes the votes.
Round(l, h, V) ==
  <<<<"start", l, h>>, <<"propose", l, h>>>>
  \o FlattenSeq([i \in 1 .. Cardinality(V) |->
       LET r == SetToSortSeq(V, <)[i]
       IN  <<<<"vote", r, h>>, <<"count", l, [from |-> r, node |-> h]>>>>])

\* The replicas in A ask for view v, and those in A and B take their NEWVIEWs.
Change(v, A, B) ==
  FlattenSeq([i \in 1 .. Cardinality(A) |->
    LET r == SetToSortSeq(A, <)[i] IN <<<<"begin", r, v>>, <<"send", r, v>>>>])
  \o FlattenSeq([i \in 1 .. Cardinality(A \cup B) |->
       LET r == SetToSortSeq(A \cup B, <)[i] IN Steps("newview", r, {<<a, v>> : a \in A \ {r}})])

Schedule ==
  Round(0, 1, {2, 3})                          \* A2, certified; DECIDE lost
  \o Change(1, {1, 2, 3}, {0})
  \o Round(1, 2, {0, 3})                       \* B2
  \o Round(1, 3, {0, 3})                       \* B3, certified; DECIDE lost
  \o Change(2, {0, 2, 3}, {1})                 \* the certificate of A2
  \o Round(2, 4, {0, 3})                       \* A3
  \o Round(2, 5, {0, 3})                       \* A4: replica 2 decides A2
  \o Change(3, {0, 1, 3}, {})                  \* the certificate of B3
  \o Round(3, 6, {0, 1})                       \* B4: replica 3 decides B2

Do(do, r, x) ==
  CASE do = "start"   -> StartConsensus(r) /\ UNCHANGED paceVars
    [] do = "propose" -> Propose(r) /\ UNCHANGED paceVars
    [] do = "vote"    -> OnPropose(r, x) /\ UNCHANGED paceVars
    [] do = "count"   -> OnVote(r, x) /\ UNCHANGED paceVars
    [] do = "begin"   -> RotateBegin(r)
    [] do = "send"    -> RotateSend(r)
    [] do = "newview" -> \E m \in newViews : <<m.from, m.view>> = x /\ RecvNewView(r, m)

ScheduleInit == SystemInit /\ pc = 0

ScheduleNext ==
  /\ pc < Len(Schedule)
  /\ pc' = pc + 1
  /\ LET step == Schedule[pc + 1] IN Do(step[1], step[2], step[3])

ScheduleSpec == ScheduleInit /\ [][ScheduleNext]_scheduleVars
=============================================================================
