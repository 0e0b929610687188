---------------------------- MODULE XbftRestart ----------------------------
(***************************************************************************)
(* The consensus of XbftConsensus with replicas that stop and start again.  *)
(* The sample application keeps nothing on disk: a process begins with the  *)
(* values of the constructors of NodeInfo and BlockChain                   *)
(* (src/test/sample/dealing/NodeInfo.cpp:33, BlockChain.cpp:38), as the     *)
(* first time, whatever it has voted for, locked or handed over before.     *)
(***************************************************************************)
EXTENDS XbftConsensus

CONSTANT MaxRestarts  \* BOUND: how often a replica is started again

ASSUME RestartAssumption == MaxRestarts \in Nat

VARIABLE restarts     \* how often a replica was started again

restartVars == <<vars, restarts>>

RestartInit == Init /\ restarts = 0

\* What a process begins with.
Started(r) == InitialRep

\* r stops, at whatever point, also at a null pointer, and starts again.
Restart(r) ==
  /\ restarts < MaxRestarts
  /\ restarts' = restarts + 1
  /\ rep' = [rep EXCEPT ![r] = Started(r)]
  /\ view' = [view EXCEPT ![r] = 0]
  /\ active' = [active EXCEPT ![r] = TRUE]
  /\ building' = [building EXCEPT ![r] = 0]
  /\ synced' = [synced EXCEPT ![r] = {}]
  /\ UNCHANGED <<node, votes, decides, proofs>>

RestartNext ==
  \/ Next /\ UNCHANGED restarts
  \/ \E r \in Replica : Restart(r)

\* The proofs that answer a request sent now.
LatestProofs == {rep[r].ledger.proof : r \in {s \in Replica : Alive(s)}} \ {NoQc}

\* The application's timer asks the other replicas for their latest proof again
\* and again. Nothing else is sent again for good: a PROPOSE is only until its
\* node is certified, a VOTE and a DECIDE are sent once.
RestartSpec ==
  /\ RestartInit /\ [][RestartNext]_restartVars
  /\ \A r \in Replica :
       WF_restartVars((\E qc \in LatestProofs : Sync(r, qc)) /\ UNCHANGED restarts)

-----------------------------------------------------------------------------
(* Properties                                                              *)

\* What some ledger holds for good comes back to the ledger of every replica that
\* is running, however often it has lost everything: a process that has started
\* again, with nothing (NodeInfo.cpp:35), depends on synchronisation alone.
RestartedCatchUp ==
  \A k \in 2 .. (MaxNodes + 1) :
    <>[](\E r \in Replica : Alive(r) /\ rep[r].ledger.seq >= k) =>
      []<>(\A r \in Replica : Alive(r) => rep[r].ledger.seq >= k)
=============================================================================
