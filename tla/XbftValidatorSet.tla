------------------------- MODULE XbftValidatorSet -------------------------
(***************************************************************************)
(* The validator set of a replica, src/lib/engine/XbftValidatorSet.cpp, in  *)
(* the state every correct configuration gives it: N distinct addresses,   *)
(* whose ids are their positions in the list, 0 .. N - 1.                  *)
(***************************************************************************)
EXTENDS Integers, FiniteSets

CONSTANT N   \* Size(): the number of validators

\* A set without validators has no leader (view % 0), so it is not considered.
ASSUME NAssumption == N \in Nat \ {0}

Replica == 0 .. (N - 1)

GetQuorumSize == N - (N \div 3)

\* m_faultNumber: the faults the set tolerates.
FaultNumber == (N - 1) \div 3

IsQuorum(S) == Cardinality(S) >= GetQuorumSize

\* The replica that leads view v.
GetLeaderId(v) == v % N
=============================================================================
