---------------------------- MODULE XbftMembers ----------------------------
(***************************************************************************)
(* The validator set of one replica as data,                               *)
(* src/lib/engine/XbftValidatorSet.cpp: a map from addresses to ids, made    *)
(* from the list of addresses that the application hands to the engine. The *)
(* modules of a fixed set take XbftValidatorSet instead, where a replica is *)
(* its id.                                                                 *)
(***************************************************************************)
EXTENDS Integers, FiniteSets, Sequences

CONSTANT Address

\* m_vs.
IsMembers(vs) == DOMAIN vs \subseteq Address /\ vs \in [DOMAIN vs -> Nat]

\* Where a is in the list for the first time.
FirstIndex(list, a) ==
  CHOOSE i \in DOMAIN list : list[i] = a /\ \A j \in 1 .. (i - 1) : list[j] # a

\* An address given twice keeps the id of its first place.
Set(list) == [a \in {list[i] : i \in DOMAIN list} |-> FirstIndex(list, a) - 1]

\* Mutant: only the number of validators is compared.
CompareSizes(vs, list) == Len(list) # Cardinality(DOMAIN vs)

\* The list gives other validators or other ids than vs.
Compare(vs, list) ==
  \/ Len(list) # Cardinality(DOMAIN vs)
  \/ \E i \in DOMAIN list : list[i] \notin DOMAIN vs \/ vs[list[i]] # i - 1

QueryId(vs, a) == IF a \in DOMAIN vs THEN vs[a] ELSE -1

\* Who has the id, as a set of at most one.
QueryAddr(vs, id) == {a \in DOMAIN vs : vs[a] = id}

GetOtherReplicaAddrs(vs, id) == {a \in DOMAIN vs : vs[a] # id}

Size(vs) == Cardinality(DOMAIN vs)

QuorumSize(vs) == Size(vs) - (Size(vs) \div 3)

\* The id that leads view v; a set without validators has none.
LeaderId(vs, v) == v % Size(vs)

Leads(vs, a, v) == DOMAIN vs # {} /\ LeaderId(vs, v) = QueryId(vs, a)

\* The list has no address twice.
Distinct(list) == \A i, j \in DOMAIN list : list[i] = list[j] => i = j

\* UpdateValidatorsAndProof: an empty list stands for no change.
UpdateValidators(vs, list) == IF list # << >> /\ Compare(vs, list) THEN Set(list) ELSE vs
=============================================================================
