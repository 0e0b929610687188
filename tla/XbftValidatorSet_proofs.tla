---------------------- MODULE XbftValidatorSet_proofs ----------------------
(***************************************************************************)
(* Facts about the quorums of XbftValidatorSet::GetQuorumSize, for every   *)
(* number of validators.                                                   *)
(***************************************************************************)
EXTENDS XbftValidatorSet, FiniteSetTheorems, TLAPS

\* The replicas are finitely many, N of them, and so is every set of them.
LEMMA ReplicaFinite ==
  /\ IsFiniteSet(Replica)
  /\ Cardinality(Replica) = N
  /\ \A S \in SUBSET Replica : IsFiniteSet(S) /\ Cardinality(S) \in 0 .. N
<1>1. IsFiniteSet(Replica) /\ Cardinality(Replica) = N
  BY NAssumption, FS_Interval, 0 \in Int, N - 1 \in Int DEF Replica
<1>2. ASSUME NEW S \in SUBSET Replica
      PROVE  IsFiniteSet(S) /\ Cardinality(S) \in 0 .. N
  BY <1>1, NAssumption, FS_Subset, FS_CardinalityType
<1>. QED  BY <1>1, <1>2

\* A quorum needs a member, is within reach of the replicas and leaves out as
\* many as the set tolerates to be faulty (XbftValidatorSet.cpp:63).
THEOREM QuorumSizeBounds ==
  /\ GetQuorumSize \in 1 .. N
  /\ GetQuorumSize <= N - FaultNumber
  /\ 2 * GetQuorumSize - N > FaultNumber
BY NAssumption, SMTT(30) DEF GetQuorumSize, FaultNumber

\* What contains a quorum is one.
LEMMA QuorumGrows ==
  ASSUME NEW S \in SUBSET Replica, NEW T \in SUBSET Replica,
         S \subseteq T, IsQuorum(S)
  PROVE  IsQuorum(T)
<1>1. Cardinality(S) <= Cardinality(T)
  BY ReplicaFinite, FS_Subset
<1>. QED  BY <1>1, ReplicaFinite, QuorumSizeBounds DEF IsQuorum

\* Two quorums share more replicas than may be faulty: at least one of those
\* that certified one thing takes part in certifying any other.
THEOREM QuorumIntersection ==
  ASSUME NEW S \in SUBSET Replica, NEW T \in SUBSET Replica,
         IsQuorum(S), IsQuorum(T)
  PROVE  Cardinality(S \cap T) > FaultNumber
<1>1. Cardinality(S \cup T) = Cardinality(S) + Cardinality(T) - Cardinality(S \cap T)
  BY ReplicaFinite, FS_Union
<1>2. Cardinality(S \cup T) <= N
  BY ReplicaFinite, S \cup T \in SUBSET Replica
<1>3. /\ Cardinality(S) \in Int /\ Cardinality(T) \in Int
      /\ Cardinality(S \cup T) \in Int /\ Cardinality(S \cap T) \in Int
      /\ FaultNumber \in Int /\ GetQuorumSize \in Int /\ N \in Int
  BY ReplicaFinite, NAssumption, S \cup T \in SUBSET Replica, S \cap T \in SUBSET Replica
     DEF FaultNumber, GetQuorumSize
<1>. QED  BY <1>1, <1>2, <1>3, QuorumSizeBounds DEF IsQuorum

\* In particular they share a replica.
COROLLARY QuorumsMeet ==
  ASSUME NEW S \in SUBSET Replica, NEW T \in SUBSET Replica,
         IsQuorum(S), IsQuorum(T)
  PROVE  \E r \in Replica : r \in S /\ r \in T
<1>1. Cardinality(S \cap T) > 0
  BY QuorumIntersection, NAssumption, ReplicaFinite, S \cap T \in SUBSET Replica DEF FaultNumber
<1>2. S \cap T # {}
  BY <1>1, FS_EmptySet
<1>. QED  BY <1>2
=============================================================================
