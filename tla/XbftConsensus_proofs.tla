----------------------- MODULE XbftConsensus_proofs -----------------------
(***************************************************************************)
(* What the consensus guarantees for every number of validators and every  *)
(* bound: its types, that certificates are backed by votes, and that their *)
(* sequences do not fall from view to view. The lemmas on the actions also *)
(* say how the highest sequence a replica has seen moves, which the last   *)
(* part builds on. XbftConsensusChain_proofs proves what the chain needs.  *)
(***************************************************************************)
EXTENDS XbftConsensus, XbftValidatorSet_proofs, WellFoundedInduction

-----------------------------------------------------------------------------
(* The inductive invariant                                                 *)

\* A tree holds only nodes that were made, and always genesis.
TreesHoldNodes ==
  \A r \in Replica :
    /\ rep[r].tree[Genesis] > 0
    /\ \A h \in Hash : rep[r].tree[h] > 0 => h \in DOMAIN node

VotesForNodes == \A vote \in votes : vote.node \in DOMAIN node

\* Whoever an object counts the vote of has voted for its node.
CountedVotesCast ==
  \A r \in Replica, p \in Ptr : \A v \in rep[r].obj[p].votes :
    p[1] \in DOMAIN node /\ VotedFor(v, p[1])

\* A certificate is of a node that was made, the one a quorum voted for.
Backed(qc) ==
  /\ qc.node \in DOMAIN node
  /\ IsQuorum(qc.signers)
  /\ \A v \in qc.signers : VotedFor(v, qc.node)
  /\ qc.sequence = node[qc.node].sequence
  /\ qc.view = node[qc.node].view

AllBacked == \A qc \in AllQcs : Backed(qc)

IInv ==
  /\ TypeOK
  /\ TreesHoldNodes
  /\ VotesForNodes
  /\ CountedVotesCast
  /\ AllBacked

-----------------------------------------------------------------------------
(* Types                                                                   *)

LEMMA HashType ==
  /\ Hash \subseteq Nat
  /\ Genesis \in Hash
  /\ 1 \in Generation
  /\ Generation \subseteq Nat
  /\ NoHash \notin Hash
BY ConsensusAssumption DEF Hash, Genesis, Generation, NoHash

LEMMA ViewType == View \subseteq Nat /\ 0 \in View
BY ConsensusAssumption DEF View

LEMMA NoQcType == NoQc \in Qc
BY ViewType DEF NoQc, Qc

LEMMA ObjectTypes == NewObject \in Object /\ GenesisObject \in Object
BY DEF NewObject, GenesisObject, Object, Ref

LEMMA RepType ==
  ASSUME TypeOK, NEW r \in Replica
  PROVE  rep[r] \in Rep
BY DEF TypeOK

\* The nodes made so far are a beginning of the hashes.
LEMMA NodeType ==
  ASSUME TypeOK
  PROVE  /\ DOMAIN node \subseteq Hash
         /\ Genesis \in DOMAIN node
         /\ \A h \in DOMAIN node : /\ node[h] \in Node \cup {GenesisNode}
                                   /\ node[h].sequence \in Nat
                                   /\ node[h].view \in View
                                   /\ node[h].qc \in Qc
                                   /\ node[h].parent \in Hash \cup {NoHash}
         /\ IsFiniteSet(DOMAIN node)
         /\ Cardinality(DOMAIN node) \in Nat
         /\ DOMAIN node = 0 .. (Cardinality(DOMAIN node) - 1)
<1>1. PICK n \in Hash : node \in [0 .. n -> Node \cup {GenesisNode}]
  BY DEF TypeOK
<1>2. n \in Nat /\ DOMAIN node = 0 .. n
  BY <1>1, HashType
<1>3. IsFiniteSet(DOMAIN node) /\ Cardinality(DOMAIN node) = n + 1
  BY <1>2, FS_Interval
<1>4. DOMAIN node \subseteq Hash /\ Genesis \in DOMAIN node
  BY <1>1, <1>2, ConsensusAssumption DEF Hash, Genesis
<1>5. ASSUME NEW h \in DOMAIN node
      PROVE  /\ node[h] \in Node \cup {GenesisNode}
             /\ node[h].sequence \in Nat
             /\ node[h].view \in View
             /\ node[h].qc \in Qc
             /\ node[h].parent \in Hash \cup {NoHash}
  <2>1. node[h] \in Node \cup {GenesisNode}
    BY <1>1
  <2>2. CASE node[h] \in Node
    BY <2>2 DEF Node
  <2>3. CASE node[h] = GenesisNode
    BY <2>3, NoQcType, ViewType DEF GenesisNode
  <2>. QED  BY <2>1, <2>2, <2>3
<1>. QED  BY <1>2, <1>3, <1>4, <1>5

-----------------------------------------------------------------------------
(* What the operators on a replica's state return                          *)

LEMMA GetNodeType ==
  ASSUME NEW s \in Rep, NEW h
  PROVE  /\ GetNode(s, h) \in Ref
         /\ GetNode(s, h) # Null => /\ h \in Hash
                                   /\ s.tree[h] > 0
                                   /\ GetNode(s, h) = <<h, s.tree[h]>>
                                   /\ GetNode(s, h) \in Ptr
<1>1. CASE InTree(s, h)
  <2>1. h \in Hash /\ s.tree[h] > 0 /\ GetNode(s, h) = <<h, s.tree[h]>>
    BY <1>1 DEF InTree, GetNode
  <2>2. s.tree[h] \in Generation
    BY <2>1, HashType DEF Rep
  <2>. QED  BY <2>1, <2>2 DEF Ref, Ptr
<1>2. CASE ~ InTree(s, h)
  BY <1>2 DEF GetNode, Ref
<1>. QED  BY <1>1, <1>2

LEMMA AppendNodeType ==
  ASSUME NEW s \in Rep, NEW h \in Hash, NEW o \in Object, s.tree[h] + 1 \in Generation
  PROVE  LET u == AppendNode(s, h, o)
         IN  /\ u \in Rep
             /\ u.lastSequence = s.lastSequence
             /\ u.tree = [s.tree EXCEPT ![h] = @ + 1]
             /\ u.obj = [s.obj EXCEPT ![<<h, s.tree[h] + 1>>] = o]
             /\ u.lock = s.lock
             /\ u.exec = s.exec
             /\ u.highQc = s.highQc
             /\ u.ledger = s.ledger
             /\ u.crashed = s.crashed
<1>1. [s.tree EXCEPT ![h] = @ + 1] \in [Hash -> {0} \cup Generation]
  BY DEF Rep
<1>2. <<h, s.tree[h] + 1>> \in Ptr
  BY DEF Ptr
<1>3. [s.obj EXCEPT ![<<h, s.tree[h] + 1>>] = o] \in [Ptr -> Object]
  BY <1>2 DEF Rep
<1>4. AppendNode(s, h, o) =
        [s EXCEPT !.tree = [s.tree EXCEPT ![h] = @ + 1],
                  !.obj = [s.obj EXCEPT ![<<h, s.tree[h] + 1>>] = o]]
  BY DEF AppendNode, Rep
<1>. QED  BY <1>1, <1>3, <1>4 DEF Rep

\* What update changes of a replica with the certificate qc is the lock, the
\* executed node, the flags of objects and the ledger.
Updated(s, u, qc) ==
  /\ u \in Rep
  /\ u.lastSequence = s.lastSequence
  /\ u.tree = s.tree
  /\ u.highQc = s.highQc
  /\ \A q \in Ptr : u.obj[q].votes = s.obj[q].votes
  /\ u.ledger.proof \in {s.ledger.proof, qc}

LEMMA UpdatedTrans ==
  ASSUME NEW s, NEW t, NEW u, NEW qc, Updated(s, t, qc), Updated(t, u, qc)
  PROVE  Updated(s, u, qc)
BY DEF Updated

LEMMA UpdatedRefl ==
  ASSUME NEW s \in Rep, NEW qc
  PROVE  Updated(s, s, qc)
BY DEF Updated

LEMMA PreCommitUpdates ==
  ASSUME TypeOK, NEW s \in Rep, NEW p \in Ptr, p[1] \in DOMAIN node, NEW qc \in Qc
  PROVE  Updated(s, PreCommit(s, p, qc), qc)
<1>1. CASE s.obj[p].preCommit
  BY <1>1, UpdatedRefl DEF PreCommit
<1>2. CASE ~ s.obj[p].preCommit
  <2>. DEFINE x == [s.obj[p] EXCEPT !.preCommit = TRUE]
              o == [s.obj EXCEPT ![p] = x]
              l == [s.ledger EXCEPT !.seq = Sequence(p), !.proof = qc]
  <2>1. s.ledger \in Ledger /\ s.obj \in [Ptr -> Object] /\ s.obj[p] \in Object
    BY DEF Rep
  <2>2. Sequence(p) \in Nat
    BY NodeType DEF Sequence
  <2>3. l \in Ledger /\ l.proof = qc
    BY <2>1, <2>2 DEF Ledger
  <2>4. x \in Object /\ x.votes = s.obj[p].votes
    BY <2>1 DEF Object
  <2>5. PreCommit(s, p, qc) = [s EXCEPT !.obj = o, !.ledger = l]
    BY <1>2, Zenon DEF PreCommit
  <2>. HIDE DEF x, l
  <2>6. o \in [Ptr -> Object] /\ \A q \in Ptr : o[q].votes = s.obj[q].votes
    BY <2>1, <2>4
  <2>. HIDE DEF o
  <2>. QED  BY <2>3, <2>5, <2>6 DEF Updated, Rep
<1>. QED  BY <1>1, <1>2

LEMMA CommitUpdates ==
  ASSUME NEW s \in Rep, NEW p \in Ptr, NEW qc
  PROVE  Updated(s, Commit(s, p), qc)
<1>. DEFINE trail == Walk(s, p)
            o == [q \in Ptr |-> IF q \in ToSet(Front(trail))
                                THEN [s.obj[q] EXCEPT !.decision = TRUE]
                                ELSE s.obj[q]]
<1>1. \/ Commit(s, p) = [s EXCEPT !.crashed = TRUE]
      \/ Commit(s, p) = [s EXCEPT !.exec = p, !.obj = o]
      \/ Commit(s, p) = s
  <2>1. Commit(s, p) = CASE Last(trail) = Null -> [s EXCEPT !.crashed = TRUE]
                         [] Last(trail) = s.exec -> [s EXCEPT !.exec = p, !.obj = o]
                         [] OTHER -> s
    BY DEF Commit
  <2>. HIDE DEF trail, o
  <2>. QED  BY <2>1
<1>2. s.obj \in [Ptr -> Object]
  BY DEF Rep
<1>3. \A x \in Object : /\ [x EXCEPT !.decision = TRUE] \in Object
                        /\ [x EXCEPT !.decision = TRUE].votes = x.votes
  BY DEF Object
<1>4. \A q \in Ptr : o[q] \in Object /\ o[q].votes = s.obj[q].votes
  BY <1>2, <1>3
<1>5. o \in [Ptr -> Object]
  BY <1>4
<1>. HIDE DEF o
<1>6. CASE Commit(s, p) = [s EXCEPT !.crashed = TRUE]
  BY <1>6 DEF Updated, Rep
<1>7. CASE Commit(s, p) = [s EXCEPT !.exec = p, !.obj = o]
  BY <1>4, <1>5, <1>7 DEF Updated, Rep
<1>8. CASE Commit(s, p) = s
  BY <1>8, UpdatedRefl
<1>. QED  BY <1>1, <1>6, <1>7, <1>8

\* Whatever a replica does with a certificate, it counts the same votes and has
\* no certificate that it or the message did not have.
LEMMA UpdateUpdates ==
  ASSUME TypeOK, NEW s \in Rep, NEW p \in Ref, NEW qc \in Qc,
         p # Null => p[1] \in DOMAIN node
  PROVE  Updated(s, Update(s, p, qc), qc)
<1>1. CASE ~ Undecided(s, p)
  BY <1>1, UpdatedRefl DEF Update
<1>2. CASE Undecided(s, p)
  <2>. DEFINE t    == PreCommit(s, p, qc)
              blk1 == t.obj[p].qcRef
              w    == Lock(t, blk1)
              blk  == w.obj[blk1].qcRef
  <2>1. p \in Ptr /\ p[1] \in DOMAIN node
    BY <1>2 DEF Undecided, Ref
  <2>2. Updated(s, t, qc) /\ t \in Rep
    BY <2>1, PreCommitUpdates DEF Updated
  <2>3. blk1 \in Ref
    BY <2>1, <2>2 DEF Rep, Object
  <2>4. Update(s, p, qc) = IF ~ Undecided(t, blk1) THEN t ELSE Execute(w, p, blk1)
    BY <1>2, Zenon DEF Update
  <2>5. CASE ~ Undecided(t, blk1)
    BY <2>2, <2>4, <2>5
  <2>6. CASE Undecided(t, blk1)
    <3>1. blk1 \in Ptr
      BY <2>3, <2>6 DEF Undecided, Ref
    <3>2. w = [t EXCEPT !.lock = blk1] \/ w = t
      BY DEF Lock
    <3>3. Updated(t, w, qc) /\ w \in Rep
      <4>. HIDE DEF t, blk1, w
      <4>. QED  BY <2>2, <3>1, <3>2 DEF Updated, Rep
    <3>4. \/ Execute(w, p, blk1) = w
          \/ Undecided(w, blk) /\ Execute(w, p, blk1) = Commit(w, blk)
      BY Zenon DEF Execute
    <3>5. blk \in Ref
      BY <3>1, <3>3 DEF Rep, Object
    <3>6. Updated(w, Execute(w, p, blk1), qc)
      <4>. HIDE DEF w, blk, blk1
      <4>1. CASE Execute(w, p, blk1) = w
        BY <3>3, <4>1, UpdatedRefl
      <4>2. CASE Undecided(w, blk) /\ Execute(w, p, blk1) = Commit(w, blk)
        BY <3>3, <3>5, <4>2, CommitUpdates DEF Undecided, Ref
      <4>. QED  BY <3>4, <4>1, <4>2
    <3>. HIDE DEF t, w, blk1
    <3>. QED  BY <2>2, <2>4, <2>6, <3>3, <3>6, UpdatedTrans
  <2>. QED  BY <2>5, <2>6
<1>. QED  BY <1>1, <1>2

-----------------------------------------------------------------------------
(* The invariant holds initially                                           *)

LEMMA InitIInv == Init => IInv
<1>. SUFFICES ASSUME Init PROVE IInv
  OBVIOUS
<1>1. GenesisNode.sequence \in Nat /\ GenesisNode.qc = NoQc
  BY DEF GenesisNode
<1>2. InitialRep \in Rep
  <2>1. <<Genesis, 1>> \in Ptr
    BY HashType DEF Ptr
  <2>2. [seq |-> 1, proof |-> NoQc, lastConsSeq |-> 1] \in Ledger
    BY NoQcType DEF Ledger
  <2>3. [h \in Hash |-> IF h = Genesis THEN 1 ELSE 0] \in [Hash -> {0} \cup Generation]
    BY HashType
  <2>4. [p \in Ptr |-> IF p = <<Genesis, 1>> THEN GenesisObject ELSE NewObject] \in [Ptr -> Object]
    BY ObjectTypes
  <2>. QED  BY <2>1, <2>2, <2>3, <2>4, NoQcType DEF InitialRep, Rep
<1>3. TypeOK
  <2>1. node \in [0 .. 0 -> Node \cup {GenesisNode}] /\ 0 \in Hash
    BY HashType DEF Init, Genesis
  <2>. QED  BY <1>2, <2>1, ViewType DEF Init, TypeOK
<1>4. TreesHoldNodes
  BY HashType DEF Init, TreesHoldNodes, InitialRep
<1>5. VotesForNodes
  BY DEF Init, VotesForNodes
<1>6. CountedVotesCast
  <2>1. GenesisObject.votes = {} /\ NewObject.votes = {}
    BY DEF GenesisObject, NewObject
  <2>. QED  BY <2>1 DEF Init, CountedVotesCast, InitialRep
<1>7. AllQcs = {}
  BY <1>1 DEF Init, AllQcs, Certificates, InitialRep
<1>. QED  BY <1>3, <1>4, <1>5, <1>6, <1>7 DEF IInv, AllBacked

-----------------------------------------------------------------------------
(* Every step keeps the invariant                                          *)

\* Nodes and votes are only added.
Grows ==
  /\ DOMAIN node \subseteq DOMAIN node'
  /\ \A h \in DOMAIN node : node'[h] = node[h]
  /\ votes \subseteq votes'

LEMMA VotedForStays ==
  ASSUME Grows, NEW v, NEW h \in DOMAIN node, VotedFor(v, h)
  PROVE  VotedFor(v, h)'
BY DEF Grows, VotedFor

LEMMA BackedStays ==
  ASSUME Grows, NEW qc, Backed(qc)
  PROVE  Backed(qc)'
<1>1. qc.node \in DOMAIN node /\ qc.node \in DOMAIN node' /\ node'[qc.node] = node[qc.node]
  BY DEF Grows, Backed
<1>. QED  BY <1>1, VotedForStays DEF Backed

\* Only the replica that takes the step needs looking at.
LEMMA StepKeeps ==
  ASSUME IInv, TypeOK', Grows, NEW r \in Replica,
         \A q \in Replica \ {r} : rep'[q] = rep[q],
         rep'[r].tree[Genesis] > 0,
         \A h \in Hash : rep'[r].tree[h] > 0 => h \in DOMAIN node',
         VotesForNodes',
         \A p \in Ptr : \A v \in rep'[r].obj[p].votes : p[1] \in DOMAIN node' /\ VotedFor(v, p[1])',
         \A qc \in AllQcs' : qc \in AllQcs \/ Backed(qc)'
  PROVE  IInv'
<1>1. TreesHoldNodes'
  BY DEF IInv, TreesHoldNodes, Grows
<1>2. CountedVotesCast'
  <2>. SUFFICES ASSUME NEW q \in Replica, NEW p \in Ptr, NEW v \in rep'[q].obj[p].votes
                PROVE  p[1] \in DOMAIN node' /\ VotedFor(v, p[1])'
    BY DEF CountedVotesCast
  <2>1. CASE q = r
    BY <2>1
  <2>2. CASE q # r
    <3>1. v \in rep[q].obj[p].votes
      BY <2>2
    <3>2. p[1] \in DOMAIN node /\ VotedFor(v, p[1])
      BY <3>1 DEF IInv, CountedVotesCast
    <3>. QED  BY <3>2, VotedForStays DEF Grows
  <2>. QED  BY <2>1, <2>2
<1>3. AllBacked'
  BY BackedStays DEF IInv, AllBacked
<1>. QED  BY <1>1, <1>2, <1>3 DEF IInv

\* Where the certificates after a step can come from.
LEMMA QcsOfStep ==
  ASSUME TypeOK, NEW r \in Replica, NEW u, NEW S,
         rep' = [rep EXCEPT ![r] = u],
         \A h \in DOMAIN node' : (\E g \in DOMAIN node : node'[h].qc = node[g].qc) \/ node'[h].qc \in S,
         decides' \subseteq decides \cup S,
         proofs' \subseteq proofs \cup {u.ledger.proof},
         u.highQc = rep[r].highQc \/ u.highQc \in S,
         u.ledger.proof = rep[r].ledger.proof \/ u.ledger.proof \in S
  PROVE  \A qc \in AllQcs' : qc \in AllQcs \/ qc \in S
<1>. SUFFICES ASSUME NEW qc \in AllQcs', qc \notin S
              PROVE  qc \in AllQcs
  OBVIOUS
<1>1. rep \in [Replica -> Rep]
  BY DEF TypeOK
<1>2. \A q \in Replica : rep'[q] = IF q = r THEN u ELSE rep[q]
  BY <1>1
<1>3. qc # NoQc /\ \/ qc \in decides' \cup proofs'
                   \/ \E h \in DOMAIN node' : qc = node'[h].qc
                   \/ \E q \in Replica : qc = rep'[q].highQc \/ qc = rep'[q].ledger.proof
  BY DEF AllQcs, Certificates
<1>4. \/ qc \in decides \cup proofs
      \/ \E g \in DOMAIN node : qc = node[g].qc
      \/ \E q \in Replica : qc = rep[q].highQc \/ qc = rep[q].ledger.proof
  BY <1>2, <1>3
<1>. QED  BY <1>3, <1>4 DEF AllQcs, Certificates

\* A step of a replica that may count another vote and then takes a certificate
\* qc; s is its state before it takes it, w after, and u at the end.
LEMMA UpdateStepKeeps ==
  ASSUME IInv, TypeOK', NEW r \in Replica, NEW s, NEW w, NEW u, NEW qc,
         Updated(s, w, qc),
         u.tree = w.tree, u.obj = w.obj, u.highQc = w.highQc, u.ledger = w.ledger,
         rep' = [rep EXCEPT ![r] = u],
         proofs' = proofs \cup Recorded(u),
         node' = node, votes \subseteq votes', VotesForNodes',
         decides' \subseteq decides \cup {qc},
         s.tree[Genesis] > 0,
         \A h \in Hash : s.tree[h] > 0 => h \in DOMAIN node,
         \A p \in Ptr : \A v \in s.obj[p].votes : p[1] \in DOMAIN node /\ VotedFor(v, p[1]),
         s.highQc \in {rep[r].highQc, qc},
         s.ledger.proof \in {rep[r].ledger.proof, qc},
         qc = NoQc \/ Backed(qc)
  PROVE  IInv'
<1>1. TypeOK /\ rep \in [Replica -> Rep]
  BY DEF IInv, TypeOK
<1>2. Grows
  BY DEF Grows
<1>3. rep'[r] = u /\ \A q \in Replica \ {r} : rep'[q] = rep[q]
  BY <1>1
<1>4. u.tree = s.tree /\ \A q \in Ptr : u.obj[q].votes = s.obj[q].votes
  BY DEF Updated
<1>5. \A p \in Ptr : \A v \in u.obj[p].votes : p[1] \in DOMAIN node' /\ VotedFor(v, p[1])'
  BY <1>2, <1>4, VotedForStays
<1>6. \A x \in AllQcs' : x \in AllQcs \/ x \in {qc}
  <2>1. /\ u.highQc = rep[r].highQc \/ u.highQc \in {qc}
        /\ u.ledger.proof = rep[r].ledger.proof \/ u.ledger.proof \in {qc}
    BY DEF Updated
  <2>2. proofs' \subseteq proofs \cup {u.ledger.proof}
    BY DEF Recorded
  <2>3. \A h \in DOMAIN node' : \E g \in DOMAIN node : node'[h].qc = node[g].qc
    OBVIOUS
  <2>. QED  BY <1>1, <2>1, <2>2, <2>3, QcsOfStep
<1>7. \A x \in AllQcs' : x \in AllQcs \/ Backed(x)'
  <2>1. NoQc \notin AllQcs'
    BY DEF AllQcs
  <2>. QED  BY <1>2, <1>6, <2>1, BackedStays
<1>. QED  BY <1>2, <1>3, <1>4, <1>5, <1>7, StepKeeps

LEMMA MayAppendType ==
  ASSUME TypeOK, NEW r \in Replica, NEW h \in Hash, MayAppend(r, h)
  PROVE  rep[r].tree[h] + 1 \in Generation
<1>. DEFINE g == rep[r].tree[h]
<1>1. g \in {0} \cup Generation /\ g \in Nat
  <2>1. rep[r].tree \in [Hash -> {0} \cup Generation]
    BY RepType DEF Rep
  <2>2. g \in {0} \cup Generation
    BY <2>1
  <2>. HIDE DEF g
  <2>3. CASE g = 0
    BY <2>3
  <2>4. CASE g \in Generation
    BY <2>4, HashType
  <2>. QED  BY <2>2, <2>3, <2>4
<1>2. CASE g = 0
  BY <1>2, HashType
<1>3. CASE g > 0
  <2>1. Cardinality(Replaced) < MaxAgain
    BY <1>3 DEF MayAppend
  <2>2. IsFiniteSet(Replaced)
    <3>1. IsFiniteSet(Hash) /\ IsFiniteSet(Generation)
      BY ConsensusAssumption, FS_Interval DEF Hash, Generation
    <3>2. IsFiniteSet(Ptr)
      BY <3>1, FS_Product DEF Ptr
    <3>3. IsFiniteSet(Replica \X Ptr)
      BY <3>2, ReplicaFinite, FS_Product
    <3>. QED  BY <3>3, FS_Subset DEF Replaced
  <2>. DEFINE f == [i \in 1 .. (g - 1) |-> <<r, <<h, i>>>>]
  <2>3. f \in Injection(1 .. (g - 1), Replaced)
    <3>1. ASSUME NEW i \in 1 .. (g - 1)
          PROVE  <<r, <<h, i>>>> \in Replaced
      <4>1. i \in Generation /\ i < g
        BY <1>1, <1>3, ConsensusAssumption DEF Generation
      <4>. QED  BY <4>1 DEF Replaced, IsReplaced, Ptr
    <3>2. f \in [1 .. (g - 1) -> Replaced]
      BY <3>1
    <3>3. \A i, j \in 1 .. (g - 1) : f[i] = f[j] => i = j
      OBVIOUS
    <3>. QED  BY <3>2, <3>3 DEF Injection, IsInjective
  <2>4. Cardinality(1 .. (g - 1)) = g - 1
    BY <1>1, <1>3, FS_Interval
  <2>5. g - 1 <= Cardinality(Replaced) /\ Cardinality(Replaced) \in Nat
    BY <2>2, <2>3, <2>4, FS_Injection, FS_CardinalityType
  <2>. QED  BY <1>1, <1>3, <2>1, <2>5, ConsensusAssumption DEF Generation
<1>. QED  BY <1>1, <1>2, <1>3

\* What IInv says of one replica.
LEMMA RepFacts ==
  ASSUME IInv, NEW r \in Replica
  PROVE  /\ rep[r] \in Rep
         /\ rep[r].tree \in [Hash -> {0} \cup Generation]
         /\ rep[r].obj \in [Ptr -> Object]
         /\ rep[r].tree[Genesis] > 0
         /\ \A h \in Hash : rep[r].tree[h] > 0 => h \in DOMAIN node
         /\ \A p \in Ptr : \A v \in rep[r].obj[p].votes : p[1] \in DOMAIN node /\ VotedFor(v, p[1])
         /\ rep[r].ledger.proof = NoQc \/ Backed(rep[r].ledger.proof)
         /\ rep[r].ledger.proof \in Qc /\ rep[r].ledger.seq \in Nat
         /\ rep[r].ledger \in Ledger
<1>1. rep[r] \in Rep
  BY RepType DEF IInv
<1>2. rep[r].ledger.proof = NoQc \/ rep[r].ledger.proof \in AllQcs
  BY DEF AllQcs
<1>. QED  BY <1>1, <1>2 DEF IInv, TreesHoldNodes, CountedVotesCast, AllBacked, Rep, Ledger

\* A node the tree holds was made.
LEMMA GetNodeMade ==
  ASSUME IInv, NEW r \in Replica, NEW h
  PROVE  /\ GetNode(rep[r], h) \in Ref
         /\ GetNode(rep[r], h) # Null => /\ GetNode(rep[r], h) \in Ptr
                                        /\ GetNode(rep[r], h)[1] = h
                                        /\ h \in DOMAIN node
BY RepFacts, GetNodeType

\* The types after a step of one replica that makes no node.
LEMMA TypeOfStep ==
  ASSUME TypeOK, NEW r \in Replica, NEW u \in Rep,
         rep' = [rep EXCEPT ![r] = u], proofs' = proofs \cup Recorded(u), node' = node,
         view' \in [Replica -> View], active' \in [Replica -> BOOLEAN],
         building' \in [Replica -> Nat], votes' \subseteq Vote, decides' \subseteq Qc,
         synced' \in [Replica -> SUBSET Hash]
  PROVE  TypeOK'
<1>1. rep' \in [Replica -> Rep]
  BY DEF TypeOK
<1>2. u.ledger.proof \in Qc
  BY DEF Rep, Ledger
<1>3. proofs' \subseteq Qc
  BY <1>2 DEF TypeOK, Recorded
<1>. QED  BY <1>1, <1>3 DEF TypeOK

LEMMA OnDecideKeeps ==
  ASSUME IInv, NEW r \in Replica, NEW qc \in decides, OnDecide(r, qc)
  PROVE  IInv' /\ rep'[r].lastSequence = rep[r].lastSequence
<1>. DEFINE s == rep[r]
            p == GetNode(s, qc.node)
            u == Update(s, p, qc)
<1>1. TypeOK /\ qc \in Qc /\ (qc = NoQc \/ Backed(qc))
  BY DEF IInv, TypeOK, AllBacked, AllQcs, Certificates
<1>2. Updated(s, u, qc)
  BY <1>1, RepFacts, GetNodeMade, UpdateUpdates
<1>3. /\ rep' = [rep EXCEPT ![r] = u] /\ proofs' = proofs \cup Recorded(u)
      /\ UNCHANGED <<view, active, node, building, votes, decides, synced>>
  BY DEF OnDecide, Become
<1>4. VotesForNodes'
  BY <1>3 DEF IInv, VotesForNodes
<1>. HIDE DEF u, s
<1>5. TypeOK'
  BY <1>1, <1>2, <1>3, TypeOfStep DEF Updated, TypeOK
<1>6. IInv'
  BY <1>1, <1>2, <1>3, <1>4, <1>5, RepFacts, UpdateStepKeeps DEF s
<1>7. rep'[r].lastSequence = rep[r].lastSequence
  BY <1>1, <1>2, <1>3 DEF Updated, TypeOK, s
<1>. QED  BY <1>6, <1>7

LEMMA ViewChangedKeeps ==
  ASSUME IInv, NEW r \in Replica, NEW v \in View, NEW qc \in decides \cup proofs \cup {NoQc},
         ViewChanged(r, v, qc)
  PROVE  IInv' /\ rep'[r].lastSequence = rep[r].lastSequence
<1>. DEFINE s == rep[r]
            p == GetNode(s, qc.node)
            u == Update(s, p, qc)
<1>1. TypeOK /\ qc \in Qc /\ (qc = NoQc \/ Backed(qc))
  BY NoQcType DEF IInv, TypeOK, AllBacked, AllQcs, Certificates
<1>2. Updated(s, u, qc)
  BY <1>1, RepFacts, GetNodeMade, UpdateUpdates
<1>3. /\ rep' = [rep EXCEPT ![r] = u] /\ proofs' = proofs \cup Recorded(u)
      /\ view' = [view EXCEPT ![r] = v] /\ active' = [active EXCEPT ![r] = TRUE]
      /\ UNCHANGED <<node, building, votes, decides, synced>>
  BY DEF ViewChanged, AdoptQc, Become
<1>4. VotesForNodes'
  BY <1>3 DEF IInv, VotesForNodes
<1>. HIDE DEF u, s
<1>5. TypeOK'
  BY <1>1, <1>2, <1>3, TypeOfStep DEF Updated, TypeOK
<1>6. IInv'
  BY <1>1, <1>2, <1>3, <1>4, <1>5, RepFacts, UpdateStepKeeps DEF s
<1>7. rep'[r].lastSequence = rep[r].lastSequence
  BY <1>1, <1>2, <1>3 DEF Updated, TypeOK, s
<1>. QED  BY <1>6, <1>7

\* A step that leaves nodes, replicas, votes and certificates alone.
LEMMA QuietKeeps ==
  ASSUME IInv, UNCHANGED <<node, rep, votes, decides, proofs>>, TypeOK'
  PROVE  IInv'
<1>1. TreesHoldNodes' /\ VotesForNodes'
  BY DEF IInv, TreesHoldNodes, VotesForNodes
<1>2. CountedVotesCast'
  BY DEF IInv, CountedVotesCast, VotedFor
<1>3. AllBacked'
  BY DEF IInv, AllBacked, Backed, VotedFor, AllQcs, Certificates
<1>. QED  BY <1>1, <1>2, <1>3 DEF IInv

LEMMA StartConsensusKeeps ==
  ASSUME IInv, NEW r \in Replica, StartConsensus(r)
  PROVE  IInv'
<1>1. rep[r].ledger.seq + 1 \in Nat
  BY RepFacts
<1>2. TypeOK'
  BY <1>1 DEF IInv, TypeOK, StartConsensus
<1>. QED  BY <1>2, QuietKeeps DEF StartConsensus

LEMMA SetViewInActiveKeeps ==
  ASSUME IInv, NEW r \in Replica, SetViewInActive(r)
  PROVE  IInv'
<1>1. TypeOK'
  BY DEF IInv, TypeOK, SetViewInActive
<1>. QED  BY <1>1, QuietKeeps DEF SetViewInActive

LEMMA OnVoteKeeps ==
  ASSUME IInv, NEW r \in Replica, NEW vote \in votes, OnVote(r, vote)
  PROVE  IInv' /\ rep'[r].lastSequence = rep[r].lastSequence
<1>. DEFINE h     == vote.node
            p     == GetNode(rep[r], h)
            voted == rep[r].obj[p].votes \cup {vote.from}
            o     == [rep[r].obj[p] EXCEPT !.votes = voted]
            m     == [rep[r].obj EXCEPT ![p] = o]
            s     == [rep[r] EXCEPT !.obj = m]
            qc    == [node |-> h, view |-> node[h].view, sequence |-> node[h].sequence,
                      signers |-> voted]
            high  == IF qc.sequence > s.highQc.sequence THEN [s EXCEPT !.highQc = qc] ELSE s
            w     == Update(high, p, qc)
<1>1. TypeOK /\ h \in DOMAIN node /\ vote \in Vote
  BY DEF IInv, TypeOK, VotesForNodes
<1>2. p \in Ptr /\ p[1] = h /\ p # Null
  BY GetNodeMade DEF OnVote
<1>3. rep[r] \in Rep /\ rep[r].obj \in [Ptr -> Object] /\ rep[r].obj[p] \in Object
  BY <1>2, RepFacts
<1>4. /\ voted \in SUBSET Replica
      /\ \A v \in voted : VotedFor(v, h)
  <2>1. vote.from \in Replica /\ VotedFor(vote.from, h)
    BY <1>1 DEF Vote, VotedFor
  <2>2. \A v \in rep[r].obj[p].votes : VotedFor(v, h)
    BY <1>2, RepFacts
  <2>. QED  BY <1>3, <2>1, <2>2 DEF Object
<1>5. o \in Object /\ o.votes = voted
  BY <1>3, <1>4 DEF Object
<1>6. m \in [Ptr -> Object] /\ \A q \in Ptr : m[q].votes = IF q = p THEN voted ELSE rep[r].obj[q].votes
  <2>. HIDE DEF o
  <2>. QED  BY <1>2, <1>3, <1>5
<1>7. /\ s \in Rep /\ s.tree = rep[r].tree /\ s.highQc = rep[r].highQc
      /\ s.ledger = rep[r].ledger /\ s.obj = m /\ s.lastSequence = rep[r].lastSequence
  <2>. HIDE DEF m
  <2>. QED  BY <1>3, <1>6 DEF Rep
<1>8. qc \in Qc
  <2>1. node[h].view \in View /\ node[h].sequence \in Nat /\ h \in Hash
    BY <1>1, NodeType
  <2>. HIDE DEF h, voted
  <2>. QED  BY <1>4, <2>1 DEF Qc
<1>9. s = [rep[r] EXCEPT !.obj[p].votes = voted]
  OBVIOUS
<1>10. /\ IF MakesQuorum(voted)
          THEN Become(r, w) /\ decides' \subseteq decides \cup {qc}
          ELSE Become(r, s) /\ UNCHANGED decides
       /\ UNCHANGED <<view, active, node, building, votes, synced>>
  BY <1>9 DEF OnVote
<1>11. \A q \in Ptr : \A v \in s.obj[q].votes : q[1] \in DOMAIN node /\ VotedFor(v, q[1])
  BY <1>1, <1>2, <1>4, <1>6, <1>7, RepFacts
<1>12. VotesForNodes'
  BY <1>10 DEF IInv, VotesForNodes
<1>13. CASE MakesQuorum(voted)
  <2>1. high \in Rep /\ high.tree = s.tree /\ high.obj = s.obj /\ high.ledger = s.ledger
        /\ high.highQc \in {rep[r].highQc, qc} /\ high.lastSequence = s.lastSequence
    <3>. HIDE DEF s, qc
    <3>. QED  BY <1>7, <1>8 DEF Rep
  <2>2. Updated(high, w, qc)
    <3>. HIDE DEF high, qc
    <3>1. p \in Ref
      BY <1>2 DEF Ref
    <3>. QED  BY <1>1, <1>2, <1>8, <2>1, <3>1, UpdateUpdates
  <2>3. Backed(qc)
    <3>1. IsQuorum(voted)
      BY <1>13, QuorumSizeBounds DEF MakesQuorum, IsQuorum
    <3>. QED  BY <1>1, <1>4, <3>1 DEF Backed
  <2>4. /\ rep' = [rep EXCEPT ![r] = w] /\ proofs' = proofs \cup Recorded(w)
        /\ decides' \subseteq decides \cup {qc}
        /\ UNCHANGED <<view, active, node, building, votes, synced>>
    BY <1>10, <1>13 DEF Become
  <2>. HIDE DEF w, high, s, qc
  <2>5. TypeOK'
    BY <1>1, <1>8, <2>2, <2>4, TypeOfStep DEF Updated, TypeOK
  <2>6. /\ high.tree[Genesis] > 0
        /\ \A g \in Hash : high.tree[g] > 0 => g \in DOMAIN node
        /\ \A q \in Ptr : \A v \in high.obj[q].votes : q[1] \in DOMAIN node /\ VotedFor(v, q[1])
        /\ high.ledger.proof \in {rep[r].ledger.proof, qc}
    BY <1>7, <1>11, <2>1, RepFacts
  <2>7. IInv'
    BY <1>12, <2>1, <2>2, <2>3, <2>4, <2>5, <2>6, UpdateStepKeeps
  <2>8. rep'[r].lastSequence = rep[r].lastSequence
    BY <1>1, <1>7, <2>1, <2>2, <2>4 DEF Updated, TypeOK
  <2>. QED  BY <2>7, <2>8
<1>14. CASE ~ MakesQuorum(voted)
  <2>1. /\ rep' = [rep EXCEPT ![r] = s] /\ proofs' = proofs \cup Recorded(s)
        /\ UNCHANGED <<view, active, node, building, votes, decides, synced>>
    BY <1>10, <1>14 DEF Become
  <2>. HIDE DEF w, high, s, qc
  <2>2. Updated(s, s, NoQc)
    BY <1>7, UpdatedRefl
  <2>3. TypeOK'
    BY <1>1, <1>7, <2>1, TypeOfStep DEF TypeOK
  <2>4. IInv'
    BY <1>1, <1>7, <1>11, <1>12, <2>1, <2>2, <2>3, RepFacts, UpdateStepKeeps
  <2>5. rep'[r].lastSequence = rep[r].lastSequence
    BY <1>1, <1>7, <2>1 DEF TypeOK
  <2>. QED  BY <2>4, <2>5
<1>. QED  BY <1>13, <1>14

LEMMA OnProposeKeeps ==
  ASSUME IInv, NEW r \in Replica, NEW h \in DOMAIN node, OnPropose(r, h)
  PROVE  /\ IInv'
         /\ \/ /\ votes' = votes \cup {[from |-> r, node |-> h]}
               /\ node[h].sequence >= rep[r].lastSequence
               /\ rep'[r].lastSequence = node[h].sequence
            \/ /\ votes' = votes
               /\ rep'[r].lastSequence = rep[r].lastSequence
<1>. DEFINE qc     == node[h].qc
            qcNode == GetNode(rep[r], qc.node)
            o      == [NewObject EXCEPT !.qcRef = qcNode]
            s      == AppendNode(rep[r], h, o)
            w      == Update(s, qcNode, qc)
            voted  == [w EXCEPT !.lastSequence = node[h].sequence]
<1>1. TypeOK /\ h \in Hash /\ node[h].sequence \in Nat /\ qc \in Qc
      /\ (qc = NoQc \/ Backed(qc))
  BY NodeType DEF IInv, AllBacked, AllQcs
<1>2. qcNode \in Ref /\ (qcNode # Null => qcNode[1] \in DOMAIN node)
  BY GetNodeMade
<1>3. o \in Object /\ o.votes = {}
  BY <1>2 DEF NewObject, Object
<1>4. rep[r].tree[h] + 1 \in Generation
  BY <1>1, MayAppendType DEF OnPropose
<1>5. /\ s \in Rep
      /\ s.tree = [rep[r].tree EXCEPT ![h] = @ + 1]
      /\ s.obj = [rep[r].obj EXCEPT ![<<h, rep[r].tree[h] + 1>>] = o]
      /\ s.highQc = rep[r].highQc
      /\ s.ledger = rep[r].ledger
      /\ s.lastSequence = rep[r].lastSequence
  <2>. HIDE DEF o
  <2>. QED  BY <1>1, <1>3, <1>4, RepFacts, AppendNodeType
<1>6. Updated(s, w, qc) /\ w \in Rep
  <2>. HIDE DEF s, qcNode, qc
  <2>1. Updated(s, w, qc)
    BY <1>1, <1>2, <1>5, UpdateUpdates
  <2>. QED  BY <2>1 DEF Updated
<1>7. /\ s.tree[Genesis] > 0
      /\ \A g \in Hash : s.tree[g] > 0 => g \in DOMAIN node
  <2>1. rep[r].tree[h] \in {0} \cup Generation
    BY <1>1, RepFacts
  <2>2. \A g \in Hash : s.tree[g] = IF g = h THEN rep[r].tree[h] + 1 ELSE rep[r].tree[g]
    BY <1>5, RepFacts
  <2>3. rep[r].tree[h] \in Nat
    <3>. DEFINE g == rep[r].tree[h]
    <3>. HIDE DEF g
    <3>1. g \in {0} \cup Generation
      BY <2>1 DEF g
    <3>2. g \in Nat
      BY <3>1, HashType
    <3>. QED  BY <3>2 DEF g
  <2>. QED  BY <2>2, <2>3, RepFacts, HashType
<1>8. \A q \in Ptr : \A v \in s.obj[q].votes : q[1] \in DOMAIN node /\ VotedFor(v, q[1])
  <2>. HIDE DEF o
  <2>1. \A q \in Ptr : s.obj[q] = o \/ s.obj[q] = rep[r].obj[q]
    BY <1>5, RepFacts
  <2>. QED  BY <1>3, <2>1, RepFacts
<1>9. /\ \/ /\ Become(r, voted) /\ votes' = votes \cup {[from |-> r, node |-> h]}
            /\ Opinion(w, GetNode(s, h))
         \/ Become(r, w) /\ votes' = votes
      /\ UNCHANGED <<view, active, node, building, decides, synced>>
  BY Zenon DEF OnPropose
<1>10. PICK u : /\ \/ /\ u = voted /\ votes' = votes \cup {[from |-> r, node |-> h]}
                      /\ Opinion(w, GetNode(s, h))
                   \/ u = w /\ votes' = votes
                /\ rep' = [rep EXCEPT ![r] = u]
                /\ proofs' = proofs \cup Recorded(u)
  BY <1>9 DEF Become
<1>11. /\ u \in Rep /\ u.tree = w.tree /\ u.obj = w.obj
       /\ u.highQc = w.highQc /\ u.ledger = w.ledger
       /\ u.lastSequence = IF u = voted THEN node[h].sequence ELSE w.lastSequence
  <2>. HIDE DEF w
  <2>. QED  BY <1>1, <1>6, <1>10 DEF Rep
<1>12. votes \subseteq votes' /\ votes' \subseteq votes \cup {[from |-> r, node |-> h]}
  BY <1>9
<1>13. VotesForNodes'
  BY <1>9, <1>12 DEF IInv, VotesForNodes
<1>14. votes' \subseteq Vote
  BY <1>1, <1>12 DEF Vote, TypeOK
<1>17. Opinion(w, GetNode(s, h)) => node[h].sequence >= w.lastSequence
  <2>1. s.tree[h] > 0
    BY <1>1, <1>4, <1>5, RepFacts, HashType, ConsensusAssumption DEF Generation
  <2>2. GetNode(s, h)[1] = h
    <3>. HIDE DEF s
    <3>. QED  BY <1>1, <2>1 DEF GetNode, InTree
  <2>. HIDE DEF s, w
  <2>. QED  BY <2>2 DEF Opinion, Sequence
<1>. HIDE DEF w, s, voted, qc
<1>15. TypeOK'
  BY <1>1, <1>9, <1>10, <1>11, <1>14, TypeOfStep DEF TypeOK
<1>16. s.highQc \in {rep[r].highQc, qc} /\ s.ledger.proof \in {rep[r].ledger.proof, qc}
  BY <1>5
<1>18. IInv'
  BY <1>1, <1>6, <1>7, <1>8, <1>9, <1>10, <1>11, <1>12, <1>13, <1>15, <1>16,
     UpdateStepKeeps
<1>19. rep'[r].lastSequence = u.lastSequence /\ w.lastSequence = rep[r].lastSequence
  BY <1>1, <1>5, <1>6, <1>10 DEF TypeOK, Updated
<1>. QED  BY <1>10, <1>11, <1>17, <1>18, <1>19

LEMMA SyncKeeps ==
  ASSUME IInv, NEW r \in Replica, NEW qc \in proofs, Sync(r, qc)
  PROVE  IInv' /\ rep'[r].lastSequence >= rep[r].lastSequence
<1>. DEFINE h == qc.node
            l == [rep[r].ledger EXCEPT !.seq = qc.sequence, !.proof = qc]
            s == [rep[r] EXCEPT !.ledger = l]
            o == [NewObject EXCEPT !.decision = TRUE]
            t == AppendNode(s, h, o)
            p == GetNode(t, h)
            u == UpdateProof(s, qc)
<1>1. TypeOK /\ qc \in Qc /\ qc.sequence \in Nat /\ qc.view \in View
      /\ (qc = NoQc \/ Backed(qc))
  BY DEF IInv, TypeOK, AllBacked, AllQcs, Certificates, Qc
<1>2. Backed(qc) /\ h \in DOMAIN node /\ h \in Hash
  <2>1. qc.sequence > rep[r].ledger.seq
    BY DEF Sync, Ahead
  <2>2. qc # NoQc
    BY <2>1, RepFacts DEF NoQc
  <2>. QED  BY <1>1, <2>2, NodeType DEF Backed
<1>3. l \in Ledger /\ l.proof = qc
  BY <1>1, RepFacts DEF Ledger
<1>4. /\ s \in Rep /\ s.tree = rep[r].tree /\ s.obj = rep[r].obj
      /\ s.highQc = rep[r].highQc /\ s.ledger = l /\ s.lastSequence = rep[r].lastSequence
  <2>. HIDE DEF l
  <2>. QED  BY <1>3, RepFacts DEF Rep
<1>5. o \in Object /\ o.votes = {}
  BY DEF NewObject, Object, Ref
<1>6. /\ rep' = [rep EXCEPT ![r] = u] /\ proofs' = proofs \cup Recorded(u)
      /\ view' = [view EXCEPT ![r] = ViewOfProof(r, qc)]
      /\ active' = [active EXCEPT ![r] = @ \/ qc.view >= view[r]]
      /\ synced' = [synced EXCEPT ![r] = @ \cup {qc.node}]
      /\ UNCHANGED <<node, building, votes, decides>>
  BY Zenon DEF Sync, Become
<1>7. /\ u \in Rep
      /\ u.tree[Genesis] > 0
      /\ \A g \in Hash : u.tree[g] > 0 => g \in DOMAIN node
      /\ \A q \in Ptr : \A v \in u.obj[q].votes : q[1] \in DOMAIN node /\ VotedFor(v, q[1])
      /\ u.highQc \in {rep[r].highQc, qc}
      /\ u.ledger = l
      /\ u.lastSequence >= rep[r].lastSequence
  <2>1. CASE qc.sequence > rep[r].lastSequence
    <3>1. u = [t EXCEPT !.lastSequence = qc.sequence, !.lock = p, !.exec = p, !.highQc = qc]
      BY <1>4, <2>1, Zenon DEF UpdateProof
    <3>2. s.tree[h] + 1 \in Generation
      BY <1>2, <1>4, <1>1, <2>1, MayAppendType DEF Sync
    <3>3. /\ t \in Rep
          /\ t.tree = [s.tree EXCEPT ![h] = @ + 1]
          /\ t.obj = [s.obj EXCEPT ![<<h, s.tree[h] + 1>>] = o]
          /\ t.ledger = l
      <4>. HIDE DEF s, o, h, l
      <4>. QED  BY <1>2, <1>4, <1>5, <3>2, AppendNodeType
    <3>4. /\ s.tree \in [Hash -> {0} \cup Generation]
          /\ s.tree[Genesis] > 0
          /\ \A g \in Hash : s.tree[g] > 0 => g \in DOMAIN node
          /\ s.obj \in [Ptr -> Object]
      BY <1>4, RepFacts
    <3>5. \A g \in Hash : t.tree[g] = IF g = h THEN s.tree[h] + 1 ELSE s.tree[g]
      BY <3>3, <3>4
    <3>6. s.tree[h] + 1 > 0
      BY <3>2, HashType, ConsensusAssumption DEF Generation
    <3>7. t.tree[Genesis] > 0 /\ \A g \in Hash : t.tree[g] > 0 => g \in DOMAIN node
      <4>. HIDE DEF s, t, h
      <4>. QED  BY <1>2, <3>4, <3>5, <3>6, HashType
    <3>8. \A q \in Ptr : t.obj[q] = o \/ t.obj[q] = rep[r].obj[q]
      <4>. HIDE DEF o, t
      <4>. QED  BY <1>4, <3>3, <3>4
    <3>9. p \in Ptr
      <4>1. InTree(t, h)
        <5>. HIDE DEF t, s
        <5>. QED  BY <1>2, <3>5, <3>6 DEF InTree
      <4>2. p = <<h, t.tree[h]>>
        BY <4>1, Zenon DEF GetNode
      <4>3. t.tree[h] \in Generation
        <5>. HIDE DEF t, s
        <5>. QED  BY <1>2, <3>2, <3>5
      <4>. HIDE DEF p, t, h
      <4>. QED  BY <1>2, <4>2, <4>3 DEF Ptr
    <3>10. /\ u \in Rep /\ u.tree = t.tree /\ u.obj = t.obj /\ u.highQc = qc
           /\ u.ledger = l /\ u.lastSequence = qc.sequence
      <4>. HIDE DEF t, p, u, l
      <4>. QED  BY <1>1, <3>1, <3>3, <3>9 DEF Rep
    <3>11. rep[r].lastSequence \in Nat
      BY RepFacts DEF Rep
    <3>. HIDE DEF u, t, o
    <3>12. u.lastSequence >= rep[r].lastSequence
      BY <1>1, <2>1, <3>10, <3>11
    <3>. QED  BY <1>5, <3>7, <3>8, <3>10, <3>12, RepFacts
  <2>2. CASE ~ (qc.sequence > rep[r].lastSequence)
    <3>1. u = s
      BY <1>4, <2>2, Zenon DEF UpdateProof
    <3>2. rep[r].lastSequence \in Nat
      BY RepFacts DEF Rep
    <3>. HIDE DEF u, s, l
    <3>3. u.lastSequence >= rep[r].lastSequence
      BY <1>4, <3>1, <3>2
    <3>. QED  BY <1>4, <3>1, <3>3, RepFacts
  <2>. QED  BY <2>1, <2>2
<1>8. VotesForNodes'
  BY <1>6 DEF IInv, VotesForNodes
<1>. HIDE DEF u, s, l, t
<1>9. TypeOK'
  <2>1. ViewOfProof(r, qc) \in View
    BY <1>1 DEF ViewOfProof, TypeOK
  <2>2. view' \in [Replica -> View] /\ active' \in [Replica -> BOOLEAN]
    BY <1>1, <1>6, <2>1 DEF TypeOK
  <2>3. synced' \in [Replica -> SUBSET Hash]
    BY <1>1, <1>2, <1>6 DEF TypeOK
  <2>. QED  BY <1>1, <1>6, <1>7, <2>2, <2>3, TypeOfStep DEF TypeOK
<1>10. Updated(u, u, qc)
  BY <1>7, UpdatedRefl
<1>11. u.ledger.proof \in {rep[r].ledger.proof, qc}
  BY <1>3, <1>7
<1>12. IInv'
  BY <1>2, <1>6, <1>7, <1>8, <1>9, <1>10, <1>11, UpdateStepKeeps
<1>13. rep'[r].lastSequence >= rep[r].lastSequence
  BY <1>1, <1>6, <1>7 DEF TypeOK
<1>. QED  BY <1>12, <1>13

\* Of the nodes a tree holds, genesis among them, one has the highest sequence.
LEMMA HighestLeaf ==
  ASSUME IInv, NEW r \in Replica
  PROVE  GetHighestLeafHash(rep[r]) \in DOMAIN node
<1>. DEFINE n == Cardinality(DOMAIN node) - 1
            T == {h \in DOMAIN node : InTree(rep[r], h)}
            HasTop(k) == \E h \in T : h <= k /\ \A g \in T : g <= k => node[h].sequence >= node[g].sequence
            C == {k \in 0 .. n : ~ HasTop(k)}
<1>1. TypeOK
  BY DEF IInv
<1>2. DOMAIN node = 0 .. n /\ n \in Nat /\ Genesis \in DOMAIN node
  BY <1>1, NodeType DEF Genesis
<1>3. Genesis \in T
  BY <1>2, RepFacts, HashType DEF InTree
<1>4. \A h \in T : h \in 0 .. n /\ node[h].sequence \in Nat
  BY <1>1, <1>2, NodeType
<1>. HIDE DEF T, n
<1>5. C = {}
  <2>. SUFFICES ASSUME C # {} PROVE FALSE
    OBVIOUS
  <2>1. PICK k \in C : \A j \in C : ~ (j < k)
    <3>1. C \subseteq Nat
      BY <1>2
    <3>2. PICK k \in C : \A j \in C : ~ (<<j, k>> \in OpToRel(<, Nat))
      BY <3>1, NatLessThanWellFounded, WFMin, Zenon
    <3>3. \A j \in C : ~ (j < k)
      BY <3>1, <3>2 DEF OpToRel
    <3>. QED  BY <3>3
  <2>2. k \in 0 .. n /\ ~ HasTop(k)
    OBVIOUS
  <2>3. k # 0
    <3>1. Genesis = 0
      BY DEF Genesis
    <3>. QED  BY <1>3, <1>4, <2>2, <3>1
  <2>4. k - 1 \in 0 .. n /\ k - 1 < k
    BY <1>2, <2>2, <2>3
  <2>5. HasTop(k - 1)
    BY <2>1, <2>4
  <2>6. PICK h \in T : h <= k - 1 /\ \A g \in T : g <= k - 1 => node[h].sequence >= node[g].sequence
    BY <2>5
  <2>7. h <= k /\ \A g \in T : g <= k => g <= k - 1 \/ g = k
    BY <1>2, <1>4, <2>2, <2>6
  <2>8. CASE k \in T /\ node[k].sequence > node[h].sequence
    <3>1. \A g \in T : g <= k => node[k].sequence >= node[g].sequence
      BY <1>4, <2>6, <2>7, <2>8
    <3>. QED  BY <1>2, <2>2, <2>8, <3>1
  <2>9. CASE ~ (k \in T /\ node[k].sequence > node[h].sequence)
    <3>1. \A g \in T : g <= k => node[h].sequence >= node[g].sequence
      BY <1>4, <2>6, <2>7, <2>9
    <3>. QED  BY <2>2, <2>7, <3>1
  <2>. QED  BY <2>8, <2>9
<1>6. HasTop(n)
  BY <1>2, <1>5
<1>7. \E h \in DOMAIN node :
        /\ InTree(rep[r], h)
        /\ \A g \in DOMAIN node : InTree(rep[r], g) => node[h].sequence >= node[g].sequence
  BY <1>2, <1>4, <1>6 DEF T
<1>. QED  BY <1>7 DEF GetHighestLeafHash

LEMMA ProposeKeeps ==
  ASSUME IInv, NEW r \in Replica, Propose(r)
  PROVE  /\ IInv'
         /\ rep'[r].lastSequence >= rep[r].lastSequence
         /\ \/ node' = node
            \/ \E h : /\ DOMAIN node' = DOMAIN node \cup {h}
                      /\ \A g \in DOMAIN node : node'[g] = node[g]
                      /\ node'[h].view = view[r]
                      /\ IsLeader(r)
                      /\ node'[h].sequence >= rep[r].lastSequence
                      /\ node'[h].sequence = rep'[r].lastSequence
<1>. DEFINE seq  == building[r]
            led  == [rep[r].ledger EXCEPT !.lastConsSeq = rep[r].ledger.seq + 1]
            s    == [rep[r] EXCEPT !.ledger = led]
            used == [s EXCEPT !.lastSequence = seq]
            n    == NewNode(r, seq, s.ledger.proof)
            h    == Cardinality(DOMAIN node)
            own  == [NewObject EXCEPT !.qcRef = GetNode(s, n.qc.node), !.votes = {r}]
            grown == [g \in 0 .. h |-> IF g = h THEN n ELSE node[g]]
            qc   == rep[r].ledger.proof
<1>1. TypeOK /\ rep[r] \in Rep /\ seq \in Nat /\ view[r] \in View
  BY RepFacts DEF IInv, TypeOK
<1>2. led \in Ledger /\ led.proof = qc
  BY RepFacts DEF Ledger
<1>3. s = [rep[r] EXCEPT !.ledger.lastConsSeq = rep[r].ledger.seq + 1]
  OBVIOUS
<1>4. /\ s \in Rep /\ s.tree = rep[r].tree /\ s.obj = rep[r].obj
      /\ s.highQc = rep[r].highQc /\ s.ledger.proof = qc
      /\ s.lastSequence = rep[r].lastSequence
  <2>. HIDE DEF led
  <2>. QED  BY <1>1, <1>2 DEF Rep
<1>5. /\ used \in Rep /\ used.tree = rep[r].tree /\ used.obj = rep[r].obj
      /\ used.highQc = rep[r].highQc /\ used.ledger.proof = qc
      /\ used.lastSequence = seq
  <2>. HIDE DEF s
  <2>. QED  BY <1>1, <1>4 DEF Rep
<1>6. /\ DOMAIN node = 0 .. (h - 1) /\ h \in Nat /\ h - 1 >= 0
      /\ h \in Hash /\ h \notin DOMAIN node /\ h <= MaxNodes
  <2>1. DOMAIN node = 0 .. (h - 1) /\ h \in Nat /\ 0 \in DOMAIN node
    BY <1>1, NodeType DEF Genesis
  <2>2. h <= MaxNodes
    BY DEF Propose
  <2>. HIDE DEF h
  <2>. QED  BY <2>1, <2>2, ConsensusAssumption DEF Hash
<1>7. n \in Node /\ n.qc = qc /\ n.view = view[r] /\ n.sequence = seq
  <2>1. /\ n.view = view[r] /\ n.sequence = seq /\ n.qc = qc
        /\ n.parent = IF qc = NoQc THEN GetHighestLeafHash(rep[r]) ELSE qc.node
        /\ n = [view |-> n.view, sequence |-> n.sequence, parent |-> n.parent, qc |-> n.qc]
    <3>1. GetHighestLeafHash(s) = GetHighestLeafHash(rep[r])
      <4>. HIDE DEF s
      <4>. QED  BY <1>4 DEF GetHighestLeafHash, InTree
    <3>. HIDE DEF s
    <3>. QED  BY <1>4, <3>1 DEF NewNode
  <2>2. IF qc = NoQc THEN GetHighestLeafHash(rep[r]) \in DOMAIN node ELSE qc.node \in DOMAIN node
    BY HighestLeaf, RepFacts DEF Backed
  <2>3. n.parent \in Hash
    <3>. HIDE DEF n, qc
    <3>. QED  BY <1>1, <2>1, <2>2, NodeType
  <2>4. qc \in Qc
    BY RepFacts
  <2>. HIDE DEF n, qc, seq
  <2>. QED  BY <1>1, <2>1, <2>3, <2>4 DEF Node
<1>8. own \in Object /\ own.votes = {r}
  <2>1. GetNode(s, n.qc.node) \in Ref
    <3>. HIDE DEF s
    <3>. QED  BY <1>4, GetNodeType
  <2>. HIDE DEF s, n
  <2>. QED  BY <2>1 DEF NewObject, Object
<1>9. /\ \/ /\ \/ rep' = [rep EXCEPT ![r] = s]
               \/ seq >= s.lastSequence /\ rep' = [rep EXCEPT ![r] = used]
            /\ node' = node
         \/ /\ rep' = [rep EXCEPT ![r] = AppendNode(used, h, own)]
            /\ node' = grown
            /\ IsLeader(r)
            /\ seq >= s.lastSequence
      /\ building' = [building EXCEPT ![r] = 0]
      /\ UNCHANGED <<view, active, votes, decides, proofs, synced>>
  <2>. HIDE DEF own
  <2>. QED  BY <1>3, Zenon DEF Propose, own
<1>. HIDE DEF led, n, own, h, seq, s, used
<1>10. ASSUME NEW u \in Rep, rep' = [rep EXCEPT ![r] = u],
              u.highQc = rep[r].highQc, u.ledger.proof = qc,
              u.tree[Genesis] > 0,
              \A g \in Hash : u.tree[g] > 0 => g \in DOMAIN node',
              \A q \in Ptr : \A v \in u.obj[q].votes : q[1] \in DOMAIN node' /\ VotedFor(v, q[1])',
              \E k \in Hash : node' \in [0 .. k -> Node \cup {GenesisNode}],
              Grows,
              \A g \in DOMAIN node' : g \in DOMAIN node \/ node'[g].qc = qc
       PROVE  IInv'
  <2>1. rep' \in [Replica -> Rep] /\ rep'[r] = u /\ \A q \in Replica \ {r} : rep'[q] = rep[q]
    BY <1>1, <1>10 DEF TypeOK
  <2>2. TypeOK'
    BY <1>1, <1>9, <1>10, <2>1 DEF TypeOK
  <2>3. VotesForNodes'
    BY <1>9, <1>10 DEF IInv, VotesForNodes, Grows
  <2>4. \A x \in AllQcs' : x \in AllQcs \/ x \in {qc}
    <3>1. \A g \in DOMAIN node' : (\E k \in DOMAIN node : node'[g].qc = node[k].qc) \/ node'[g].qc \in {qc}
      BY <1>10 DEF Grows
    <3>. QED  BY <1>1, <1>9, <1>10, <3>1, QcsOfStep
  <2>5. \A x \in AllQcs' : x \in AllQcs \/ Backed(x)'
    <3>1. NoQc \notin AllQcs'
      BY DEF AllQcs
    <3>. QED  BY <1>10, <2>4, <3>1, RepFacts, BackedStays
  <2>. QED  BY <1>10, <2>1, <2>2, <2>3, <2>5, StepKeeps
<1>11. CASE node' = node
  <2>1. Grows
    BY <1>9, <1>11 DEF Grows
  <2>2. \E k \in Hash : node' \in [0 .. k -> Node \cup {GenesisNode}]
    BY <1>1, <1>11 DEF TypeOK
  <2>3. \A g \in DOMAIN node : VotedFor(r, g)' <=> VotedFor(r, g)
    BY <1>9, <1>11 DEF VotedFor
  <2>4. PICK u : /\ u = s \/ (u = used /\ seq >= s.lastSequence)
                 /\ rep' = [rep EXCEPT ![r] = u]
    <3>1. h \in DOMAIN grown
      BY <1>6
    <3>. QED  BY <1>6, <1>9, <1>11, <3>1
  <2>5. /\ u \in Rep /\ u.tree = rep[r].tree /\ u.obj = rep[r].obj
        /\ u.highQc = rep[r].highQc /\ u.ledger.proof = qc
    BY <1>4, <1>5, <2>4
  <2>6. \A q \in Ptr : \A v \in u.obj[q].votes : q[1] \in DOMAIN node' /\ VotedFor(v, q[1])'
    BY <1>11, <2>1, <2>5, RepFacts, VotedForStays
  <2>7. IInv'
    BY <1>10, <1>11, <2>1, <2>2, <2>4, <2>5, <2>6, RepFacts
  <2>8. rep[r].lastSequence \in Nat
    BY <1>1 DEF Rep
  <2>9. rep'[r].lastSequence >= rep[r].lastSequence
    BY <1>1, <1>4, <1>5, <2>4, <2>8 DEF TypeOK
  <2>. QED  BY <1>11, <2>7, <2>9
<1>12. CASE /\ node' = grown /\ IsLeader(r) /\ seq >= s.lastSequence
            /\ rep' = [rep EXCEPT ![r] = AppendNode(used, h, own)]
  <2>. DEFINE w == AppendNode(used, h, own)
  <2>1. /\ DOMAIN node' = 0 .. h /\ node'[h] = n
        /\ \A g \in DOMAIN node : g \in DOMAIN node' /\ node'[g] = node[g]
        /\ \A g \in DOMAIN node' : g \in DOMAIN node \/ g = h
    BY <1>6, <1>12
  <2>2. Grows
    BY <1>9, <2>1 DEF Grows
  <2>3. node' \in [0 .. h -> Node \cup {GenesisNode}]
    <3>1. \A g \in 0 .. h : node'[g] \in Node \cup {GenesisNode}
      BY <1>1, <1>7, <2>1, NodeType
    <3>. QED  BY <1>12, <3>1
  <2>4. used.tree[h] = 0
    <3>1. used.tree[h] \in {0} \cup Generation /\ ~ (used.tree[h] > 0)
      BY <1>5, <1>6, RepFacts
    <3>. QED  BY <3>1, HashType, ConsensusAssumption DEF Generation
  <2>5. /\ w \in Rep
        /\ w.tree = [rep[r].tree EXCEPT ![h] = 1]
        /\ w.obj = [rep[r].obj EXCEPT ![<<h, 1>>] = own]
        /\ w.highQc = rep[r].highQc
        /\ w.ledger.proof = qc
        /\ w.lastSequence = seq
    <3>1. used.tree[h] + 1 = 1 /\ 1 \in Generation
      BY <2>4, HashType
    <3>2. /\ w \in Rep
          /\ w.tree = [used.tree EXCEPT ![h] = @ + 1]
          /\ w.obj = [used.obj EXCEPT ![<<h, used.tree[h] + 1>>] = own]
          /\ w.highQc = used.highQc
          /\ w.ledger = used.ledger
          /\ w.lastSequence = used.lastSequence
      BY <1>5, <1>6, <1>8, <3>1, AppendNodeType
    <3>. HIDE DEF w
    <3>. QED  BY <1>5, <3>1, <3>2
  <2>. HIDE DEF w, grown
  <2>6. w.tree[Genesis] > 0 /\ \A g \in Hash : w.tree[g] > 0 => g \in DOMAIN node'
    <3>1. \A g \in Hash : w.tree[g] = IF g = h THEN 1 ELSE rep[r].tree[g]
      BY <2>5, RepFacts
    <3>2. h \in DOMAIN node'
      BY <1>6, <2>1
    <3>3. rep[r].tree[Genesis] > 0 /\ \A g \in Hash : rep[r].tree[g] > 0 => g \in DOMAIN node
      BY RepFacts
    <3>4. w.tree[Genesis] > 0
      BY <3>1, <3>3, HashType
    <3>5. \A g \in Hash : w.tree[g] > 0 => g \in DOMAIN node'
      BY <2>1, <3>1, <3>2, <3>3
    <3>. QED  BY <3>4, <3>5
  <2>. PICK k : k = h
    OBVIOUS
  <2>7. VotedFor(r, k)'
    <3>1. node'[k].view = view[r]
      BY <1>7, <2>1
    <3>2. GetLeaderId(view[r]) = r
      BY <1>12 DEF IsLeader
    <3>. QED  BY <3>1, <3>2 DEF VotedFor, GetLeaderId
  <2>8. \A q \in Ptr : \A v \in w.obj[q].votes : q[1] \in DOMAIN node' /\ VotedFor(v, q[1])'
    <3>. SUFFICES ASSUME NEW q \in Ptr, NEW v \in w.obj[q].votes
                  PROVE  q[1] \in DOMAIN node' /\ VotedFor(v, q[1])'
      OBVIOUS
    <3>1. CASE q = <<h, 1>>
      <4>1. v = r /\ q[1] = k
        BY <1>8, <2>5, <3>1, RepFacts
      <4>. QED  BY <1>6, <2>1, <2>7, <4>1 DEF VotedFor
    <3>2. CASE q # <<h, 1>>
      <4>1. v \in rep[r].obj[q].votes
        BY <2>5, <3>2, RepFacts
      <4>. QED  BY <2>1, <2>2, <4>1, RepFacts, VotedForStays
    <3>. QED  BY <3>1, <3>2
  <2>9. \A g \in DOMAIN node' : g \in DOMAIN node \/ node'[g].qc = qc
    BY <1>7, <2>1
  <2>10. rep' = [rep EXCEPT ![r] = w]
    BY <1>12 DEF w
  <2>11. IInv'
    BY <1>6, <1>10, <2>2, <2>3, <2>5, <2>6, <2>8, <2>9, <2>10
  <2>12. rep'[r].lastSequence = seq
    BY <1>1, <2>5, <2>10 DEF TypeOK
  <2>13. DOMAIN node' = DOMAIN node \cup {h} /\ \A g \in DOMAIN node : node'[g] = node[g]
    BY <1>6, <2>1
  <2>14. node'[h].view = view[r] /\ node'[h].sequence = seq
    BY <1>7, <2>1
  <2>. QED  BY <1>4, <1>12, <2>11, <2>12, <2>13, <2>14
<1>. QED  BY <1>9, <1>11, <1>12

-----------------------------------------------------------------------------
(* Theorems                                                                *)

LEMMA NextKeeps == IInv /\ [Next]_vars => IInv'
<1>. SUFFICES ASSUME IInv, [Next]_vars PROVE IInv'
  OBVIOUS
<1>1. CASE UNCHANGED vars
  <2>1. TypeOK'
    BY <1>1 DEF IInv, TypeOK, vars
  <2>. QED  BY <1>1, <2>1, QuietKeeps DEF vars
<1>2. ASSUME NEW r \in Replica, StartConsensus(r)
      PROVE  IInv'
  BY <1>2, StartConsensusKeeps
<1>3. ASSUME NEW r \in Replica, Propose(r)
      PROVE  IInv'
  BY <1>3, ProposeKeeps
<1>4. ASSUME NEW r \in Replica, NEW h \in DOMAIN node \ {Genesis}, OnPropose(r, h)
      PROVE  IInv'
  BY <1>4, OnProposeKeeps
<1>5. ASSUME NEW r \in Replica, NEW vote \in votes, OnVote(r, vote)
      PROVE  IInv'
  BY <1>5, OnVoteKeeps
<1>6. ASSUME NEW r \in Replica, NEW qc \in decides, OnDecide(r, qc)
      PROVE  IInv'
  BY <1>6, OnDecideKeeps
<1>7. ASSUME NEW r \in Replica, SetViewInActive(r)
      PROVE  IInv'
  BY <1>7, SetViewInActiveKeeps
<1>8. ASSUME NEW r \in Replica, NEW v \in View, NEW qc \in decides \cup proofs \cup {NoQc},
             ViewChanged(r, v, qc)
      PROVE  IInv'
  BY <1>8, ViewChangedKeeps
<1>9. ASSUME NEW r \in Replica, NEW qc \in proofs, Sync(r, qc)
      PROVE  IInv'
  BY <1>9, SyncKeeps
<1>. QED  BY <1>1, <1>2, <1>3, <1>4, <1>5, <1>6, <1>7, <1>8, <1>9 DEF Next

\* IInv is an invariant: the trees, the votes that are counted and the certificates
\* stay within what was made and sent.
THEOREM Invariance == Spec => []IInv
<1>. QED  BY InitIInv, NextKeeps, PTL DEF Spec

\* Whatever the number of validators and the bounds, the state keeps its types:
\* every object, lock and certificate is one the engine can hold.
THEOREM TypeCorrect == Spec => []TypeOK
<1>1. IInv => TypeOK
  BY DEF IInv
<1>. QED  BY <1>1, Invariance, PTL

\* Certificates in DECIDEs, proofs, proposals and ledgers are of nodes that a
\* quorum voted for, through any interleaving of late votes, proposals received
\* again, view changes and synchronisation.
THEOREM CertificatesHeld == Spec => []CertificatesBacked
<1>1. IInv => CertificatesBacked
  BY DEF IInv, AllBacked, Backed, CertificatesBacked
<1>. QED  BY <1>1, Invariance, PTL

-----------------------------------------------------------------------------
(* Why the sequences of certificates do not fall from view to view until the *)
(* leaders come round again: what m_lastSequence and the check of the view   *)
(* make of the order in which a replica votes.                               *)

\* A replica has seen the sequence of all it voted for, votes for no node of a
\* view before view N that it has not reached, and votes for sequences that do
\* not fall from view to view.
VotesInOrder ==
  \A r \in Replica : \A h \in DOMAIN node :
    VotedFor(r, h) =>
      /\ node[h].sequence <= rep[r].lastSequence
      /\ node[h].view < N => node[h].view <= view[r]
      /\ \A g \in DOMAIN node :
           VotedFor(r, g) /\ node[g].view < node[h].view /\ node[h].view < N
             => node[g].sequence <= node[h].sequence

OrderInv == IInv /\ VotesInOrder

\* In a step the replica q votes for the node h: one of its own view, unless of a
\* view from N on, and of a sequence not below the highest it has seen.
VotesNow(q, h) ==
  /\ node'[h].sequence >= rep[q].lastSequence
  /\ node'[h].sequence <= rep'[q].lastSequence
  /\ node'[h].view < N => node'[h].view = view[q]

-----------------------------------------------------------------------------

LEMMA InitVotesInOrder == Init => VotesInOrder
<1>. SUFFICES ASSUME Init PROVE VotesInOrder
  OBVIOUS
<1>1. DOMAIN node = {Genesis} /\ node[Genesis].sequence = 1 /\ node[Genesis].view = 0
  BY DEF Init, GenesisNode
<1>2. \A r \in Replica : rep[r].lastSequence = 1 /\ view[r] = 0
  BY DEF Init, InitialRep
<1>. QED  BY <1>1, <1>2 DEF VotesInOrder

NodesNumbered ==
  \A k \in DOMAIN node : node[k].sequence \in Nat /\ node[k].view \in Nat

LEMMA NodeNumbers == TypeOK => NodesNumbered
BY NodeType, ViewType DEF NodesNumbered

LEMMA NodeNumbersNext == TypeOK' => NodesNumbered'
BY NodeNumbers, PTL

\* Views and the highest sequences seen only grow, so it is enough to look at the
\* votes of the step.
LEMMA OrderStep ==
  ASSUME OrderInv, IInv', DOMAIN node \subseteq DOMAIN node',
         \A h \in DOMAIN node : node'[h] = node[h],
         \A q \in Replica : view'[q] >= view[q] /\ rep'[q].lastSequence >= rep[q].lastSequence,
         \A q \in Replica : \A h \in DOMAIN node' :
           VotedFor(q, h)' => (h \in DOMAIN node /\ VotedFor(q, h)) \/ VotesNow(q, h)
  PROVE  VotesInOrder'
<1>. SUFFICES ASSUME NEW q \in Replica, NEW h \in DOMAIN node', VotedFor(q, h)'
              PROVE  /\ node'[h].sequence <= rep'[q].lastSequence
                     /\ node'[h].view < N => node'[h].view <= view'[q]
                     /\ \A g \in DOMAIN node' :
                          VotedFor(q, g)' /\ node'[g].view < node'[h].view /\ node'[h].view < N
                            => node'[g].sequence <= node'[h].sequence
  BY Zenon DEF VotesInOrder
<1>1. /\ \A k \in DOMAIN node' : node'[k].sequence \in Nat /\ node'[k].view \in Nat
      /\ view[q] \in Nat /\ view'[q] \in Nat
      /\ rep[q].lastSequence \in Nat /\ rep'[q].lastSequence \in Nat
      /\ N \in Nat
  <2>1. TypeOK /\ TypeOK'
    BY DEF OrderInv, IInv
  <2>2. view[q] \in Nat /\ view'[q] \in Nat
    <3>1. view[q] \in View /\ view'[q] \in View
      BY <2>1 DEF TypeOK
    <3>. QED  BY <3>1, ViewType
  <2>3. rep[q].lastSequence \in Nat /\ rep'[q].lastSequence \in Nat
    <3>1. rep[q] \in Rep /\ rep'[q] \in Rep
      BY <2>1 DEF TypeOK
    <3>. QED  BY <3>1 DEF Rep
  <2>. QED  BY <2>1, <2>2, <2>3, NodeNumbersNext, NAssumption DEF NodesNumbered
<1>2. view'[q] >= view[q] /\ rep'[q].lastSequence >= rep[q].lastSequence
  OBVIOUS
<1>3. \A k \in DOMAIN node : VotedFor(q, k) =>
        /\ node'[k].sequence <= rep[q].lastSequence
        /\ node'[k].view < N => node'[k].view <= view[q]
  BY DEF OrderInv, VotesInOrder
<1>4. \A g, k \in DOMAIN node :
        VotedFor(q, g) /\ VotedFor(q, k) /\ node'[g].view < node'[k].view /\ node'[k].view < N
          => node'[g].sequence <= node'[k].sequence
  BY DEF OrderInv, VotesInOrder
<1>5. CASE h \in DOMAIN node /\ VotedFor(q, h)
  <2>1. node'[h].sequence <= rep'[q].lastSequence /\ (node'[h].view < N => node'[h].view <= view'[q])
    BY <1>1, <1>2, <1>3, <1>5
  <2>2. ASSUME NEW g \in DOMAIN node', VotedFor(q, g)',
               node'[g].view < node'[h].view, node'[h].view < N
        PROVE  node'[g].sequence <= node'[h].sequence
    <3>1. CASE g \in DOMAIN node /\ VotedFor(q, g)
      BY <1>4, <1>5, <2>2, <3>1
    <3>2. CASE VotesNow(q, g)
      <4>1. node'[g].view = view[q] /\ node'[h].view <= view[q]
        BY <1>1, <1>3, <1>5, <2>2, <3>2 DEF VotesNow
      <4>. QED  BY <1>1, <2>2, <4>1
    <3>. QED  BY <2>2, <3>1, <3>2
  <2>. QED  BY <2>1, <2>2
<1>6. CASE VotesNow(q, h)
  <2>1. node'[h].sequence <= rep'[q].lastSequence /\ (node'[h].view < N => node'[h].view <= view'[q])
    BY <1>1, <1>2, <1>6 DEF VotesNow
  <2>2. ASSUME NEW g \in DOMAIN node', VotedFor(q, g)',
               node'[g].view < node'[h].view, node'[h].view < N
        PROVE  node'[g].sequence <= node'[h].sequence
    <3>1. CASE g \in DOMAIN node /\ VotedFor(q, g)
      <4>1. node'[g].sequence <= rep[q].lastSequence /\ rep[q].lastSequence <= node'[h].sequence
        BY <1>1, <1>3, <1>6, <3>1 DEF VotesNow
      <4>. QED  BY <1>1, <4>1
    <3>2. CASE VotesNow(q, g)
      <4>1. node'[g].view = view[q] /\ node'[h].view = view[q]
        BY <1>1, <1>6, <2>2, <3>2 DEF VotesNow
      <4>. QED  BY <1>1, <2>2, <4>1
    <3>. QED  BY <2>2, <3>1, <3>2
  <2>. QED  BY <2>1, <2>2
<1>. QED  BY <1>5, <1>6

-----------------------------------------------------------------------------
(* The steps                                                               *)

\* Views before view N have leaders of their own.
LEMMA LeadersDiffer ==
  ASSUME NEW v \in Nat, NEW w \in Nat, v <= w, w < N, GetLeaderId(v) = GetLeaderId(w)
  PROVE  v = w
<1>1. \A n \in Nat \ {0} : \A x \in Nat : x < n => x % n = x
  OBVIOUS
<1>. QED  BY <1>1, NAssumption DEF GetLeaderId

\* A step of r in which nobody votes and no node is made.
LEMMA NoVoteStep ==
  ASSUME OrderInv, IInv', NEW r \in Replica, UNCHANGED <<node, votes>>,
         \A q \in Replica \ {r} : view'[q] = view[q] /\ rep'[q] = rep[q],
         view'[r] >= view[r], rep'[r].lastSequence >= rep[r].lastSequence
  PROVE  VotesInOrder'
<1>1. \A q \in Replica : view[q] \in Nat /\ rep[q].lastSequence \in Nat
  BY ViewType DEF OrderInv, IInv, TypeOK, Rep
<1>2. \A q \in Replica : view'[q] >= view[q] /\ rep'[q].lastSequence >= rep[q].lastSequence
  BY <1>1
<1>3. \A q \in Replica : \A h \in DOMAIN node' : VotedFor(q, h)' => VotedFor(q, h)
  BY DEF VotedFor
<1>. QED  BY <1>2, <1>3, OrderStep

LEMMA NextKeepsOrder == OrderInv /\ [Next]_vars => VotesInOrder'
<1>. SUFFICES ASSUME OrderInv, [Next]_vars PROVE VotesInOrder'
  OBVIOUS
<1>1. IInv /\ IInv' /\ TypeOK /\ TypeOK'
  BY NextKeeps DEF OrderInv, IInv
<1>2. \A q \in Replica : /\ view[q] \in Nat /\ view'[q] \in Nat
                         /\ rep[q].lastSequence \in Nat
  BY <1>1, ViewType DEF TypeOK, Rep
<1>3. CASE UNCHANGED vars
  BY <1>1, <1>3 DEF OrderInv, VotesInOrder, VotedFor, vars
<1>4. ASSUME NEW r \in Replica, StartConsensus(r)
      PROVE  VotesInOrder'
  BY <1>1, <1>2, <1>4, NoVoteStep DEF StartConsensus
<1>5. ASSUME NEW r \in Replica, NEW vote \in votes, OnVote(r, vote)
      PROVE  VotesInOrder'
  <2>1. rep'[r].lastSequence = rep[r].lastSequence
    BY <1>1, <1>5, OnVoteKeeps
  <2>2. UNCHANGED <<view, node, votes>> /\ \E u : rep' = [rep EXCEPT ![r] = u]
    BY <1>5, Zenon DEF OnVote, Become
  <2>3. \A q \in Replica \ {r} : rep'[q] = rep[q]
    BY <1>1, <2>2 DEF TypeOK
  <2>. QED  BY <1>1, <1>2, <2>1, <2>2, <2>3, NoVoteStep
<1>6. ASSUME NEW r \in Replica, NEW qc \in decides, OnDecide(r, qc)
      PROVE  VotesInOrder'
  <2>1. rep'[r].lastSequence = rep[r].lastSequence
    BY <1>1, <1>6, OnDecideKeeps
  <2>2. UNCHANGED <<view, node, votes>> /\ \E u : rep' = [rep EXCEPT ![r] = u]
    BY <1>6, Zenon DEF OnDecide, Become
  <2>3. \A q \in Replica \ {r} : rep'[q] = rep[q]
    BY <1>1, <2>2 DEF TypeOK
  <2>. QED  BY <1>1, <1>2, <2>1, <2>2, <2>3, NoVoteStep
<1>7. ASSUME NEW r \in Replica, SetViewInActive(r)
      PROVE  VotesInOrder'
  BY <1>1, <1>2, <1>7, NoVoteStep DEF SetViewInActive
<1>8. ASSUME NEW r \in Replica, NEW v \in View, NEW qc \in decides \cup proofs \cup {NoQc},
             ViewChanged(r, v, qc)
      PROVE  VotesInOrder'
  <2>1. rep'[r].lastSequence = rep[r].lastSequence
    BY <1>1, <1>8, ViewChangedKeeps
  <2>2. /\ UNCHANGED <<node, votes>> /\ v > view[r] /\ view' = [view EXCEPT ![r] = v]
        /\ \E u : rep' = [rep EXCEPT ![r] = u]
    BY <1>8, Zenon DEF ViewChanged, Become
  <2>3. view'[r] = v /\ \A q \in Replica \ {r} : rep'[q] = rep[q] /\ view'[q] = view[q]
    BY <1>1, <2>2 DEF TypeOK
  <2>4. view'[r] >= view[r] /\ rep'[r].lastSequence >= rep[r].lastSequence
    BY <1>2, <2>1, <2>2, <2>3
  <2>. QED  BY <1>1, <2>2, <2>3, <2>4, NoVoteStep
<1>9. ASSUME NEW r \in Replica, NEW qc \in proofs, Sync(r, qc)
      PROVE  VotesInOrder'
  <2>1. rep'[r].lastSequence >= rep[r].lastSequence
    BY <1>1, <1>9, SyncKeeps
  <2>2. /\ UNCHANGED <<node, votes>> /\ view' = [view EXCEPT ![r] = ViewOfProof(r, qc)]
        /\ \E u : rep' = [rep EXCEPT ![r] = u]
    BY <1>9, Zenon DEF Sync, Become
  <2>3. view'[r] = ViewOfProof(r, qc) /\ \A q \in Replica \ {r} : rep'[q] = rep[q] /\ view'[q] = view[q]
    BY <1>1, <2>2 DEF TypeOK
  <2>4. view'[r] >= view[r]
    BY <1>2, <2>3 DEF ViewOfProof
  <2>. QED  BY <1>1, <2>1, <2>2, <2>3, <2>4, NoVoteStep
<1>10. ASSUME NEW r \in Replica, Propose(r)
       PROVE  VotesInOrder'
  <2>1. /\ UNCHANGED <<view, votes>>
        /\ \A q \in Replica \ {r} : rep'[q] = rep[q]
    <3>1. UNCHANGED <<view, votes>> /\ \E u : rep' = [rep EXCEPT ![r] = u]
      BY <1>10, Zenon DEF Propose
    <3>. QED  BY <1>1, <3>1 DEF TypeOK
  <2>2. rep'[r].lastSequence >= rep[r].lastSequence
    BY <1>1, <1>10, ProposeKeeps
  <2>3. CASE node' = node
    BY <1>1, <1>2, <2>1, <2>2, <2>3, NoVoteStep
  <2>4. CASE node' # node
    <3>1. PICK h : /\ DOMAIN node' = DOMAIN node \cup {h}
                   /\ \A g \in DOMAIN node : node'[g] = node[g]
                   /\ node'[h].view = view[r]
                   /\ IsLeader(r)
                   /\ node'[h].sequence >= rep[r].lastSequence
                   /\ node'[h].sequence = rep'[r].lastSequence
      BY <1>1, <1>10, <2>4, ProposeKeeps
    <3>2. VotesNow(r, h)
      <4>1. rep'[r].lastSequence \in Nat
        BY <1>1 DEF TypeOK, Rep
      <4>. QED  BY <3>1, <4>1 DEF VotesNow
    <3>3. ASSUME NEW q \in Replica, NEW g \in DOMAIN node', VotedFor(q, g)'
          PROVE  (g \in DOMAIN node /\ VotedFor(q, g)) \/ VotesNow(q, g)
      <4>1. CASE g \in DOMAIN node
        BY <2>1, <3>1, <3>3, <4>1 DEF VotedFor
      <4>2. CASE g \notin DOMAIN node
        <5>1. g = h /\ GetLeaderId(node'[g].view) = r
          BY <3>1, <4>2 DEF IsLeader
        <5>2. [from |-> q, node |-> g] \notin votes'
          BY <1>1, <2>1, <4>2 DEF IInv, VotesForNodes
        <5>3. q = r
          BY <3>3, <5>1, <5>2 DEF VotedFor, GetLeaderId
        <5>. QED  BY <3>2, <5>1, <5>3
      <4>. QED  BY <4>1, <4>2
    <3>4. \A q \in Replica : view'[q] >= view[q] /\ rep'[q].lastSequence >= rep[q].lastSequence
      BY <1>2, <2>1, <2>2
    <3>. QED  BY <1>1, <3>1, <3>3, <3>4, OrderStep
  <2>. QED  BY <2>3, <2>4
<1>11. ASSUME NEW r \in Replica, NEW h \in DOMAIN node \ {Genesis}, OnPropose(r, h)
       PROVE  VotesInOrder'
  <2>1. /\ UNCHANGED <<view, node>>
        /\ \A q \in Replica \ {r} : rep'[q] = rep[q]
    <3>1. UNCHANGED <<view, node>> /\ \E u : rep' = [rep EXCEPT ![r] = u]
      BY <1>11, Zenon DEF OnPropose, Become
    <3>. QED  BY <1>1, <3>1 DEF TypeOK
  <2>2. CASE votes' = votes /\ rep'[r].lastSequence = rep[r].lastSequence
    BY <1>1, <1>2, <2>1, <2>2, NoVoteStep
  <2>3. CASE /\ votes' = votes \cup {[from |-> r, node |-> h]}
             /\ node[h].sequence >= rep[r].lastSequence
             /\ rep'[r].lastSequence = node[h].sequence
    <3>1. VotesNow(r, h)
      <4>1. node[h].view >= view[r] /\ GetLeaderId(node[h].view) = GetLeaderId(view[r])
        BY <1>11 DEF OnPropose, Accepts, FromLeader
      <4>2. node[h].view \in Nat /\ node[h].sequence \in Nat
        BY <1>1, NodeNumbers DEF NodesNumbered
      <4>3. node[h].view < N => node[h].view = view[r]
        BY <1>2, <4>1, <4>2, LeadersDiffer
      <4>. QED  BY <2>1, <2>3, <4>2, <4>3 DEF VotesNow
    <3>2. ASSUME NEW q \in Replica, NEW g \in DOMAIN node', VotedFor(q, g)'
          PROVE  (g \in DOMAIN node /\ VotedFor(q, g)) \/ VotesNow(q, g)
      <4>1. VotedFor(q, g) \/ (q = r /\ g = h)
        BY <2>1, <2>3, <3>2 DEF VotedFor
      <4>. QED  BY <2>1, <3>1, <4>1
    <3>3. \A q \in Replica : view'[q] >= view[q] /\ rep'[q].lastSequence >= rep[q].lastSequence
      BY <1>2, <2>1, <2>3
    <3>. QED  BY <1>1, <2>1, <3>2, <3>3, OrderStep
  <2>. QED  BY <1>1, <1>11, <2>2, <2>3, OnProposeKeeps
<1>. QED  BY <1>3, <1>4, <1>5, <1>6, <1>7, <1>8, <1>9, <1>10, <1>11 DEF Next

-----------------------------------------------------------------------------
(* Theorems                                                                *)

\* Every replica votes in the order that VotesInOrder states, whatever messages
\* arrive and in whatever order, and wherever its ledger synchronises to.
THEOREM OrderInvariance == Spec => []OrderInv
<1>1. Init => OrderInv
  BY InitIInv, InitVotesInOrder DEF OrderInv
<1>2. OrderInv /\ [Next]_vars => OrderInv'
  BY NextKeeps, NextKeepsOrder DEF OrderInv
<1>. QED  BY <1>1, <1>2, PTL DEF Spec

\* For every number of validators, a certificate of an earlier view is of no
\* higher sequence than one of a later view, until the leaders come round again:
\* a replica in both quorums voted for both nodes, in order.
THEOREM SequencesGrow == Spec => []SequencesGrowWithViews
<1>1. OrderInv => SequencesGrowWithViews
  <2>. SUFFICES ASSUME OrderInv, NEW a \in Certificates, NEW b \in Certificates,
                       a.view < b.view, b.view < N
                PROVE  a.sequence <= b.sequence
    BY DEF SequencesGrowWithViews
  <2>1. TypeOK /\ a \in Qc /\ b \in Qc
    BY DEF OrderInv, IInv, TypeOK, Certificates
  <2>2. a.sequence \in Nat /\ b.sequence \in Nat /\ a.view \in Nat /\ b.view \in Nat
    BY <2>1, ViewType DEF Qc
  <2>3. b # NoQc
    BY <2>2 DEF NoQc
  <2>4. CASE a = NoQc
    BY <2>2, <2>4 DEF NoQc
  <2>5. CASE a # NoQc
    <3>1. Backed(a) /\ Backed(b)
      BY <2>3, <2>5 DEF OrderInv, IInv, AllBacked, AllQcs
    <3>2. PICK r \in Replica : VotedFor(r, a.node) /\ VotedFor(r, b.node)
      <4>1. a.signers \in SUBSET Replica /\ b.signers \in SUBSET Replica
        BY <2>1 DEF Qc
      <4>. QED  BY <3>1, <4>1, QuorumsMeet DEF Backed
    <3>. QED  BY <3>1, <3>2 DEF OrderInv, VotesInOrder, Backed
  <2>. QED  BY <2>4, <2>5
<1>. QED  BY <1>1, OrderInvariance, PTL
=============================================================================
