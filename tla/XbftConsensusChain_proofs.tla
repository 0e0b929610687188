--------------------- MODULE XbftConsensusChain_proofs ---------------------
(***************************************************************************)
(* What the chain of certificates guarantees for every number of validators *)
(* and every bound: that certified nodes extend their parents, in which     *)
(* order values are handed over, what is executed, how locks move, and that *)
(* the walk of update does not leave the tree without a synchronised proof. *)
(***************************************************************************)
EXTENDS XbftConsensus_proofs, SequenceTheorems

-----------------------------------------------------------------------------
(* The walk along the parents                                              *)

\* What the walk of Trail looks at: the parent of a node was made before it.
ParentsBefore == \A h \in DOMAIN node : node[h].parent < h

\* The nodes that the tree of s holds were made.
TreeMade(s) == \A h \in Hash : s.tree[h] > 0 => h \in DOMAIN node

\* One step of the walk, whose rest is f.
TrailStep(s, floor, f, q) ==
  IF q = Null \/ Sequence(q) <= floor
  THEN <<q>>
  ELSE <<q>> \o f[GetNode(s, ParentHash(q))]

IsTrail(s, floor, f) == f = [q \in Ref |-> TrailStep(s, floor, f, q)]

\* The function from of Trail.
TrailFrom(s, floor) == CHOOSE f : IsTrail(s, floor, f)

LEMMA TrailIsFrom ==
  ASSUME NEW s, NEW p, NEW floor
  PROVE  Trail(s, p, floor) = TrailFrom(s, floor)[p]
BY DEF Trail, TrailFrom, IsTrail, TrailStep

\* Null, and what the tree holds of the first k nodes.
Upto(k) == {q \in Ref : q = Null \/ (q[1] \in DOMAIN node /\ q[1] < k)}

\* The walk goes on from a node to one of a smaller hash, or ends.
LEMMA WalkGoesDown ==
  ASSUME TypeOK, ParentsBefore, NEW s \in Rep, TreeMade(s), NEW k \in Nat,
         NEW q \in Upto(k + 1), q # Null
  PROVE  GetNode(s, ParentHash(q)) \in Upto(k)
<1>. DEFINE g == ParentHash(q)
<1>1. q[1] \in DOMAIN node /\ q[1] < k + 1 /\ q[1] \in Nat
  BY NodeType, HashType DEF Upto
<1>2. g < q[1]
  BY <1>1 DEF ParentsBefore, ParentHash
<1>. HIDE DEF g
<1>3. GetNode(s, g) \in Ref
  BY GetNodeType
<1>4. CASE GetNode(s, g) = Null
  BY <1>3, <1>4 DEF Upto, g
<1>5. CASE GetNode(s, g) # Null
  <2>1. g \in Hash /\ s.tree[g] > 0 /\ GetNode(s, g) = <<g, s.tree[g]>>
    BY <1>5, GetNodeType
  <2>2. g \in DOMAIN node /\ g \in Nat
    BY <2>1, HashType DEF TreeMade
  <2>3. g < k
    BY <1>1, <1>2, <2>2
  <2>. QED  BY <1>3, <2>1, <2>2, <2>3 DEF Upto, g
<1>. QED  BY <1>4, <1>5 DEF g

\* What a step of the walk does depends on the rest where the walk goes on only.
LEMMA TrailStepLocal ==
  ASSUME NEW s, NEW floor, NEW f, NEW g, NEW q,
         q # Null => g[GetNode(s, ParentHash(q))] = f[GetNode(s, ParentHash(q))]
  PROVE  TrailStep(s, floor, g, q) = TrailStep(s, floor, f, q)
BY DEF TrailStep

\* The walk is defined on the first k nodes.
TrailUpto(s, floor, k) ==
  \E f : \A q \in Upto(k) : f[q] = TrailStep(s, floor, f, q)

LEMMA TrailUptoNext ==
  ASSUME TypeOK, ParentsBefore, NEW s \in Rep, TreeMade(s), NEW floor, NEW k \in Nat,
         TrailUpto(s, floor, k)
  PROVE  TrailUpto(s, floor, k + 1)
<1>1. PICK f : \A q \in Upto(k) : f[q] = TrailStep(s, floor, f, q)
  BY DEF TrailUpto
<1>. DEFINE g == [q \in Ref |-> IF q \in Upto(k) THEN f[q] ELSE TrailStep(s, floor, f, q)]
<1>2. Upto(k) \subseteq Ref /\ Upto(k + 1) \subseteq Ref
  BY DEF Upto
<1>3. \A q \in Upto(k) : g[q] = f[q]
  BY <1>2
<1>4. ASSUME NEW q \in Upto(k + 1)
      PROVE  g[q] = TrailStep(s, floor, g, q)
  <2>1. q # Null => g[GetNode(s, ParentHash(q))] = f[GetNode(s, ParentHash(q))]
    BY <1>3, <1>4, WalkGoesDown
  <2>2. g[q] = TrailStep(s, floor, f, q)
    BY <1>1, <1>2
  <2>. HIDE DEF g
  <2>. QED  BY <2>1, <2>2, TrailStepLocal
<1>. HIDE DEF g
<1>. QED  BY <1>4 DEF TrailUpto

\* There is a function that walks: Trail is what its equation says.
LEMMA TrailExists ==
  ASSUME TypeOK, ParentsBefore, NEW s \in Rep, TreeMade(s), NEW floor
  PROVE  IsTrail(s, floor, TrailFrom(s, floor))
<1>. DEFINE n == Cardinality(DOMAIN node)
            C == {k \in Nat : ~ TrailUpto(s, floor, k)}
<1>1. DOMAIN node = 0 .. (n - 1) /\ n \in Nat
  BY NodeType
<1>2. TrailUpto(s, floor, 0)
  <2>1. \A q \in Upto(0) : q = Null
    BY <1>1 DEF Upto
  <2>2. \A q \in Upto(0) : [p \in Ref |-> <<p>>][q] = TrailStep(s, floor, [p \in Ref |-> <<p>>], q)
    BY <2>1 DEF TrailStep, Ref
  <2>. QED  BY <2>2 DEF TrailUpto
<1>3. C = {}
  <2>. SUFFICES ASSUME C # {} PROVE FALSE
    OBVIOUS
  <2>1. PICK k \in C : \A j \in C : ~ (<<j, k>> \in OpToRel(<, Nat))
    <3>1. C \subseteq Nat
      OBVIOUS
    <3>. HIDE DEF C
    <3>. QED  BY <3>1, NatLessThanWellFounded, WFMin, Zenon
  <2>2. k \in Nat /\ ~ TrailUpto(s, floor, k)
    OBVIOUS
  <2>3. k # 0
    BY <1>2, <2>2
  <2>4. k - 1 \in Nat /\ k - 1 < k /\ (k - 1) + 1 = k
    BY <2>2, <2>3
  <2>5. TrailUpto(s, floor, k - 1)
    BY <2>1, <2>4 DEF OpToRel
  <2>6. TrailUpto(s, floor, (k - 1) + 1)
    BY <2>4, <2>5, TrailUptoNext
  <2>. QED  BY <2>2, <2>4, <2>6
<1>4. PICK f : \A q \in Upto(n) : f[q] = TrailStep(s, floor, f, q)
  BY <1>1, <1>3 DEF TrailUpto
<1>. DEFINE g == [q \in Ref |-> TrailStep(s, floor, f, q)]
<1>5. Upto(n) \subseteq Ref
  BY DEF Upto
<1>6. \A q \in Upto(n) : g[q] = f[q]
  BY <1>4, <1>5
<1>7. \A q \in Ref : GetNode(s, ParentHash(q)) \in Upto(n)
  <2>. TAKE q \in Ref
  <2>. DEFINE h == ParentHash(q)
  <2>. HIDE DEF h
  <2>1. GetNode(s, h) \in Ref
    BY GetNodeType
  <2>2. GetNode(s, h) # Null => /\ GetNode(s, h) = <<h, s.tree[h]>>
                                /\ h \in DOMAIN node /\ h < n
    BY <1>1, GetNodeType DEF TreeMade
  <2>3. GetNode(s, h) \in Upto(n)
    BY <2>1, <2>2 DEF Upto
  <2>. QED  BY <2>3 DEF h
<1>8. \A q \in Ref : g[q] = TrailStep(s, floor, g, q)
  <2>. TAKE q \in Ref
  <2>1. g[GetNode(s, ParentHash(q))] = f[GetNode(s, ParentHash(q))]
    BY <1>6, <1>7
  <2>2. g[q] = TrailStep(s, floor, f, q)
    OBVIOUS
  <2>. HIDE DEF g
  <2>. QED  BY <2>1, <2>2, TrailStepLocal
<1>9. g = [q \in Ref |-> TrailStep(s, floor, g, q)]
  <2>1. g = [q \in Ref |-> g[q]]
    OBVIOUS
  <2>. HIDE DEF g
  <2>. QED  BY <1>8, <2>1
<1>10. \E e : IsTrail(s, floor, e)
  <2>. HIDE DEF g
  <2>. QED  BY <1>9 DEF IsTrail
<1>. QED  BY <1>10, Zenon DEF TrailFrom

LEMMA TrailUnfolds ==
  ASSUME TypeOK, ParentsBefore, NEW s \in Rep, TreeMade(s), NEW floor, NEW q \in Ref
  PROVE  Trail(s, q, floor) =
           IF q = Null \/ Sequence(q) <= floor
           THEN <<q>>
           ELSE <<q>> \o Trail(s, GetNode(s, ParentHash(q)), floor)
<1>1. IsTrail(s, floor, TrailFrom(s, floor))
  BY TrailExists
<1>2. TrailFrom(s, floor)[q] = TrailStep(s, floor, TrailFrom(s, floor), q)
  <2>. DEFINE f == TrailFrom(s, floor)
  <2>. HIDE DEF f
  <2>1. f = [e \in Ref |-> TrailStep(s, floor, f, e)]
    BY <1>1 DEF IsTrail, f
  <2>2. f[q] = TrailStep(s, floor, f, q)
    BY <2>1, Zenon
  <2>. QED  BY <2>2 DEF f
<1>. QED  BY <1>2, TrailIsFrom DEF TrailStep

\* The walk t stays within S: it ends in S, at Null or not above floor, and what
\* it has passed before that is of S and above floor.
Above(x, floor) == x # Null /\ ~ (Sequence(x) <= floor)

Stays(t, S, floor) ==
  /\ t \in Seq(Ref) /\ t # <<>>
  /\ Last(t) \in S /\ ~ Above(Last(t), floor)
  /\ \A x \in ToSet(Front(t)) : x \in S /\ Above(x, floor)

LEMMA FrontIs ==
  ASSUME NEW t \in Seq(Ref), Len(t) >= 1
  PROVE  /\ Front(t) \in Seq(Ref) /\ Len(Front(t)) = Len(t) - 1
         /\ \A i \in 1 .. (Len(t) - 1) : Front(t)[i] = t[i]
<1>. DEFINE m == Len(t)
            n == m - 1
<1>0. m \in Nat /\ m >= 1
  OBVIOUS
<1>. HIDE DEF m
<1>1. n \in Int /\ n - 1 + 1 = n /\ (1 <= n \/ n = 0)
  BY <1>0
<1>2. \A i \in 1 .. n : t[i] \in Ref /\ 1 + i - 1 = i
  BY <1>0 DEF m
<1>. HIDE DEF n
<1>3. /\ SubSeq(t, 1, n) \in Seq(Ref)
      /\ Len(SubSeq(t, 1, n)) = IF 1 <= n THEN n - 1 + 1 ELSE 0
      /\ \A i \in 1 .. n - 1 + 1 : SubSeq(t, 1, n)[i] = t[1 + i - 1]
  BY <1>1, <1>2, SubSeqProperties
<1>4. /\ SubSeq(t, 1, n) \in Seq(Ref) /\ Len(SubSeq(t, 1, n)) = n
      /\ \A i \in 1 .. n : SubSeq(t, 1, n)[i] = t[i]
  BY <1>1, <1>2, <1>3
<1>. QED  BY <1>4 DEF Front, n, m

LEMMA StaysAtEnd ==
  ASSUME NEW S \in SUBSET Ref, NEW floor, NEW q \in S, ~ Above(q, floor)
  PROVE  Stays(<<q>>, S, floor)
<1>1. Len(<<q>>) = 1 /\ <<q>>[1] = q /\ <<q>> \in Seq(Ref) /\ <<q>> # <<>>
  OBVIOUS
<1>2. Last(<<q>>) = q
  BY <1>1 DEF Last
<1>3. Front(<<q>>) = <<>>
  BY <1>1 DEF Front
<1>4. ToSet(Front(<<q>>)) = {}
  BY <1>3 DEF ToSet
<1>. QED  BY <1>1, <1>2, <1>4 DEF Stays

LEMMA StaysOn ==
  ASSUME NEW S \in SUBSET Ref, NEW floor, NEW q \in S, Above(q, floor),
         NEW t, Stays(t, S, floor)
  PROVE  Stays(<<q>> \o t, S, floor)
<1>. DEFINE u == <<q>> \o t
<1>1. t \in Seq(Ref) /\ t # <<>>
  BY DEF Stays
<1>2. Len(t) \in Nat /\ Len(t) >= 1
  BY <1>1
<1>3. /\ u \in Seq(Ref) /\ u # <<>> /\ Len(u) = Len(t) + 1
      /\ u[1] = q /\ \A i \in 1 .. Len(t) : u[i + 1] = t[i]
  <2>1. <<q>> \in Seq(Ref) /\ Len(<<q>>) = 1 /\ <<q>>[1] = q
    OBVIOUS
  <2>2. u \in Seq(Ref) /\ Len(u) = Len(t) + 1
    BY <1>1, <2>1, ConcatProperties
  <2>3. u[1] = q /\ \A i \in 1 .. Len(t) : u[i + 1] = t[i]
    BY <1>1, <1>2, <2>1, ConcatProperties
  <2>. HIDE DEF u
  <2>4. u # <<>>
    BY <1>2, <2>2
  <2>. QED  BY <2>2, <2>3, <2>4
<1>. HIDE DEF u
<1>4. Last(u) = Last(t)
  BY <1>2, <1>3 DEF Last
<1>5. /\ Front(u) \in Seq(Ref) /\ Len(Front(u)) = Len(t)
      /\ \A i \in 1 .. Len(t) : Front(u)[i] = u[i]
  BY <1>2, <1>3, FrontIs
<1>6. /\ Front(t) \in Seq(Ref) /\ Len(Front(t)) = Len(t) - 1
      /\ \A i \in 1 .. (Len(t) - 1) : Front(t)[i] = t[i]
  BY <1>1, <1>2, FrontIs
<1>7. ASSUME NEW x \in ToSet(Front(u))
      PROVE  x \in S /\ Above(x, floor)
  <2>1. PICK i \in 1 .. Len(t) : x = u[i]
    BY <1>5 DEF ToSet
  <2>2. CASE i = 1
    BY <1>3, <2>1, <2>2
  <2>3. CASE i # 1
    <3>1. i - 1 \in 1 .. (Len(t) - 1) /\ i - 1 \in 1 .. Len(t) /\ (i - 1) + 1 = i
      BY <1>2, <2>3
    <3>2. x = Front(t)[i - 1]
      BY <1>3, <1>6, <2>1, <3>1
    <3>3. x \in ToSet(Front(t))
      BY <1>6, <3>1, <3>2 DEF ToSet
    <3>. QED  BY <3>3 DEF Stays
  <2>. QED  BY <2>2, <2>3
<1>. QED  BY <1>3, <1>4, <1>7 DEF Stays, u

\* S is closed under the steps of the walk.
WalksWithin(s, S, floor) ==
  \A x \in S : Above(x, floor) => GetNode(s, ParentHash(x)) \in S

LEMMA TrailStays ==
  ASSUME TypeOK, ParentsBefore, NEW s \in Rep, TreeMade(s), NEW floor,
         NEW S \in SUBSET Ref, WalksWithin(s, S, floor), NEW p \in S
  PROVE  Stays(Trail(s, p, floor), S, floor)
<1>. DEFINE n == Cardinality(DOMAIN node)
            Holds(k) == \A q \in S \cap Upto(k) : Stays(Trail(s, q, floor), S, floor)
            C == {k \in Nat : ~ Holds(k)}
<1>1. DOMAIN node = 0 .. (n - 1) /\ n \in Nat
  BY NodeType
<1>2. ASSUME NEW q \in S, Above(q, floor) => Stays(Trail(s, GetNode(s, ParentHash(q)), floor), S, floor)
      PROVE  Stays(Trail(s, q, floor), S, floor)
  <2>1. CASE Above(q, floor)
    <3>1. Trail(s, q, floor) = <<q>> \o Trail(s, GetNode(s, ParentHash(q)), floor)
      BY <2>1, TrailUnfolds DEF Above
    <3>. QED  BY <1>2, <2>1, <3>1, StaysOn
  <2>2. CASE ~ Above(q, floor)
    <3>1. Trail(s, q, floor) = <<q>>
      BY <2>2, TrailUnfolds DEF Above
    <3>. QED  BY <2>2, <3>1, StaysAtEnd
  <2>. QED  BY <2>1, <2>2
<1>3. ASSUME NEW k \in Nat, Holds(k)
      PROVE  Holds(k + 1)
  <2>. SUFFICES ASSUME NEW q \in S, q \in Upto(k + 1), Above(q, floor)
                PROVE  Stays(Trail(s, GetNode(s, ParentHash(q)), floor), S, floor)
    BY <1>2
  <2>1. GetNode(s, ParentHash(q)) \in S
    BY DEF WalksWithin
  <2>2. GetNode(s, ParentHash(q)) \in Upto(k)
    BY WalkGoesDown DEF Above
  <2>. QED  BY <1>3, <2>1, <2>2
<1>4. Holds(0)
  <2>1. \A q \in Upto(0) : q = Null
    BY <1>1 DEF Upto
  <2>2. ~ Above(Null, floor)
    BY DEF Above
  <2>. QED  BY <1>2, <2>1, <2>2
<1>5. C = {}
  <2>. SUFFICES ASSUME C # {} PROVE FALSE
    OBVIOUS
  <2>1. PICK k \in C : \A j \in C : ~ (<<j, k>> \in OpToRel(<, Nat))
    <3>1. C \subseteq Nat
      OBVIOUS
    <3>. HIDE DEF C
    <3>. QED  BY <3>1, NatLessThanWellFounded, WFMin, Zenon
  <2>2. k \in Nat /\ ~ Holds(k)
    OBVIOUS
  <2>. HIDE DEF Holds
  <2>3. k # 0
    BY <1>4, <2>2
  <2>4. k - 1 \in Nat /\ k - 1 < k /\ (k - 1) + 1 = k
    BY <2>2, <2>3
  <2>5. Holds(k - 1)
    BY <2>1, <2>4 DEF OpToRel
  <2>6. Holds((k - 1) + 1)
    BY <1>3, <2>4, <2>5
  <2>. QED  BY <2>2, <2>4, <2>6
<1>6. Holds(n)
  <2>. HIDE DEF Holds
  <2>. QED  BY <1>1, <1>5
<1>7. Above(p, floor) => GetNode(s, ParentHash(p)) \in Upto(n)
  <2>. DEFINE h == ParentHash(p)
  <2>. HIDE DEF h
  <2>1. GetNode(s, h) \in Ref
    BY GetNodeType
  <2>2. GetNode(s, h) # Null => /\ GetNode(s, h) = <<h, s.tree[h]>>
                                /\ h \in DOMAIN node /\ h < n
    BY <1>1, GetNodeType DEF TreeMade
  <2>3. GetNode(s, h) \in Upto(n)
    BY <2>1, <2>2 DEF Upto
  <2>. QED  BY <2>3 DEF h
<1>. QED  BY <1>2, <1>6, <1>7 DEF WalksWithin


-----------------------------------------------------------------------------
(* The inductive invariant                                                 *)

\* The objects of s, and the nodes whose values s handed to its application.
Held(s) == {p \in Ptr : p[2] <= s.tree[p[1]]}
Handed(s) == {p[1] : p \in {q \in Held(s) : s.obj[q].preCommit}}

\* h is the node after its parent and, but for the first value, carries the
\* parent's certificate, one of C.
Linked(h, C) ==
  /\ node[h].sequence = node[node[h].parent].sequence + 1
  /\ node[h].sequence > 2 => node[h].qc \in C /\ node[h].qc.node = node[h].parent

CertsLinked(C) ==
  \A qc \in C : /\ qc.node \in DOMAIN node \ {Genesis}
                /\ qc.sequence = node[qc.node].sequence
                /\ Linked(qc.node, C)

\* A certificate that a node carries is its parent's, whatever its sequence.
NodesLinked ==
  /\ node[Genesis] = GenesisNode
  /\ \A h \in DOMAIN node \ {Genesis} :
       /\ node[h].parent \in DOMAIN node
       /\ node[h].parent < h
       /\ node[h].sequence >= 2
       /\ node[h].qc # NoQc => node[h].qc \in Certificates /\ node[h].qc.node = node[h].parent

\* Replicas vote only for nodes that are linked.
VotesLinked ==
  \A vote \in votes : vote.node # Genesis /\ Linked(vote.node, Certificates)

\* Only the first value is built without a proof.
BuildingNext ==
  \A r \in Replica :
    building[r] # 0 => building[r] >= 2 /\ (rep[r].ledger.proof = NoQc => building[r] = 2)

ObjectsLinked(s) ==
  \A p \in Held(s) :
    /\ p[1] \in DOMAIN node
    /\ s.obj[p].qcRef # Null =>
         /\ s.obj[p].qcRef \in Held(s)
         /\ p[1] # Genesis
         /\ s.obj[p].qcRef[1] = ParentHash(p)
         /\ Sequence(p) = Sequence(s.obj[p].qcRef) + 1

LocksHeld(s) ==
  /\ s.lock \in Held(s) /\ s.exec \in Held(s)
  /\ Sequence(s.exec) <= Sequence(s.lock)
  /\ Sequence(s.lock) <= s.lastSequence

\* An object is at most one sequence above the highest seen: X are objects that
\* are in the tree but whose PROPOSE is not yet answered.
SequencesSeen(s, X) ==
  ~ s.crashed => \A p \in Held(s) \ X : Sequence(p) <= s.lastSequence + 1

\* The parent of what the tree holds was handed over, or its node was taken from
\* a proof: Y are the nodes taken so.
ParentsHanded(s, Y, X) ==
  \A p \in Held(s) \ X :
    Sequence(p) > 2 =>
      \/ ParentHash(p) \in Handed(s) \cup Y
      \/ s.obj[p].decision /\ ~ s.obj[p].preCommit /\ Sequence(p) <= Sequence(s.exec)

DecidedHanded(s, Y) ==
  \A p \in Held(s) : s.obj[p].decision => p[1] \in Handed(s) \cup Y

LedgerHanded(s, C, Y) ==
  \/ s.ledger.proof = NoQc /\ s.ledger.seq = 1
  \/ /\ s.ledger.proof \in C
     /\ s.ledger.seq = s.ledger.proof.sequence
     /\ s.ledger.proof.node \in Handed(s) \cup Y
     /\ Y = {} => s.tree[s.ledger.proof.node] > 0

ExecCertified(s, C, Y) ==
  \/ s.exec[1] \in {Genesis} \cup Y
  \/ \E a, b \in C : node[a.node].parent = s.exec[1] /\ node[b.node].parent = a.node

\* Without a proof taken the tree holds the parent of every node it holds.
TreeClosed(s, Y) ==
  Y = {} =>
    /\ ~ s.crashed
    /\ \A h \in Hash : s.tree[h] > 0 /\ node[h].sequence > 2 => s.tree[node[h].parent] > 0

GenesisHeld(s) == s.tree[Genesis] > 0 /\ Genesis \in Handed(s)

HandedCertified(s, C) == \A h \in Handed(s) \ {Genesis} : \E qc \in C : qc.node = h

RepGood(s, C, Y, X) ==
  /\ GenesisHeld(s)
  /\ HandedCertified(s, C)
  /\ ObjectsLinked(s)
  /\ LocksHeld(s)
  /\ SequencesSeen(s, X)
  /\ ParentsHanded(s, Y, X)
  /\ DecidedHanded(s, Y)
  /\ LedgerHanded(s, C, Y)
  /\ ExecCertified(s, C, Y)
  /\ TreeClosed(s, Y)

ChainInv ==
  /\ IInv
  /\ NodesLinked
  /\ CertsLinked(Certificates)
  /\ VotesLinked
  /\ BuildingNext
  /\ \A r \in Replica : RepGood(rep[r], Certificates, synced[r], {})

-----------------------------------------------------------------------------
(* What update does to a replica that is so                                *)

LEMMA NodeFacts ==
  ASSUME TypeOK, NodesLinked
  PROVE  /\ ParentsBefore
         /\ \A h \in DOMAIN node : h \in Nat /\ h \in Hash /\ node[h].sequence \in Nat
         /\ node[Genesis].sequence = 1
         /\ \A h \in DOMAIN node : node[h].sequence >= 1
         /\ \A h \in DOMAIN node : node[h].sequence < 2 => h = Genesis
<1>1. node[Genesis].sequence = 1 /\ node[Genesis].parent = -1 /\ Genesis = 0
  BY DEF NodesLinked, GenesisNode, NoHash, Genesis
<1>2. \A h \in DOMAIN node : h \in Nat /\ h \in Hash /\ node[h].sequence \in Nat
  BY NodeType, HashType
<1>3. ParentsBefore
  BY <1>1 DEF NodesLinked, ParentsBefore
<1>. QED  BY <1>1, <1>2, <1>3 DEF NodesLinked

LEMMA LinkedFacts ==
  ASSUME TypeOK, NodesLinked, NEW C, NEW h \in DOMAIN node \ {Genesis}, Linked(h, C)
  PROVE  /\ node[h].parent \in DOMAIN node
         /\ node[h].parent < h
         /\ node[h].sequence = node[node[h].parent].sequence + 1
         /\ node[h].sequence > 2 \/ node[h].parent = Genesis
<1>1. node[h].parent \in DOMAIN node /\ node[h].parent < h
  BY DEF NodesLinked
<1>2. node[h].sequence = node[node[h].parent].sequence + 1
  BY DEF Linked
<1>. QED  BY <1>1, <1>2, NodeFacts

LEMMA HeldFacts ==
  ASSUME NEW s \in Rep, NEW p \in Held(s)
  PROVE  /\ p \in Ptr /\ p \in Ref /\ p # Null
         /\ p[1] \in Hash /\ s.tree[p[1]] > 0
         /\ p[2] <= s.tree[p[1]]
<1>1. p \in Ptr /\ p[2] <= s.tree[p[1]] /\ p[1] \in Hash /\ p[2] \in Generation
  BY DEF Held, Ptr
<1>2. s.tree[p[1]] \in {0} \cup Generation /\ p[2] >= 1
  BY <1>1, ConsensusAssumption DEF Rep, Generation
<1>3. s.tree[p[1]] \in Nat
  <2>. DEFINE g == s.tree[p[1]]
  <2>. HIDE DEF g
  <2>1. g \in {0} \cup Generation
    BY <1>2 DEF g
  <2>2. g \in Nat
    BY <2>1, HashType
  <2>. QED  BY <2>2 DEF g
<1>4. p # Null
  BY <1>1, HashType DEF Null
<1>5. p[2] \in Nat
  BY <1>1, HashType
<1>. QED  BY <1>1, <1>2, <1>3, <1>4, <1>5 DEF Ref

\* The object that the tree holds for h.
LEMMA TopHeld ==
  ASSUME NEW s \in Rep, NEW h \in Hash, s.tree[h] > 0
  PROVE  /\ GetNode(s, h) = <<h, s.tree[h]>>
         /\ GetNode(s, h) \in Held(s)
<1>1. GetNode(s, h) = <<h, s.tree[h]>>
  BY DEF GetNode, InTree
<1>2. GetNode(s, h) # Null
  BY <1>1, HashType DEF Null
<1>3. GetNode(s, h) \in Ptr
  BY <1>2, GetNodeType
<1>4. s.tree[h] \in Nat
  <2>. DEFINE g == s.tree[h]
  <2>1. g \in {0} \cup Generation
    BY DEF Rep
  <2>. HIDE DEF g
  <2>2. g \in Nat
    BY <2>1, HashType
  <2>. QED  BY <2>2 DEF g
<1>. QED  BY <1>1, <1>3, <1>4 DEF Held

\* A walk from a certified node meets only objects whose nodes were handed over
\* or taken from a proof; without such a proof it does not leave the tree.
LEMMA WalkHanded ==
  ASSUME TypeOK, NodesLinked, NEW s \in Rep, TreeMade(s), NEW C, CertsLinked(C),
         NEW Y, NEW X, RepGood(s, C, Y, X),
         NEW w \in Rep, w.tree = s.tree, w.exec = s.exec,
         NEW b \in Held(s), b[1] = Genesis \/ \E c \in C : c.node = b[1],
         b[1] \in Handed(s) \cup Y,
         \A x \in X : ~ (x[1] <= b[1])
  PROVE  /\ \A x \in ToSet(Front(Walk(w, b))) : x \in Held(s) /\ x[1] \in Handed(s) \cup Y
         /\ Y = {} => Last(Walk(w, b)) # Null
         /\ Last(Walk(w, b)) = s.exec => Sequence(b) >= Sequence(s.exec)
<1>. DEFINE floor == Sequence(s.exec)
            On(x) == /\ x[1] = Genesis \/ \E c \in C : c.node = x[1]
                     /\ x[1] \in Handed(s) \cup Y
                     /\ x[1] <= b[1]
            S == {x \in Ref : (x = Null /\ Y # {}) \/ (x \in Held(s) /\ On(x))}
<1>1. /\ \A x \in Held(s) : /\ x \in Ptr /\ x \in Ref /\ x # Null /\ x[1] \in Hash
                            /\ x[1] \in DOMAIN node /\ x[1] \in Nat /\ Sequence(x) \in Nat
                            /\ Sequence(x) >= 1
  BY HeldFacts, NodeFacts DEF RepGood, ObjectsLinked, Sequence
<1>2. s.exec \in Held(s) /\ floor \in Nat /\ floor >= 1
  BY <1>1 DEF RepGood, LocksHeld
<1>3. b \in S
  BY <1>1
<1>4. TreeMade(w)
  BY DEF TreeMade
<1>5. ASSUME NEW x \in S, Above(x, floor)
      PROVE  GetNode(w, ParentHash(x)) \in S
  <2>. DEFINE g == ParentHash(x)
  <2>1. x # Null /\ x \in Held(s) /\ On(x) /\ ~ (Sequence(x) <= floor)
    BY <1>5 DEF Above
  <2>2. x[1] \in DOMAIN node \ {Genesis}
    BY <1>1, <1>2, <2>1, NodeFacts DEF Sequence
  <2>3. PICK c \in C : c.node = x[1]
    BY <2>1, <2>2
  <2>4. Linked(x[1], C)
    BY <2>3 DEF CertsLinked
  <2>5. /\ g \in DOMAIN node /\ g < x[1]
        /\ Sequence(x) > 2 \/ g = Genesis
    BY <2>2, <2>4, LinkedFacts DEF ParentHash, Sequence
  <2>6. g \in Hash /\ g \in Nat
    BY <2>5, NodeFacts
  <2>7. g = Genesis \/ \E d \in C : d.node = g
    BY <2>4, <2>5 DEF Linked, ParentHash, Sequence
  <2>8. g \in Handed(s) \cup Y
    <3>1. CASE g = Genesis
      BY <3>1 DEF RepGood, GenesisHeld
    <3>2. CASE Sequence(x) > 2
      <4>1. x \in Held(s) \ X
        BY <2>1
      <4>. QED  BY <2>1, <3>2, <4>1 DEF RepGood, ParentsHanded
    <3>. QED  BY <2>5, <3>1, <3>2
  <2>9. g <= b[1]
    BY <1>1, <2>1, <2>5, <2>6
  <2>10. Y = {} => s.tree[g] > 0
    BY <1>1, <2>1, <2>5, HeldFacts DEF RepGood, GenesisHeld, TreeClosed, Sequence, ParentHash
  <2>. HIDE DEF g
  <2>11. CASE s.tree[g] > 0
    <3>1. GetNode(w, g) \in Held(w) /\ GetNode(w, g)[1] = g
      BY <2>6, <2>11, TopHeld
    <3>2. GetNode(w, g) \in Held(s)
      BY <3>1 DEF Held
    <3>3. On(GetNode(w, g))
      BY <2>7, <2>8, <2>9, <3>1
    <3>. HIDE DEF On
    <3>. QED  BY <1>1, <3>2, <3>3 DEF g
  <2>12. CASE ~ (s.tree[g] > 0)
    <3>1. GetNode(w, g) = Null
      BY <2>12 DEF GetNode, InTree
    <3>. QED  BY <2>10, <2>12, <3>1 DEF g, Ref
  <2>. QED  BY <2>11, <2>12
<1>6. WalksWithin(w, S, floor) /\ S \in SUBSET Ref
  BY <1>5 DEF WalksWithin
<1>7. Walk(w, b) = Trail(w, b, floor)
  BY DEF Walk
<1>8. \A x \in S : (x = Null /\ Y # {}) \/ (x \in Held(s) /\ x[1] \in Handed(s) \cup Y)
  OBVIOUS
<1>. HIDE DEF S, floor
<1>9. Stays(Trail(w, b, floor), S, floor)
  BY <1>3, <1>4, <1>6, NodeFacts, TrailStays
<1>10. ASSUME NEW x \in ToSet(Front(Walk(w, b)))
       PROVE  x \in Held(s) /\ x[1] \in Handed(s) \cup Y
  BY <1>7, <1>8, <1>9 DEF Stays, Above
<1>11. Y = {} => Last(Walk(w, b)) # Null
  BY <1>1, <1>7, <1>8, <1>9 DEF Stays
<1>12. Last(Walk(w, b)) = s.exec => Sequence(b) >= Sequence(s.exec)
  <2>1. CASE Sequence(b) <= floor
    <3>1. Trail(w, b, floor) = <<b>>
      BY <1>1, <1>4, <2>1, NodeFacts, TrailUnfolds
    <3>2. Last(<<b>>) = b
      BY DEF Last
    <3>. QED  BY <1>1, <1>7, <3>1, <3>2
  <2>2. CASE ~ (Sequence(b) <= floor)
    BY <1>1, <1>2, <2>2 DEF floor
  <2>. QED  BY <2>1, <2>2
<1>. QED  BY <1>10, <1>11, <1>12

\* The parts of a replica that hold what PreCommit, Commit and Lock leave alone.
LEMMA PreCommitFacts ==
  ASSUME TypeOK, NEW s \in Rep, NEW p \in Ptr, p[1] \in DOMAIN node, NEW qc \in Qc
  PROVE  LET t == PreCommit(s, p, qc)
         IN  /\ t.lock = s.lock /\ t.exec = s.exec /\ t.crashed = s.crashed
             /\ \A q \in Ptr : /\ t.obj[q].qcRef = s.obj[q].qcRef
                               /\ t.obj[q].decision = s.obj[q].decision
                               /\ s.obj[q].preCommit => t.obj[q].preCommit
                               /\ t.obj[q].preCommit =>
                                    s.obj[q].preCommit \/ (q = p /\ t.ledger.proof = qc)
             /\ t.obj[p].preCommit
             /\ \/ t.ledger = s.ledger
                \/ t.ledger.seq = Sequence(p) /\ t.ledger.proof = qc
             /\ t.ledger.lastConsSeq = s.ledger.lastConsSeq
<1>1. CASE s.obj[p].preCommit
  BY <1>1 DEF PreCommit
<1>2. CASE ~ s.obj[p].preCommit
  <2>. DEFINE x == [s.obj[p] EXCEPT !.preCommit = TRUE]
              o == [s.obj EXCEPT ![p] = x]
              l == [s.ledger EXCEPT !.seq = Sequence(p), !.proof = qc]
  <2>1. s.ledger \in Ledger /\ s.obj \in [Ptr -> Object] /\ s.obj[p] \in Object
    BY DEF Rep
  <2>2. l.seq = Sequence(p) /\ l.proof = qc /\ l.lastConsSeq = s.ledger.lastConsSeq
    BY <2>1 DEF Ledger
  <2>3. x.preCommit /\ x.qcRef = s.obj[p].qcRef /\ x.decision = s.obj[p].decision
    BY <2>1 DEF Object
  <2>4. PreCommit(s, p, qc) = [s EXCEPT !.obj = o, !.ledger = l]
    BY <1>2, Zenon DEF PreCommit
  <2>. HIDE DEF x, l
  <2>5. o[p] = x /\ \A q \in Ptr : o[q] = IF q = p THEN x ELSE s.obj[q]
    BY <2>1
  <2>. HIDE DEF o
  <2>6. /\ PreCommit(s, p, qc).obj = o /\ PreCommit(s, p, qc).ledger = l
        /\ PreCommit(s, p, qc).lock = s.lock /\ PreCommit(s, p, qc).exec = s.exec
        /\ PreCommit(s, p, qc).crashed = s.crashed
    BY <2>4 DEF Rep
  <2>. QED  BY <2>2, <2>3, <2>5, <2>6
<1>. QED  BY <1>1, <1>2

LEMMA CommitFacts ==
  ASSUME NEW w \in Rep, NEW b \in Ptr
  PROVE  LET v == Commit(w, b)
         IN  /\ v.lock = w.lock /\ v.ledger = w.ledger
             /\ \A q \in Ptr : /\ v.obj[q].qcRef = w.obj[q].qcRef
                               /\ v.obj[q].preCommit = w.obj[q].preCommit
                               /\ w.obj[q].decision => v.obj[q].decision
                               /\ v.obj[q].decision =>
                                    w.obj[q].decision \/ q \in ToSet(Front(Walk(w, b)))
             /\ \/ v.exec = w.exec /\ v.crashed /\ Last(Walk(w, b)) = Null
                \/ v.exec = b /\ v.crashed = w.crashed /\ Last(Walk(w, b)) = w.exec
                \/ v.exec = w.exec /\ v.crashed = w.crashed
<1>. DEFINE trail == Walk(w, b)
            o == [q \in Ptr |-> IF q \in ToSet(Front(trail))
                                THEN [w.obj[q] EXCEPT !.decision = TRUE]
                                ELSE w.obj[q]]
<1>1. \/ Last(trail) = Null /\ Commit(w, b) = [w EXCEPT !.crashed = TRUE]
      \/ Last(trail) = w.exec /\ Commit(w, b) = [w EXCEPT !.exec = b, !.obj = o]
      \/ Commit(w, b) = w
  <2>1. Commit(w, b) = CASE Last(trail) = Null -> [w EXCEPT !.crashed = TRUE]
                         [] Last(trail) = w.exec -> [w EXCEPT !.exec = b, !.obj = o]
                         [] OTHER -> w
    BY DEF Commit
  <2>. HIDE DEF trail, o
  <2>. QED  BY <2>1
<1>2. w.obj \in [Ptr -> Object]
  BY DEF Rep
<1>3. \A x \in Object : LET y == [x EXCEPT !.decision = TRUE]
                        IN  y.decision /\ y.qcRef = x.qcRef /\ y.preCommit = x.preCommit
  BY DEF Object
<1>4. \A q \in Ptr : /\ o[q].qcRef = w.obj[q].qcRef
                     /\ o[q].preCommit = w.obj[q].preCommit
                     /\ w.obj[q].decision => o[q].decision
                     /\ o[q].decision => w.obj[q].decision \/ q \in ToSet(Front(trail))
  <2>. TAKE q \in Ptr
  <2>1. CASE q \in ToSet(Front(trail))
    BY <1>2, <1>3, <2>1
  <2>2. CASE q \notin ToSet(Front(trail))
    BY <2>2
  <2>. QED  BY <2>1, <2>2
<1>. HIDE DEF o, trail
<1>5. CASE Last(trail) = Null /\ Commit(w, b) = [w EXCEPT !.crashed = TRUE]
  BY <1>5 DEF Rep, trail
<1>6. CASE Last(trail) = w.exec /\ Commit(w, b) = [w EXCEPT !.exec = b, !.obj = o]
  <2>1. /\ Commit(w, b).obj = o /\ Commit(w, b).exec = b /\ Commit(w, b).lock = w.lock
        /\ Commit(w, b).ledger = w.ledger /\ Commit(w, b).crashed = w.crashed
    BY <1>6 DEF Rep
  <2>. QED  BY <1>4, <1>6, <2>1 DEF trail
<1>7. CASE Commit(w, b) = w
  BY <1>7
<1>. QED  BY <1>1, <1>5, <1>6, <1>7

\* What update makes of the replica s with the certificate qc of its object p.
Outcome(s, u, p, qc, Y) ==
  /\ Updated(s, u, qc)
  /\ \A q \in Ptr : /\ u.obj[q].qcRef = s.obj[q].qcRef
                    /\ s.obj[q].preCommit => u.obj[q].preCommit
                    /\ u.obj[q].preCommit =>
                         \/ s.obj[q].preCommit
                         \/ q = p /\ ~ s.obj[p].decision /\ u.ledger.proof = qc
                    /\ s.obj[q].decision => u.obj[q].decision
                    /\ u.obj[q].decision => \/ s.obj[q].decision
                                            \/ q \in Held(s) /\ q[1] \in Handed(u) \cup Y
  /\ p[1] \in Handed(u) \cup Y
  /\ u.lock \in Held(s)
  /\ Sequence(u.lock) >= Sequence(s.lock) /\ Sequence(u.lock) <= s.lastSequence
  /\ u.exec \in Held(s)
  /\ Sequence(u.exec) >= Sequence(s.exec) /\ Sequence(u.exec) <= Sequence(u.lock)
  /\ \/ u.exec = s.exec
     \/ /\ ~ u.crashed
        /\ Sequence(p) > 2
        /\ node[node[p[1]].parent].parent = u.exec[1]
  /\ \/ u.ledger = s.ledger
     \/ u.ledger.seq = Sequence(p) /\ u.ledger.proof = qc /\ p[1] \in Handed(u)
  /\ u.ledger.lastConsSeq = s.ledger.lastConsSeq
  /\ Y = {} => ~ u.crashed

\* A replica that has not crashed, as it receives the certificate qc of its object p.
Receives(s, p, qc, C, Y, X) ==
  /\ TypeOK /\ NodesLinked /\ CertsLinked(C)
  /\ s \in Rep /\ TreeMade(s) /\ RepGood(s, C, Y, X) /\ ~ s.crashed
  /\ qc \in Qc /\ qc.node \in DOMAIN node \ {Genesis}
  /\ qc.sequence = node[qc.node].sequence
  /\ Linked(qc.node, C)
  /\ p \in Held(s) \ X /\ p[1] = qc.node
  /\ X \subseteq Held(s) /\ \A x \in X : ~ (x[1] <= p[1])

LEMMA HandedGrows ==
  ASSUME NEW s, NEW u, u.tree = s.tree,
         \A q \in Ptr : s.obj[q].preCommit => u.obj[q].preCommit
  PROVE  Held(u) = Held(s) /\ Handed(s) \subseteq Handed(u)
<1>1. Held(u) = Held(s)
  BY DEF Held
<1>2. Held(s) \subseteq Ptr
  BY DEF Held
<1>. QED  BY <1>1, <1>2 DEF Handed

\* The object blk1 that an object p refers to, one node before it.
LEMMA ReferredFacts ==
  ASSUME TypeOK, NodesLinked, NEW s \in Rep, TreeMade(s), ObjectsLinked(s),
         NEW p \in Held(s), s.obj[p].qcRef # Null
  PROVE  /\ s.obj[p].qcRef \in Held(s)
         /\ s.obj[p].qcRef[1] = node[p[1]].parent
         /\ p[1] \in DOMAIN node \ {Genesis}
         /\ s.obj[p].qcRef[1] < p[1]
         /\ Sequence(p) = Sequence(s.obj[p].qcRef) + 1
         /\ Sequence(p) \in Nat /\ Sequence(s.obj[p].qcRef) \in Nat
<1>1. /\ s.obj[p].qcRef \in Held(s) /\ p[1] \in DOMAIN node \ {Genesis}
      /\ s.obj[p].qcRef[1] = node[p[1]].parent
      /\ Sequence(p) = Sequence(s.obj[p].qcRef) + 1
  BY DEF ObjectsLinked, ParentHash
<1>2. s.obj[p].qcRef[1] \in DOMAIN node
  BY <1>1 DEF ObjectsLinked
<1>. QED  BY <1>1, <1>2, NodeFacts DEF NodesLinked, Sequence

LEMMA UpdateOutcome ==
  ASSUME NEW s, NEW p, NEW qc, NEW C, NEW Y, NEW X, Receives(s, p, qc, C, Y, X)
  PROVE  Outcome(s, Update(s, p, qc), p, qc, Y)
<1>. DEFINE u    == Update(s, p, qc)
            t    == PreCommit(s, p, qc)
            blk1 == t.obj[p].qcRef
            w    == Lock(t, blk1)
            blk  == w.obj[blk1].qcRef
            v    == Commit(w, blk)
<1>1. /\ TypeOK /\ NodesLinked /\ CertsLinked(C) /\ s \in Rep /\ TreeMade(s)
      /\ RepGood(s, C, Y, X) /\ ~ s.crashed /\ qc \in Qc /\ Linked(p[1], C)
      /\ p \in Held(s) /\ p \notin X /\ p[1] \in DOMAIN node \ {Genesis}
      /\ \A x \in X : ~ (x[1] <= p[1])
  BY DEF Receives
<1>2. /\ p \in Ptr /\ p \in Ref /\ p # Null
  BY <1>1, HeldFacts
<1>3. Updated(s, u, qc)
  <2>. HIDE DEF u
  <2>. QED  BY <1>1, <1>2, UpdateUpdates DEF u
<1>4. ObjectsLinked(s) /\ LocksHeld(s) /\ DecidedHanded(s, Y)
  BY <1>1 DEF RepGood
<1>5. \A x \in Held(s) : Sequence(x) \in Nat /\ x \in Ptr
  BY <1>1, <1>4, HeldFacts, NodeFacts DEF ObjectsLinked, Sequence
<1>6. /\ s.lastSequence \in Nat
      /\ s.lock \in Held(s) /\ s.exec \in Held(s)
      /\ Sequence(s.exec) <= Sequence(s.lock) /\ Sequence(s.lock) <= s.lastSequence
  BY <1>1, <1>4 DEF LocksHeld, Rep
<1>7. CASE ~ Undecided(s, p)
  <2>1. u = s
    BY <1>7 DEF Update
  <2>2. p[1] \in Handed(s) \cup Y
    BY <1>1, <1>2, <1>4, <1>7 DEF Undecided, DecidedHanded
  <2>3. Y = {} => ~ s.crashed
    BY <1>1
  <2>. HIDE DEF u
  <2>. QED  BY <1>3, <1>5, <1>6, <2>1, <2>2, <2>3 DEF Outcome, u
<1>8. CASE Undecided(s, p)
  <2>1. ~ s.obj[p].decision
    BY <1>8 DEF Undecided
  <2>2. Updated(s, t, qc)
    BY <1>1, <1>2, PreCommitUpdates
  <2>3. /\ t \in Rep /\ t.tree = s.tree /\ t.lastSequence = s.lastSequence
    BY <2>2 DEF Updated
  <2>4. /\ t.lock = s.lock /\ t.exec = s.exec /\ t.crashed = s.crashed
        /\ \A q \in Ptr : /\ t.obj[q].qcRef = s.obj[q].qcRef
                          /\ t.obj[q].decision = s.obj[q].decision
                          /\ s.obj[q].preCommit => t.obj[q].preCommit
                          /\ t.obj[q].preCommit =>
                               s.obj[q].preCommit \/ (q = p /\ t.ledger.proof = qc)
        /\ t.obj[p].preCommit
        /\ \/ t.ledger = s.ledger
           \/ t.ledger.seq = Sequence(p) /\ t.ledger.proof = qc
        /\ t.ledger.lastConsSeq = s.ledger.lastConsSeq
    BY <1>1, <1>2, PreCommitFacts
  <2>5. Held(t) = Held(s) /\ Handed(s) \subseteq Handed(t)
    BY <2>3, <2>4, HandedGrows
  <2>6. p[1] \in Handed(t)
    BY <1>1, <1>2, <2>4, <2>5 DEF Handed
  <2>7. u = IF ~ Undecided(t, blk1) THEN t ELSE Execute(w, p, blk1)
    BY <1>8, Zenon DEF Update
  <2>8. blk1 = s.obj[p].qcRef
    BY <1>2, <2>4
  <2>. HIDE DEF u, t
  <2>9. CASE ~ Undecided(t, blk1)
    <3>1. u = t
      BY <2>7, <2>9
    <3>. HIDE DEF blk1
    <3>2. Y = {} => ~ t.crashed
      BY <1>1, <2>4
    <3>. QED  BY <1>3, <1>5, <1>6, <2>1, <2>4, <2>5, <2>6, <3>1, <3>2 DEF Outcome, u
  <2>10. CASE Undecided(t, blk1)
    <3>1. blk1 # Null /\ ~ t.obj[blk1].decision
      BY <2>10 DEF Undecided
    <3>2. /\ blk1 \in Held(s) /\ blk1 \in Ptr
          /\ blk1[1] = node[p[1]].parent /\ blk1[1] < p[1]
          /\ Sequence(p) = Sequence(blk1) + 1
          /\ Sequence(p) \in Nat /\ Sequence(blk1) \in Nat
      BY <1>1, <1>4, <2>8, <3>1, ReferredFacts, HeldFacts
    <3>3. Sequence(blk1) <= s.lastSequence
      <4>1. Sequence(p) <= s.lastSequence + 1
        BY <1>1 DEF RepGood, SequencesSeen
      <4>. HIDE DEF blk1
      <4>. QED  BY <1>6, <3>2, <4>1
    <3>4. w = IF Sequence(blk1) > Sequence(s.lock) THEN [t EXCEPT !.lock = blk1] ELSE t
      BY <2>4, Zenon DEF Lock
    <3>. HIDE DEF blk1, w
    <3>5. /\ w \in Rep /\ w.tree = s.tree /\ w.lastSequence = s.lastSequence
          /\ w.highQc = t.highQc /\ w.exec = s.exec /\ w.crashed = s.crashed
          /\ w.obj = t.obj /\ w.ledger = t.ledger
          /\ w.lock \in {s.lock, blk1}
          /\ Sequence(w.lock) >= Sequence(s.lock)
          /\ Sequence(w.lock) >= Sequence(blk1)
          /\ Sequence(w.lock) <= s.lastSequence
          /\ w.lock \in Held(s)
      <4>1. CASE Sequence(blk1) > Sequence(s.lock)
        <5>1. w = [t EXCEPT !.lock = blk1]
          BY <3>4, <4>1
        <5>2. /\ w \in Rep /\ w.tree = t.tree /\ w.lastSequence = t.lastSequence
              /\ w.highQc = t.highQc /\ w.exec = t.exec /\ w.crashed = t.crashed
              /\ w.obj = t.obj /\ w.ledger = t.ledger /\ w.lock = blk1
          BY <2>3, <3>2, <5>1 DEF Rep
        <5>. QED  BY <1>5, <1>6, <2>3, <2>4, <3>2, <3>3, <4>1, <5>2
      <4>2. CASE ~ (Sequence(blk1) > Sequence(s.lock))
        <5>1. w = t
          BY <3>4, <4>2
        <5>. QED  BY <1>5, <1>6, <2>3, <2>4, <3>2, <4>2, <5>1
      <4>. QED  BY <4>1, <4>2
    <3>6. \/ u = w
          \/ /\ Undecided(w, blk) /\ node[p[1]].parent = blk1[1]
             /\ node[blk1[1]].parent = blk[1]
             /\ u = v
      <4>1. u = Execute(w, p, blk1)
        BY <2>7, <2>10
      <4>. HIDE DEF u
      <4>. QED  BY <4>1, Zenon DEF Execute, ParentHash
    <3>7. CASE u = w
      <4>1. Handed(w) = Handed(t) /\ Held(w) = Held(s)
        BY <2>3, <3>5 DEF Handed, Held
      <4>2. Y = {} => ~ w.crashed
        BY <1>1, <3>5
      <4>. QED  BY <1>3, <1>5, <1>6, <2>1, <2>4, <2>5, <2>6, <3>5, <3>7, <4>1, <4>2 DEF Outcome, u
    <3>8. CASE /\ Undecided(w, blk) /\ node[p[1]].parent = blk1[1]
               /\ node[blk1[1]].parent = blk[1]
               /\ u = v
      <4>1. blk = s.obj[blk1].qcRef /\ blk # Null
        BY <2>4, <3>2, <3>5, <3>8 DEF Undecided
      <4>2. /\ blk \in Held(s) /\ blk \in Ptr
            /\ blk1[1] \in DOMAIN node \ {Genesis}
            /\ blk[1] = node[blk1[1]].parent /\ blk[1] < blk1[1]
            /\ Sequence(blk1) = Sequence(blk) + 1
            /\ Sequence(blk) \in Nat
        BY <1>1, <1>4, <3>2, <4>1, ReferredFacts, HeldFacts
      <4>3. Sequence(blk) >= 1 /\ Sequence(p) > 2
        <5>. HIDE DEF blk
        <5>1. Sequence(blk) >= 1
          BY <1>1, <1>4, <4>2, NodeFacts DEF ObjectsLinked, Sequence
        <5>. QED  BY <3>2, <4>2, <5>1
      <4>4. node[p[1]].qc \in C /\ node[p[1]].qc.node = blk1[1]
        BY <1>1, <3>2, <4>3 DEF Linked, Sequence
      <4>5. Linked(blk1[1], C)
        BY <1>1, <4>4 DEF CertsLinked
      <4>6. blk[1] = Genesis \/ \E c \in C : c.node = blk[1]
        <5>1. Sequence(blk1) > 2 \/ blk[1] = Genesis
          BY <1>1, <4>2, <4>5, LinkedFacts DEF Sequence
        <5>. QED  BY <4>2, <4>5, <5>1 DEF Linked, Sequence
      <4>7. p[1] \in Nat /\ blk1[1] \in Nat /\ blk[1] \in Nat
        <5>1. blk[1] \in DOMAIN node
          BY <1>4, <4>2 DEF ObjectsLinked
        <5>. QED  BY <1>1, <4>2, <5>1, NodeFacts
      <4>8. /\ \A x \in X : ~ (x[1] <= blk[1])
            /\ blk1 \notin X
        <5>1. ASSUME NEW x \in X
              PROVE  ~ (x[1] <= blk[1]) /\ x # blk1
          <6>1. ~ (x[1] <= p[1])
            BY <1>1
          <6>2. x[1] # blk1[1]
            BY <3>2, <4>7, <6>1
          <6>3. x[1] \in Nat
            <7>1. x \in Held(s)
              BY DEF Receives
            <7>. QED  BY <1>1, <7>1, HeldFacts, HashType
          <6>4. ~ (x[1] <= blk[1])
            <7>. HIDE DEF blk
            <7>. QED  BY <3>2, <4>2, <4>7, <6>1, <6>3
          <6>. QED  BY <6>2, <6>4
        <5>. QED  BY <5>1
      <4>9. blk[1] \in Handed(s) \cup Y
        <5>1. CASE blk[1] = Genesis
          BY <1>1, <5>1 DEF RepGood, GenesisHeld
        <5>2. CASE blk[1] # Genesis
          <6>1. Sequence(blk1) > 2
            BY <1>1, <4>2, <4>5, <5>2, LinkedFacts DEF Sequence
          <6>2. ~ s.obj[blk1].decision
            BY <2>4, <3>1, <3>2
          <6>. QED  BY <1>1, <3>2, <4>2, <4>8, <6>1, <6>2 DEF RepGood, ParentsHanded, ParentHash
        <5>. QED  BY <5>1, <5>2
      <4>. HIDE DEF blk, v
      <4>10. /\ \A x \in ToSet(Front(Walk(w, blk))) : x \in Held(s) /\ x[1] \in Handed(s) \cup Y
             /\ Y = {} => Last(Walk(w, blk)) # Null
             /\ Last(Walk(w, blk)) = s.exec => Sequence(blk) >= Sequence(s.exec)
        BY <1>1, <3>5, <4>2, <4>6, <4>8, <4>9, WalkHanded
      <4>11. /\ v.lock = w.lock /\ v.ledger = w.ledger
             /\ \A q \in Ptr : /\ v.obj[q].qcRef = w.obj[q].qcRef
                               /\ v.obj[q].preCommit = w.obj[q].preCommit
                               /\ w.obj[q].decision => v.obj[q].decision
                               /\ v.obj[q].decision =>
                                    w.obj[q].decision \/ q \in ToSet(Front(Walk(w, blk)))
             /\ \/ v.exec = w.exec /\ v.crashed /\ Last(Walk(w, blk)) = Null
                \/ v.exec = blk /\ v.crashed = w.crashed /\ Last(Walk(w, blk)) = w.exec
                \/ v.exec = w.exec /\ v.crashed = w.crashed
        BY <3>5, <4>2, CommitFacts DEF v
      <4>12. Updated(w, v, qc)
        BY <3>5, <4>2, CommitUpdates DEF v
      <4>13. v.tree = s.tree
        BY <3>5, <4>12 DEF Updated
      <4>14. Held(v) = Held(s) /\ Handed(t) \subseteq Handed(v)
        BY <2>3, <2>5, <3>5, <4>11, <4>13, HandedGrows
      <4>15. Sequence(blk) <= Sequence(v.lock)
        <5>1. Sequence(v.lock) \in Nat
          BY <1>5, <3>5, <4>11
        <5>. QED  BY <3>2, <3>5, <4>2, <4>11, <5>1
      <4>16. Sequence(s.exec) <= Sequence(v.lock)
        <5>1. Sequence(v.lock) \in Nat /\ Sequence(s.lock) \in Nat /\ Sequence(s.exec) \in Nat
          BY <1>5, <1>6, <3>5, <4>11
        <5>. QED  BY <1>6, <3>5, <4>11, <5>1
      <4>17. /\ v.exec \in Held(s)
             /\ Sequence(v.exec) >= Sequence(s.exec) /\ Sequence(v.exec) <= Sequence(v.lock)
             /\ \/ v.exec = s.exec
                \/ /\ ~ v.crashed
                   /\ Sequence(p) > 2
                   /\ node[node[p[1]].parent].parent = v.exec[1]
        <5>1. Sequence(s.exec) \in Nat
          BY <1>5, <1>6
        <5>2. CASE v.exec = s.exec
          BY <1>6, <4>16, <5>1, <5>2
        <5>3. CASE v.exec # s.exec
          <6>1. v.exec = blk /\ ~ v.crashed /\ Last(Walk(w, blk)) = s.exec
            BY <1>1, <3>5, <4>11, <5>3
          <6>. QED  BY <3>8, <4>2, <4>3, <4>10, <4>15, <6>1
        <5>. QED  BY <5>2, <5>3
      <4>18. Y = {} => ~ v.crashed
        BY <1>1, <3>5, <4>10, <4>11
      <4>19. \A q \in Ptr : /\ v.obj[q].qcRef = s.obj[q].qcRef
                            /\ s.obj[q].preCommit => v.obj[q].preCommit
                            /\ v.obj[q].preCommit =>
                                 \/ s.obj[q].preCommit
                                 \/ q = p /\ ~ s.obj[p].decision /\ v.ledger.proof = qc
                            /\ s.obj[q].decision => v.obj[q].decision
                            /\ v.obj[q].decision => \/ s.obj[q].decision
                                                    \/ q \in Held(s) /\ q[1] \in Handed(v) \cup Y
        BY <2>1, <2>4, <2>5, <3>5, <4>10, <4>11, <4>14
      <4>20. /\ p[1] \in Handed(v)
             /\ v.lock \in Held(s)
             /\ Sequence(v.lock) >= Sequence(s.lock) /\ Sequence(v.lock) <= s.lastSequence
             /\ \/ v.ledger = s.ledger
                \/ v.ledger.seq = Sequence(p) /\ v.ledger.proof = qc /\ p[1] \in Handed(v)
             /\ v.ledger.lastConsSeq = s.ledger.lastConsSeq
        BY <2>4, <2>6, <3>5, <4>11, <4>14
      <4>. QED  BY <1>3, <3>8, <4>17, <4>18, <4>19, <4>20 DEF Outcome, u
    <3>. QED  BY <3>6, <3>7, <3>8
  <2>. QED  BY <2>9, <2>10
<1>. QED  BY <1>7, <1>8

\* A replica stays good as it receives a certificate; D are the certificates there
\* are then, among them the new one unless the replica has crashed over it.
LEMMA UpdateGood ==
  ASSUME NEW s, NEW p, NEW qc, NEW C, NEW Y, NEW X, Receives(s, p, qc, C, Y, X),
         NEW u, Outcome(s, u, p, qc, Y),
         NEW D, C \subseteq D, ~ u.crashed => qc \in D,
         u.ledger.proof = NoQc \/ u.ledger.proof \in D
  PROVE  RepGood(u, D, Y, X)
<1>1. /\ TypeOK /\ NodesLinked /\ CertsLinked(C) /\ s \in Rep /\ TreeMade(s)
      /\ RepGood(s, C, Y, X) /\ ~ s.crashed /\ Linked(p[1], C)
      /\ p \in Held(s) /\ p \in Ptr /\ p \notin X /\ p[1] \in DOMAIN node \ {Genesis}
      /\ qc.node = p[1] /\ qc.sequence = Sequence(p)
  BY HeldFacts DEF Receives, Sequence
<1>2. /\ u \in Rep /\ u.tree = s.tree /\ u.lastSequence = s.lastSequence
      /\ \A q \in Ptr : /\ u.obj[q].qcRef = s.obj[q].qcRef
                        /\ s.obj[q].preCommit => u.obj[q].preCommit
                        /\ u.obj[q].preCommit =>
                             \/ s.obj[q].preCommit
                             \/ q = p /\ ~ s.obj[p].decision /\ u.ledger.proof = qc
                        /\ s.obj[q].decision => u.obj[q].decision
                        /\ u.obj[q].decision => \/ s.obj[q].decision
                                                \/ q \in Held(s) /\ q[1] \in Handed(u) \cup Y
  BY DEF Outcome, Updated
<1>3. Held(u) = Held(s) /\ Handed(s) \subseteq Handed(u)
  BY <1>2, HandedGrows
<1>4. \A x \in Held(s) : x \in Ptr /\ Sequence(x) \in Nat
  BY <1>1, HeldFacts, NodeFacts DEF RepGood, ObjectsLinked, Sequence
<1>5. GenesisHeld(u)
  BY <1>1, <1>2, <1>3 DEF RepGood, GenesisHeld
<1>6. ObjectsLinked(u)
  BY <1>1, <1>2, <1>3, <1>4 DEF RepGood, ObjectsLinked
<1>7. LocksHeld(u)
  BY <1>2, <1>3 DEF Outcome, LocksHeld
<1>8. SequencesSeen(u, X)
  BY <1>1, <1>2, <1>3 DEF RepGood, SequencesSeen
<1>9. ParentsHanded(u, Y, X)
  <2>. SUFFICES ASSUME NEW q \in Held(s) \ X, Sequence(q) > 2,
                       ParentHash(q) \notin Handed(u) \cup Y
                PROVE  u.obj[q].decision /\ ~ u.obj[q].preCommit /\ Sequence(q) <= Sequence(u.exec)
    BY <1>3 DEF ParentsHanded
  <2>1. s.obj[q].decision /\ ~ s.obj[q].preCommit /\ Sequence(q) <= Sequence(s.exec)
    BY <1>1, <1>3 DEF RepGood, ParentsHanded
  <2>2. Sequence(s.exec) \in Nat /\ Sequence(u.exec) \in Nat /\ Sequence(q) \in Nat
    BY <1>1, <1>4 DEF RepGood, LocksHeld, Outcome
  <2>3. Sequence(q) <= Sequence(u.exec)
    BY <2>1, <2>2 DEF Outcome
  <2>. QED  BY <1>2, <1>4, <2>1, <2>3
<1>10. DecidedHanded(u, Y)
  BY <1>1, <1>2, <1>3, <1>4 DEF RepGood, DecidedHanded
<1>11. LedgerHanded(u, D, Y)
  <2>1. CASE u.ledger = s.ledger
    BY <1>1, <1>2, <1>3, <2>1 DEF RepGood, LedgerHanded
  <2>2. CASE u.ledger.seq = Sequence(p) /\ u.ledger.proof = qc /\ p[1] \in Handed(u)
    <3>1. qc # NoQc
      BY <1>1, NodeType, HashType DEF NoQc
    <3>2. s.tree[p[1]] > 0
      BY <1>1, HeldFacts
    <3>. QED  BY <1>1, <1>2, <2>2, <3>1, <3>2 DEF LedgerHanded
  <2>. QED  BY <2>1, <2>2 DEF Outcome
<1>12. ExecCertified(u, D, Y)
  <2>1. CASE u.exec = s.exec
    BY <1>1, <2>1 DEF RepGood, ExecCertified
  <2>2. CASE /\ ~ u.crashed
             /\ Sequence(p) > 2
             /\ node[node[p[1]].parent].parent = u.exec[1]
    <3>1. node[p[1]].qc \in C /\ node[p[1]].qc.node = node[p[1]].parent
      BY <1>1, <2>2 DEF Linked, Sequence
    <3>. QED  BY <1>1, <2>2, <3>1 DEF ExecCertified
  <2>. QED  BY <2>1, <2>2 DEF Outcome
<1>13. TreeClosed(u, Y)
  BY <1>1, <1>2 DEF RepGood, TreeClosed, Outcome
<1>14. HandedCertified(u, D)
  <2>. SUFFICES ASSUME NEW q \in Held(s), u.obj[q].preCommit, q[1] # Genesis
                PROVE  \E c \in D : c.node = q[1]
    BY <1>3 DEF HandedCertified, Handed
  <2>1. CASE s.obj[q].preCommit
    <3>1. q[1] \in Handed(s)
      BY <2>1 DEF Handed
    <3>. QED  BY <1>1, <3>1 DEF RepGood, HandedCertified
  <2>2. CASE ~ s.obj[q].preCommit
    <3>1. q = p /\ u.ledger.proof = qc
      BY <1>2, <1>4, <2>2
    <3>2. qc # NoQc
      BY <1>1, NodeType, HashType DEF NoQc
    <3>. QED  BY <1>1, <3>1, <3>2
  <2>. QED  BY <2>1, <2>2
<1>. QED  BY <1>5, <1>6, <1>7, <1>8, <1>9, <1>10, <1>11, <1>12, <1>13, <1>14 DEF RepGood

\* With more certificates and more nodes taken from proofs a replica is still good.
LEMMA MoreGood ==
  ASSUME NEW s, NEW C, NEW Y, NEW X, RepGood(s, C, Y, X),
         NEW D, C \subseteq D, NEW Z, Y \subseteq Z
  PROVE  RepGood(s, D, Z, X)
<1>1. ParentsHanded(s, Z, X)
  BY DEF RepGood, ParentsHanded
<1>2. DecidedHanded(s, Z)
  BY DEF RepGood, DecidedHanded
<1>3. LedgerHanded(s, D, Z)
  BY DEF RepGood, LedgerHanded
<1>4. ExecCertified(s, D, Z)
  BY DEF RepGood, ExecCertified
<1>5. TreeClosed(s, Z)
  BY DEF RepGood, TreeClosed
<1>6. HandedCertified(s, D)
  BY DEF RepGood, HandedCertified
<1>. QED  BY <1>1, <1>2, <1>3, <1>4, <1>5, <1>6 DEF RepGood

\* Nodes do not change once they are made.
NodesStay ==
  DOMAIN node \subseteq DOMAIN node' /\ \A h \in DOMAIN node : node'[h] = node[h]

LEMMA LinkedStays ==
  ASSUME TypeOK, NodesLinked, NodesStay, NEW C, NEW h \in DOMAIN node \ {Genesis}, Linked(h, C)
  PROVE  Linked(h, C)'
<1>1. node[h].parent \in DOMAIN node
  BY LinkedFacts
<1>. QED  BY <1>1 DEF Linked, NodesStay

LEMMA CertsLinkedStay ==
  ASSUME TypeOK, NodesLinked, NodesStay, NEW C, CertsLinked(C)
  PROVE  CertsLinked(C)'
<1>. SUFFICES ASSUME NEW qc \in C
              PROVE  /\ qc.node \in DOMAIN node' \ {Genesis}
                     /\ qc.sequence = node'[qc.node].sequence
                     /\ Linked(qc.node, C)'
  BY DEF CertsLinked
<1>1. qc.node \in DOMAIN node \ {Genesis} /\ qc.sequence = node[qc.node].sequence /\ Linked(qc.node, C)
  BY DEF CertsLinked
<1>. QED  BY <1>1, LinkedStays DEF NodesStay

LEMMA GoodStays ==
  ASSUME TypeOK, NodesLinked, NodesStay, NEW s \in Rep, TreeMade(s),
         NEW C, CertsLinked(C), NEW Y, NEW X, RepGood(s, C, Y, X)
  PROVE  RepGood(s, C, Y, X)'
<1>1. \A p \in Held(s) : /\ p \in Ptr /\ p[1] \in DOMAIN node /\ p[1] \in DOMAIN node'
                         /\ node'[p[1]] = node[p[1]]
                         /\ Sequence(p)' = Sequence(p)
                         /\ ParentHash(p)' = ParentHash(p)
  BY HeldFacts DEF RepGood, ObjectsLinked, NodesStay, Sequence, ParentHash
<1>2. Held(s)' = Held(s) /\ Handed(s)' = Handed(s)
  BY DEF Held, Handed
<1>3. GenesisHeld(s)'
  BY <1>2 DEF RepGood, GenesisHeld
<1>4. ObjectsLinked(s)'
  BY <1>1, <1>2 DEF RepGood, ObjectsLinked
<1>5. LocksHeld(s)'
  BY <1>1, <1>2 DEF RepGood, LocksHeld
<1>6. SequencesSeen(s, X)'
  BY <1>1, <1>2 DEF RepGood, SequencesSeen
<1>7. ParentsHanded(s, Y, X)'
  BY <1>1, <1>2, <1>5 DEF RepGood, ParentsHanded, LocksHeld
<1>8. DecidedHanded(s, Y)'
  BY <1>2 DEF RepGood, DecidedHanded
<1>9. LedgerHanded(s, C, Y)'
  BY <1>2 DEF RepGood, LedgerHanded
<1>10. ExecCertified(s, C, Y)'
  <2>1. \A c \in C : node'[c.node] = node[c.node]
    BY DEF CertsLinked, NodesStay
  <2>. QED  BY <2>1 DEF RepGood, ExecCertified
<1>11. TreeClosed(s, Y)'
  BY DEF RepGood, TreeClosed, TreeMade, NodesStay
<1>12. HandedCertified(s, C)'
  BY <1>2 DEF RepGood, HandedCertified
<1>. QED  BY <1>3, <1>4, <1>5, <1>6, <1>7, <1>8, <1>9, <1>10, <1>11, <1>12 DEF RepGood

-----------------------------------------------------------------------------
(* Every step keeps the invariant                                          *)

LEMMA NodesLinkedSame ==
  ASSUME NodesLinked, node' = node, Certificates \subseteq Certificates'
  PROVE  NodesLinked'
BY DEF NodesLinked

\* Only the replica that takes the step, and its votes, need looking at; D are
\* the certificates after the step and Z the nodes r has then taken from proofs.
LEMMA ChainStep ==
  ASSUME ChainInv, IInv', NodesStay, NodesLinked', NEW r \in Replica, NEW u,
         rep' = [rep EXCEPT ![r] = u],
         NEW D, D = Certificates', Certificates \subseteq D, CertsLinked(D),
         NEW Z, synced' = [synced EXCEPT ![r] = Z],
         RepGood(u, D, Z, {})',
         \A vote \in votes' : \/ vote \in votes
                              \/ vote.node \in DOMAIN node \ {Genesis} /\ Linked(vote.node, D),
         \A q \in Replica \ {r} : building'[q] = building[q],
         building'[r] # 0 =>
           building'[r] >= 2 /\ (u.ledger.proof = NoQc => building'[r] = 2)
  PROVE  ChainInv'
<1>1. /\ TypeOK /\ NodesLinked /\ rep \in [Replica -> Rep] /\ synced \in [Replica -> SUBSET Hash]
  BY DEF ChainInv, IInv, TypeOK
<1>2. /\ \A q \in Replica : rep'[q] = IF q = r THEN u ELSE rep[q]
      /\ \A q \in Replica : synced'[q] = IF q = r THEN Z ELSE synced[q]
  BY <1>1
<1>3. CertsLinked(D)'
  BY <1>1, CertsLinkedStay
<1>4. \A q \in Replica : RepGood(rep[q], D, synced[q], {})'
  <2>. TAKE q \in Replica
  <2>1. CASE q = r
    BY <1>2, <2>1
  <2>2. CASE q # r
    <3>. DEFINE s == rep[q]
                Y == synced[q]
    <3>1. RepGood(s, Certificates, Y, {}) /\ TreeMade(s) /\ s \in Rep
      BY <1>1 DEF ChainInv, IInv, TreesHoldNodes, TreeMade
    <3>2. rep'[q] = s /\ synced'[q] = Y
      BY <1>2, <2>2
    <3>. HIDE DEF s, Y
    <3>3. RepGood(s, D, Y, {})
      BY <3>1, MoreGood
    <3>. PICK k, W : k = s /\ W = Y
      OBVIOUS
    <3>4. RepGood(k, D, W, {})'
      BY <1>1, <3>1, <3>3, GoodStays
    <3>. QED  BY <3>2, <3>4
  <2>. QED  BY <2>1, <2>2
<1>5. VotesLinked'
  <2>. SUFFICES ASSUME NEW vote \in votes'
                PROVE  vote.node # Genesis /\ Linked(vote.node, D)'
    BY DEF VotesLinked
  <2>1. vote.node \in DOMAIN node \ {Genesis} /\ Linked(vote.node, D)
    BY DEF ChainInv, IInv, VotesForNodes, VotesLinked, Linked
  <2>. QED  BY <1>1, <2>1, LinkedStays
<1>6. BuildingNext'
  BY <1>2 DEF ChainInv, BuildingNext
<1>. QED  BY <1>3, <1>4, <1>5, <1>6 DEF ChainInv

\* What ChainInv says of a replica.
LEMMA ChainFacts ==
  ASSUME ChainInv, NEW r \in Replica
  PROVE  /\ TypeOK /\ NodesLinked /\ CertsLinked(Certificates)
         /\ rep[r] \in Rep /\ TreeMade(rep[r])
         /\ RepGood(rep[r], Certificates, synced[r], {})
         /\ rep[r].ledger.proof = NoQc \/ rep[r].ledger.proof \in Certificates
         /\ Certificates \subseteq Qc
<1>1. RepGood(rep[r], Certificates, synced[r], {})
  BY DEF ChainInv
<1>2. rep[r].ledger.proof = NoQc \/ rep[r].ledger.proof \in Certificates
  BY <1>1 DEF RepGood, LedgerHanded
<1>. QED  BY <1>1, <1>2, RepType DEF ChainInv, IInv, TypeOK, TreesHoldNodes, TreeMade, Certificates

\* The lock, the executed node and the highest sequence of s do not fall with u.
NotBack(s, u) ==
  /\ u.lock[1] \in DOMAIN node /\ u.exec[1] \in DOMAIN node
  /\ Sequence(u.lock) >= Sequence(s.lock)
  /\ Sequence(u.exec) >= Sequence(s.exec)
  /\ u.lastSequence >= s.lastSequence

\* A step in which r receives a certificate.
LEMMA UpdateStep ==
  ASSUME ChainInv, IInv', node' = node, NEW r \in Replica,
         NEW s, NEW p, NEW qc, Receives(s, p, qc, Certificates, synced[r], {}),
         s.ledger = rep[r].ledger,
         NEW u, u = Update(s, p, qc), rep' = [rep EXCEPT ![r] = u],
         proofs' = proofs \cup Recorded(u),
         decides \subseteq decides', decides' \subseteq decides \cup {qc},
         ~ u.crashed => qc \in Certificates',
         UNCHANGED <<building, votes, synced>>
  PROVE  ChainInv' /\ NotBack(s, u)
<1>. DEFINE D == Certificates'
            Y == synced[r]
<1>1. Outcome(s, u, p, qc, Y)
  BY UpdateOutcome
<1>2. qc # NoQc /\ Linked(qc.node, Certificates) /\ s.lastSequence \in Nat
  BY NodeType, HashType DEF Receives, NoQc, Rep
<1>3. Certificates \subseteq D /\ D \subseteq Certificates \cup {qc}
  BY <1>1, ChainFacts DEF Certificates, Recorded, Outcome, Updated
<1>4. CertsLinked(D)
  BY <1>3 DEF Receives, CertsLinked, Linked
<1>5. u.ledger.proof = NoQc \/ u.ledger.proof \in D
  BY DEF Certificates, Recorded
<1>6. NodesLinked' /\ NodesStay
  BY <1>3, NodesLinkedSame DEF ChainInv, NodesStay
<1>7. RepGood(u, D, Y, {}) /\ u \in Rep /\ TreeMade(u)
  <2>. HIDE DEF D, Y
  <2>1. RepGood(u, D, Y, {})
    BY <1>1, <1>3, <1>5, UpdateGood DEF D, Y
  <2>. QED  BY <1>1, <2>1 DEF Outcome, Updated, Receives, TreeMade
<1>8. u.ledger.proof = NoQc => rep[r].ledger.proof = NoQc
  BY <1>1, <1>2 DEF Outcome
<1>9. synced' = [synced EXCEPT ![r] = Y] /\ TypeOK /\ NodesLinked
  BY DEF ChainInv, IInv, TypeOK
<1>. PICK k, W, E : k = u /\ W = Y /\ E = D
  OBVIOUS
<1>. HIDE DEF D, Y
<1>10. RepGood(k, E, W, {})'
  BY <1>4, <1>6, <1>7, <1>9, GoodStays
<1>11. building'[r] # 0 => building'[r] >= 2 /\ (u.ledger.proof = NoQc => building'[r] = 2)
  BY <1>8 DEF ChainInv, BuildingNext
<1>12. ChainInv'
  BY <1>3, <1>4, <1>6, <1>9, <1>10, <1>11, ChainStep DEF D
<1>13. u.lock[1] \in DOMAIN node /\ u.exec[1] \in DOMAIN node
  BY <1>1 DEF Outcome, Receives, RepGood, ObjectsLinked
<1>. QED  BY <1>1, <1>2, <1>12, <1>13 DEF Outcome, NotBack, Updated

\* A step after which there are no other certificates than before.
LEMMA SameCertsStep ==
  ASSUME ChainInv, IInv', node' = node, Certificates' = Certificates,
         NEW r \in Replica, NEW u \in Rep, rep' = [rep EXCEPT ![r] = u], TreeMade(u),
         NEW Z, synced' = [synced EXCEPT ![r] = Z],
         RepGood(u, Certificates, Z, {}),
         \A vote \in votes' :
           \/ vote \in votes
           \/ vote.node \in DOMAIN node \ {Genesis} /\ Linked(vote.node, Certificates),
         \A q \in Replica \ {r} : building'[q] = building[q],
         building'[r] # 0 =>
           building'[r] >= 2 /\ (u.ledger.proof = NoQc => building'[r] = 2)
  PROVE  ChainInv'
<1>1. TypeOK /\ NodesLinked /\ CertsLinked(Certificates)
  BY ChainFacts
<1>2. NodesLinked' /\ NodesStay
  BY <1>1, NodesLinkedSame DEF NodesStay
<1>. DEFINE D == Certificates
<1>. HIDE DEF D
<1>. PICK E : E = D
  OBVIOUS
<1>3. CertsLinked(E) /\ RepGood(u, E, Z, {})
  BY <1>1 DEF D
<1>4. RepGood(u, E, Z, {})'
  BY <1>1, <1>2, <1>3, GoodStays
<1>5. E = Certificates' /\ Certificates \subseteq E
  BY DEF D
<1>6. \A vote \in votes' : \/ vote \in votes
                           \/ vote.node \in DOMAIN node \ {Genesis} /\ Linked(vote.node, E)
  BY DEF D
<1>. QED  BY <1>2, <1>3, <1>4, <1>5, <1>6, ChainStep

\* What BuildingNext says of r holds after a step too in which r stops building,
\* or goes on with a ledger that does not lose its proof.
LEMMA BuildingOn ==
  ASSUME ChainInv, NEW r \in Replica, NEW u,
         u.ledger.proof = NoQc => rep[r].ledger.proof = NoQc, building' = building
  PROVE  /\ \A q \in Replica \ {r} : building'[q] = building[q]
         /\ building'[r] # 0 =>
              building'[r] >= 2 /\ (u.ledger.proof = NoQc => building'[r] = 2)
BY DEF ChainInv, BuildingNext

LEMMA NotBackRefl ==
  ASSUME ChainInv, NEW r \in Replica
  PROVE  NotBack(rep[r], rep[r])
<1>1. /\ rep[r].lock[1] \in DOMAIN node /\ rep[r].exec[1] \in DOMAIN node
      /\ rep[r].lastSequence \in Nat
  BY ChainFacts DEF RepGood, LocksHeld, ObjectsLinked, Rep
<1>. QED  BY <1>1, ChainFacts, NodeFacts DEF NotBack, Sequence

\* A step that leaves the replicas alone but for what they build.
LEMMA QuietChain ==
  ASSUME ChainInv, IInv', UNCHANGED <<node, rep, votes, decides, synced>>,
         NEW r \in Replica, proofs' \subseteq proofs \cup Recorded(rep[r]), proofs \subseteq proofs',
         \A q \in Replica \ {r} : building'[q] = building[q],
         building'[r] # 0 =>
           building'[r] >= 2 /\ (rep[r].ledger.proof = NoQc => building'[r] = 2)
  PROVE  ChainInv'
<1>1. Certificates' = Certificates
  BY ChainFacts DEF Certificates, Recorded
<1>2. rep' = [rep EXCEPT ![r] = rep[r]] /\ synced' = [synced EXCEPT ![r] = synced[r]]
  BY DEF ChainInv, IInv, TypeOK
<1>. PICK u, Z : u = rep[r] /\ Z = synced[r]
  OBVIOUS
<1>. QED  BY <1>1, <1>2, ChainFacts, SameCertsStep

LEMMA StartConsensusChain ==
  ASSUME ChainInv, NEW r \in Replica, StartConsensus(r)
  PROVE  ChainInv' /\ NotBack(rep[r], rep'[r])
<1>1. IInv'
  BY StartConsensusKeeps DEF ChainInv
<1>. DEFINE l == rep[r].ledger
<1>2. l.seq + 1 >= 2 /\ (l.proof = NoQc => l.seq + 1 = 2)
  <2>1. CASE l.proof = NoQc /\ l.seq = 1
    BY <2>1
  <2>2. CASE l.proof \in Certificates /\ l.seq = l.proof.sequence
    <3>1. /\ l.proof.node \in DOMAIN node \ {Genesis} /\ l.seq = node[l.proof.node].sequence
          /\ l.proof # NoQc
      BY <2>2, ChainFacts, NodeType, HashType DEF CertsLinked, NoQc
    <3>2. l.seq \in Nat /\ l.seq >= 2
      BY <3>1, ChainFacts, NodeFacts DEF NodesLinked
    <3>. HIDE DEF l
    <3>. QED  BY <3>1, <3>2
  <2>. QED  BY <2>1, <2>2, ChainFacts DEF RepGood, LedgerHanded
<1>3. /\ building' = [building EXCEPT ![r] = l.seq + 1]
      /\ UNCHANGED <<node, rep, votes, decides, proofs, synced>>
  BY DEF StartConsensus
<1>4. building'[r] = l.seq + 1 /\ \A q \in Replica \ {r} : building'[q] = building[q]
  BY <1>3 DEF ChainInv, IInv, TypeOK
<1>. HIDE DEF l
<1>5. building'[r] # 0 => building'[r] >= 2 /\ (rep[r].ledger.proof = NoQc => building'[r] = 2)
  BY <1>2, <1>4 DEF l
<1>. QED  BY <1>1, <1>3, <1>4, <1>5, QuietChain, NotBackRefl

LEMMA SetViewInActiveChain ==
  ASSUME ChainInv, NEW r \in Replica, SetViewInActive(r)
  PROVE  ChainInv' /\ NotBack(rep[r], rep'[r])
<1>1. IInv'
  BY SetViewInActiveKeeps DEF ChainInv
<1>2. UNCHANGED <<node, rep, votes, decides, proofs, synced, building>>
  BY DEF SetViewInActive
<1>. QED  BY <1>1, <1>2, BuildingOn, QuietChain, NotBackRefl

LEMMA OnDecideChain ==
  ASSUME ChainInv, NEW r \in Replica, NEW qc \in decides, OnDecide(r, qc)
  PROVE  ChainInv' /\ NotBack(rep[r], rep'[r])
<1>. DEFINE s == rep[r]
            p == GetNode(s, qc.node)
            u == Update(s, p, qc)
<1>1. IInv'
  BY OnDecideKeeps DEF ChainInv
<1>2. /\ ~ s.crashed /\ p # Null
      /\ rep' = [rep EXCEPT ![r] = u] /\ proofs' = proofs \cup Recorded(u)
      /\ UNCHANGED <<node, building, votes, decides, synced>>
  BY DEF OnDecide, Become, Accepts, Alive
<1>3. qc \in Certificates /\ qc \in Qc
  BY ChainFacts DEF Certificates
<1>4. Receives(s, p, qc, Certificates, synced[r], {})
  <2>1. p \in Held(s) /\ p[1] = qc.node
    <3>. HIDE DEF s
    <3>. QED  BY <1>2, ChainFacts, GetNodeType, TopHeld DEF s
  <2>. HIDE DEF p
  <2>. QED  BY <1>2, <1>3, <2>1, ChainFacts DEF Receives, CertsLinked
<1>5. rep'[r] = u
  BY <1>2 DEF ChainInv, IInv, TypeOK
<1>6. ~ u.crashed => qc \in Certificates'
  BY <1>2, <1>3 DEF Certificates, Alive
<1>. PICK k : k = u
  OBVIOUS
<1>7. k = Update(s, p, qc)
  OBVIOUS
<1>. HIDE DEF u, p
<1>. QED  BY <1>1, <1>2, <1>3, <1>4, <1>5, <1>6, <1>7, UpdateStep

LEMMA ViewChangedChain ==
  ASSUME ChainInv, NEW r \in Replica, NEW v \in View, NEW qc \in decides \cup proofs \cup {NoQc},
         ViewChanged(r, v, qc)
  PROVE  ChainInv' /\ NotBack(rep[r], rep'[r])
<1>. DEFINE s == rep[r]
            p == GetNode(s, qc.node)
            u == Update(s, p, qc)
<1>1. IInv'
  BY ViewChangedKeeps DEF ChainInv
<1>2. /\ ~ s.crashed
      /\ rep' = [rep EXCEPT ![r] = u] /\ proofs' = proofs \cup Recorded(u)
      /\ UNCHANGED <<node, building, votes, decides, synced>>
  BY DEF ViewChanged, AdoptQc, Become, Alive
<1>3. rep'[r] = u
  BY <1>2 DEF ChainInv, IInv, TypeOK
<1>4. CASE p = Null
  <2>1. u = s
    BY <1>4 DEF Update, Undecided
  <2>2. rep' = rep
    BY <1>2, <2>1 DEF ChainInv, IInv, TypeOK
  <2>. QED  BY <1>1, <1>2, <1>3, <2>1, <2>2, BuildingOn, QuietChain, NotBackRefl
<1>5. CASE p # Null
  <2>1. p \in Held(s) /\ p[1] = qc.node /\ qc.node \in Hash
    <3>. HIDE DEF s
    <3>. QED  BY <1>5, ChainFacts, GetNodeType, TopHeld DEF s
  <2>2. qc \in Certificates /\ qc \in Qc
    <3>1. qc # NoQc
      BY <2>1, HashType DEF NoQc
    <3>. QED  BY <3>1, ChainFacts DEF Certificates
  <2>3. Receives(s, p, qc, Certificates, synced[r], {})
    <3>. HIDE DEF p
    <3>. QED  BY <1>2, <2>1, <2>2, ChainFacts DEF Receives, CertsLinked
  <2>4. ~ u.crashed => qc \in Certificates'
    BY <1>2, <2>2 DEF Certificates
  <2>. PICK k : k = u
    OBVIOUS
  <2>5. k = Update(s, p, qc)
    OBVIOUS
  <2>. HIDE DEF u, p
  <2>. QED  BY <1>1, <1>2, <1>3, <2>3, <2>4, <2>5, UpdateStep
<1>. QED  BY <1>4, <1>5

\* Votes and the highest certificate have no part in what RepGood says.
LEMMA VotesAside ==
  ASSUME NEW s \in Rep, NEW C, NEW Y, NEW X, RepGood(s, C, Y, X), NEW u,
         u.tree = s.tree, u.ledger = s.ledger, u.lock = s.lock, u.exec = s.exec,
         u.lastSequence = s.lastSequence, u.crashed = s.crashed,
         \A q \in Ptr : /\ u.obj[q].qcRef = s.obj[q].qcRef
                        /\ u.obj[q].decision = s.obj[q].decision
                        /\ u.obj[q].preCommit = s.obj[q].preCommit
  PROVE  RepGood(u, C, Y, X)
<1>1. Held(u) = Held(s) /\ Held(s) \subseteq Ptr
  BY DEF Held
<1>2. Handed(u) = Handed(s)
  BY <1>1 DEF Handed
<1>3. GenesisHeld(u) /\ HandedCertified(u, C) /\ LocksHeld(u) /\ SequencesSeen(u, X)
  BY <1>1, <1>2 DEF RepGood, GenesisHeld, HandedCertified, LocksHeld, SequencesSeen
<1>4. ObjectsLinked(u)
  BY <1>1 DEF RepGood, ObjectsLinked
<1>5. ParentsHanded(u, Y, X) /\ DecidedHanded(u, Y)
  BY <1>1, <1>2 DEF RepGood, ParentsHanded, DecidedHanded
<1>6. LedgerHanded(u, C, Y) /\ ExecCertified(u, C, Y) /\ TreeClosed(u, Y)
  BY <1>1, <1>2 DEF RepGood, LedgerHanded, ExecCertified, TreeClosed
<1>. QED  BY <1>3, <1>4, <1>5, <1>6 DEF RepGood

LEMMA OnVoteChain ==
  ASSUME ChainInv, NEW r \in Replica, NEW vote \in votes, OnVote(r, vote)
  PROVE  ChainInv' /\ NotBack(rep[r], rep'[r])
<1>. DEFINE h     == vote.node
            p     == GetNode(rep[r], h)
            voted == rep[r].obj[p].votes \cup {vote.from}
            o     == [rep[r].obj[p] EXCEPT !.votes = voted]
            m     == [rep[r].obj EXCEPT ![p] = o]
            s     == [rep[r] EXCEPT !.obj = m]
            qc    == [node |-> h, view |-> node[h].view, sequence |-> node[h].sequence,
                      signers |-> voted]
            high  == IF qc.sequence > s.highQc.sequence THEN [s EXCEPT !.highQc = qc] ELSE s
            w     == Update(high, p, qc)
<1>1. IInv'
  BY OnVoteKeeps DEF ChainInv
<1>2. /\ h \in DOMAIN node \ {Genesis} /\ h \in Hash /\ vote \in Vote
      /\ Linked(h, Certificates)
  BY ChainFacts, NodeType DEF ChainInv, IInv, TypeOK, VotesForNodes, VotesLinked
<1>3. p # Null /\ p \in Ptr /\ p[1] = h /\ p \in Held(rep[r])
  <2>1. p # Null
    BY DEF OnVote
  <2>. QED  BY <2>1, ChainFacts, GetNodeType, TopHeld
<1>4. rep[r] \in Rep /\ rep[r].obj \in [Ptr -> Object] /\ rep[r].obj[p] \in Object /\ ~ rep[r].crashed
  BY <1>3, ChainFacts DEF Rep, OnVote, Accepts, Alive
<1>5. voted \in SUBSET Replica
  BY <1>2, <1>4 DEF Vote, Object
<1>6. /\ o \in Object /\ o.qcRef = rep[r].obj[p].qcRef
      /\ o.decision = rep[r].obj[p].decision /\ o.preCommit = rep[r].obj[p].preCommit
  <2>. HIDE DEF voted
  <2>. QED  BY <1>4, <1>5 DEF Object
<1>7. m \in [Ptr -> Object] /\ \A q \in Ptr : m[q] = IF q = p THEN o ELSE rep[r].obj[q]
  <2>. HIDE DEF o
  <2>. QED  BY <1>3, <1>4, <1>6
<1>8. s = [rep[r] EXCEPT !.obj[p].votes = voted]
  OBVIOUS
<1>9. /\ IF MakesQuorum(voted)
         THEN Become(r, w) /\ decides' = IF rep'[r].crashed THEN decides ELSE decides \cup {qc}
         ELSE Become(r, s) /\ UNCHANGED decides
      /\ UNCHANGED <<view, active, node, building, votes, synced>>
  BY <1>8 DEF OnVote
<1>10. /\ s \in Rep /\ s.tree = rep[r].tree /\ s.highQc = rep[r].highQc
       /\ s.ledger = rep[r].ledger /\ s.obj = m /\ s.lastSequence = rep[r].lastSequence
       /\ s.lock = rep[r].lock /\ s.exec = rep[r].exec /\ s.crashed = rep[r].crashed
  <2>. HIDE DEF m
  <2>. QED  BY <1>4, <1>7 DEF Rep
<1>11. qc \in Qc
  <2>1. node[h].view \in View /\ node[h].sequence \in Nat
    BY <1>2, ChainFacts, NodeType
  <2>. HIDE DEF h, voted
  <2>. QED  BY <1>2, <1>5, <2>1 DEF Qc
<1>12. /\ high \in Rep /\ high.tree = s.tree /\ high.obj = s.obj /\ high.ledger = s.ledger
       /\ high.lastSequence = s.lastSequence
       /\ high.lock = s.lock /\ high.exec = s.exec /\ high.crashed = s.crashed
  <2>. HIDE DEF s, qc
  <2>. QED  BY <1>10, <1>11 DEF Rep
<1>13. qc.node = h /\ qc.sequence = node[h].sequence
  OBVIOUS
<1>14. \A q \in Ptr : /\ m[q].qcRef = rep[r].obj[q].qcRef
                      /\ m[q].decision = rep[r].obj[q].decision
                      /\ m[q].preCommit = rep[r].obj[q].preCommit
  BY <1>6, <1>7
<1>. HIDE DEF s, m, o, qc, voted, high, h, p, w
<1>15. RepGood(s, Certificates, synced[r], {}) /\ RepGood(high, Certificates, synced[r], {})
  BY <1>4, <1>10, <1>12, <1>14, ChainFacts, VotesAside
<1>16. TreeMade(s) /\ TreeMade(high)
  BY <1>10, <1>12, ChainFacts DEF TreeMade
<1>17. CASE ~ MakesQuorum(voted)
  <2>1. /\ rep' = [rep EXCEPT ![r] = s] /\ proofs' = proofs \cup Recorded(s)
        /\ UNCHANGED <<node, building, votes, decides, synced>>
    BY <1>9, <1>17 DEF Become
  <2>2. Certificates' = Certificates
    BY <1>10, <2>1, ChainFacts DEF Certificates, Recorded
  <2>3. synced' = [synced EXCEPT ![r] = synced[r]] /\ rep'[r] = s
    BY <2>1 DEF ChainInv, IInv, TypeOK
  <2>4. ChainInv'
    <3>. PICK k, Z : k = s /\ Z = synced[r]
      OBVIOUS
    <3>1. /\ k \in Rep /\ rep' = [rep EXCEPT ![r] = k] /\ TreeMade(k)
          /\ synced' = [synced EXCEPT ![r] = Z]
          /\ RepGood(k, Certificates, Z, {})
      BY <1>10, <1>15, <1>16, <2>1, <2>3
    <3>2. k.ledger.proof = NoQc => rep[r].ledger.proof = NoQc
      BY <1>10
    <3>3. building'[r] # 0 => building'[r] >= 2 /\ (k.ledger.proof = NoQc => building'[r] = 2)
      BY <2>1, <3>2, BuildingOn
    <3>. QED  BY <1>1, <2>1, <2>2, <3>1, <3>3, SameCertsStep
  <2>5. NotBack(rep[r], s)
    BY <1>10, NotBackRefl DEF NotBack
  <2>. QED  BY <2>3, <2>4, <2>5
<1>18. CASE MakesQuorum(voted)
  <2>1. /\ rep' = [rep EXCEPT ![r] = w] /\ proofs' = proofs \cup Recorded(w)
        /\ decides' = IF rep'[r].crashed THEN decides ELSE decides \cup {qc}
        /\ UNCHANGED <<node, building, votes, synced>>
    BY <1>9, <1>18 DEF Become
  <2>2. rep'[r] = w
    BY <2>1 DEF ChainInv, IInv, TypeOK
  <2>3. Receives(high, p, qc, Certificates, synced[r], {})
    <3>1. Held(high) = Held(rep[r])
      BY <1>10, <1>12 DEF Held
    <3>. QED  BY <1>2, <1>3, <1>4, <1>10, <1>11, <1>12, <1>13, <1>15, <1>16, <3>1, ChainFacts
              DEF Receives
  <2>4. ~ w.crashed => qc \in Certificates'
    BY <2>1, <2>2 DEF Certificates
  <2>. PICK k, x, y, c : k = w /\ x = high /\ y = p /\ c = qc
    OBVIOUS
  <2>5. /\ k = Update(x, y, c) /\ Receives(x, y, c, Certificates, synced[r], {})
        /\ x.ledger = rep[r].ledger
        /\ rep' = [rep EXCEPT ![r] = k] /\ proofs' = proofs \cup Recorded(k)
        /\ decides \subseteq decides' /\ decides' \subseteq decides \cup {c}
        /\ ~ k.crashed => c \in Certificates'
    BY <1>10, <1>12, <2>1, <2>3, <2>4 DEF w
  <2>6. ChainInv' /\ NotBack(high, w)
    BY <1>1, <2>1, <2>5, UpdateStep
  <2>7. NotBack(rep[r], w)
    BY <1>10, <1>12, <2>6 DEF NotBack
  <2>. QED  BY <2>2, <2>6, <2>7
<1>. QED  BY <1>17, <1>18

\* The place of the next object for h.
NextPtr(s, h) == <<h, s.tree[h] + 1>>

\* The object o for the node h takes its place in the tree of s.
Appends(s, C, Y, h, o) ==
  /\ TypeOK /\ NodesLinked
  /\ s \in Rep /\ TreeMade(s) /\ RepGood(s, C, Y, {})
  /\ h \in DOMAIN node \ {Genesis} /\ s.tree[h] + 1 \in Generation
  /\ o \in Object /\ ~ o.preCommit /\ (o.decision => h \in Y)
  /\ o.qcRef # Null => /\ o.qcRef \in Held(s)
                       /\ o.qcRef[1] = node[h].parent
                       /\ node[h].sequence = Sequence(o.qcRef) + 1
  /\ Y = {} /\ node[h].sequence > 2 => s.tree[node[h].parent] > 0

\* All of a good replica then holds but what the object says of h.
Appended(s, u, C, Y, h, o) ==
  /\ u \in Rep /\ TreeMade(u)
  /\ \A x \in Hash \ {h} : u.tree[x] = s.tree[x]
  /\ u.obj[NextPtr(s, h)] = o
  /\ \A q \in Held(s) : u.obj[q] = s.obj[q]
  /\ u.lastSequence = s.lastSequence
  /\ u.lock = s.lock /\ u.exec = s.exec
  /\ u.ledger = s.ledger /\ u.crashed = s.crashed
  /\ NextPtr(s, h) \notin Held(s) /\ NextPtr(s, h) \in Ptr
  /\ Held(u) = Held(s) \cup {NextPtr(s, h)}
  /\ GetNode(u, h) = NextPtr(s, h)
  /\ RepGood(u, C, Y, {NextPtr(s, h)})

AppendsWell ==
  \A s, C, Y, h, o : Appends(s, C, Y, h, o) => Appended(s, AppendNode(s, h, o), C, Y, h, o)

LEMMA AppendGood == AppendsWell
<1>. SUFFICES ASSUME NEW s, NEW C, NEW Y, NEW h, NEW o, Appends(s, C, Y, h, o)
              PROVE  Appended(s, AppendNode(s, h, o), C, Y, h, o)
  BY DEF AppendsWell
<1>. DEFINE u == AppendNode(s, h, o)
            g == s.tree[h] + 1
            p == <<h, g>>
<1>1. /\ TypeOK /\ NodesLinked /\ s \in Rep /\ TreeMade(s) /\ RepGood(s, C, Y, {})
      /\ h \in DOMAIN node /\ h # Genesis /\ h \in Hash
      /\ g \in Generation /\ o \in Object /\ ~ o.preCommit /\ (o.decision => h \in Y)
  BY NodeType DEF Appends
<1>2. /\ u \in Rep
      /\ u.lastSequence = s.lastSequence
      /\ u.tree = [s.tree EXCEPT ![h] = @ + 1]
      /\ u.obj = [s.obj EXCEPT ![p] = o]
      /\ u.lock = s.lock /\ u.exec = s.exec
      /\ u.ledger = s.ledger /\ u.crashed = s.crashed
  BY <1>1, AppendNodeType
<1>. HIDE DEF u
<1>3. \A x \in Hash : s.tree[x] \in {0} \cup Generation
  BY <1>1 DEF Rep
<1>4. s.tree[h] \in Nat /\ g > s.tree[h] /\ g > 0 /\ g \in Nat
  <2>. DEFINE k == s.tree[h]
  <2>1. k \in {0} \cup Generation
    BY <1>1, <1>3
  <2>. HIDE DEF k
  <2>2. k \in Nat
    BY <2>1, HashType
  <2>. QED  BY <2>2 DEF k
<1>5. /\ \A x \in Hash : u.tree[x] = IF x = h THEN g ELSE s.tree[x]
      /\ \A q \in Ptr : u.obj[q] = IF q = p THEN o ELSE s.obj[q]
  BY <1>1, <1>2 DEF Rep
<1>6. p \in Ptr /\ p \notin Held(s) /\ p[1] = h
  BY <1>1, <1>4 DEF Ptr, Held
<1>7. Held(u) = Held(s) \cup {p}
  <2>1. \A q \in Ptr : q \in Held(u) <=> q \in Held(s) \/ q = p
    <3>. TAKE q \in Ptr
    <3>0. q[1] \in Hash /\ q[2] \in Generation /\ q = <<q[1], q[2]>>
      BY DEF Ptr
    <3>1. q[1] \in Hash /\ q[2] \in Nat /\ q = <<q[1], q[2]>>
      BY <3>0, HashType
    <3>2. CASE q[1] # h
      BY <1>5, <3>1, <3>2 DEF Held
    <3>3. CASE q[1] = h
      BY <1>4, <1>5, <3>1, <3>3 DEF Held
    <3>. QED  BY <3>2, <3>3
  <2>. QED  BY <1>6, <2>1 DEF Held
<1>8. \A q \in Held(s) : q \in Ptr /\ u.obj[q] = s.obj[q] /\ q \in Held(u)
  BY <1>5, <1>6, <1>7, HeldFacts, <1>1
<1>9. Handed(u) = Handed(s)
  BY <1>1, <1>5, <1>6, <1>7, <1>8 DEF Handed
<1>10. TreeMade(u)
  BY <1>1, <1>5 DEF TreeMade
<1>11. GetNode(u, h) = p
  BY <1>1, <1>4, <1>5 DEF GetNode, InTree
<1>12. GenesisHeld(u)
  BY <1>1, <1>5, <1>9, HashType DEF RepGood, GenesisHeld
<1>13. ObjectsLinked(u)
  <2>1. ASSUME NEW q \in Held(s)
        PROVE  /\ q[1] \in DOMAIN node
               /\ u.obj[q].qcRef # Null =>
                    /\ u.obj[q].qcRef \in Held(u)
                    /\ q[1] # Genesis
                    /\ u.obj[q].qcRef[1] = ParentHash(q)
                    /\ Sequence(q) = Sequence(u.obj[q].qcRef) + 1
    BY <1>1, <1>7, <1>8 DEF RepGood, ObjectsLinked
  <2>2. /\ p[1] \in DOMAIN node
        /\ u.obj[p].qcRef # Null =>
             /\ u.obj[p].qcRef \in Held(u)
             /\ p[1] # Genesis
             /\ u.obj[p].qcRef[1] = ParentHash(p)
             /\ Sequence(p) = Sequence(u.obj[p].qcRef) + 1
    BY <1>1, <1>5, <1>6, <1>7 DEF Appends, ParentHash, Sequence
  <2>. HIDE DEF p
  <2>. QED  BY <1>7, <2>1, <2>2 DEF ObjectsLinked
<1>14. LocksHeld(u)
  BY <1>1, <1>2, <1>7 DEF RepGood, LocksHeld
<1>15. SequencesSeen(u, {p})
  BY <1>1, <1>2, <1>7 DEF RepGood, SequencesSeen
<1>16. ParentsHanded(u, Y, {p})
  BY <1>1, <1>2, <1>7, <1>8, <1>9 DEF RepGood, ParentsHanded
<1>17. DecidedHanded(u, Y)
  BY <1>1, <1>5, <1>6, <1>7, <1>8, <1>9 DEF RepGood, DecidedHanded
<1>18. LedgerHanded(u, C, Y)
  <2>1. Y = {} /\ s.ledger.proof.node \in Handed(s) /\ s.tree[s.ledger.proof.node] > 0
          => u.tree[s.ledger.proof.node] > 0
    <3>1. \A x \in Handed(s) : x \in Hash
      BY <1>1, HeldFacts DEF Handed
    <3>. QED  BY <1>4, <1>5, <3>1
  <2>. QED  BY <1>1, <1>2, <1>9, <2>1 DEF RepGood, LedgerHanded
<1>19. ExecCertified(u, C, Y)
  BY <1>1, <1>2 DEF RepGood, ExecCertified
<1>20. TreeClosed(u, Y)
  <2>. SUFFICES ASSUME Y = {}
                PROVE  /\ ~ u.crashed
                       /\ \A x \in Hash : u.tree[x] > 0 /\ node[x].sequence > 2
                                            => u.tree[node[x].parent] > 0
    BY DEF TreeClosed
  <2>1. ~ u.crashed
    BY <1>1, <1>2 DEF RepGood, TreeClosed
  <2>2. ASSUME NEW x \in Hash, u.tree[x] > 0, node[x].sequence > 2
        PROVE  u.tree[node[x].parent] > 0
    <3>1. s.tree[node[x].parent] > 0
      BY <1>1, <1>5, <2>2 DEF RepGood, TreeClosed, Appends
    <3>2. x \in DOMAIN node
      BY <1>10, <2>2 DEF TreeMade
    <3>3. x # Genesis
      BY <1>1, <2>2, NodeFacts
    <3>4. node[x].parent \in Hash
      BY <1>1, <3>2, <3>3, NodeFacts DEF NodesLinked
    <3>. QED  BY <1>4, <1>5, <3>1, <3>4
  <2>. QED  BY <2>1, <2>2
<1>21. u.obj[p] = o /\ \A x \in Hash \ {h} : u.tree[x] = s.tree[x]
  BY <1>5, <1>6
<1>. HIDE DEF p
<1>22. HandedCertified(u, C)
  BY <1>1, <1>9 DEF RepGood, HandedCertified
<1>23. RepGood(u, C, Y, {p})
  BY <1>12, <1>13, <1>14, <1>15, <1>16, <1>17, <1>18, <1>19, <1>20, <1>22 DEF RepGood
<1>. QED  BY <1>2, <1>6, <1>7, <1>8, <1>10, <1>11, <1>21, <1>23 DEF Appended, NextPtr, u, p

LEMMA AppendGoodNext == AppendsWell'
BY AppendGood, PTL

\* A higher last sequence, or another sequence last proposed, leave a replica good.
LEMMA LaterGood ==
  ASSUME NEW w, NEW C, NEW Y, NEW X, RepGood(w, C, Y, X),
         NEW u, u.tree = w.tree, u.obj = w.obj, u.lock = w.lock, u.exec = w.exec,
         u.ledger.seq = w.ledger.seq, u.ledger.proof = w.ledger.proof, u.crashed = w.crashed,
         \A q \in Held(w) : Sequence(q) \in Nat,
         w.lastSequence \in Nat, u.lastSequence \in Nat, u.lastSequence >= w.lastSequence
  PROVE  RepGood(u, C, Y, X)
<1>1. Held(u) = Held(w)
  BY DEF Held
<1>2. Handed(u) = Handed(w)
  BY <1>1 DEF Handed
<1>3. GenesisHeld(u) /\ HandedCertified(u, C) /\ ObjectsLinked(u) /\ DecidedHanded(u, Y)
  BY <1>1, <1>2 DEF RepGood, GenesisHeld, HandedCertified, ObjectsLinked, DecidedHanded
<1>4. LocksHeld(u)
  <2>1. Sequence(w.lock) \in Nat /\ Sequence(w.lock) <= w.lastSequence
    BY DEF RepGood, LocksHeld
  <2>2. Sequence(u.lock) <= u.lastSequence
    BY <2>1
  <2>. QED  BY <1>1, <2>2 DEF RepGood, LocksHeld
<1>5. SequencesSeen(u, X)
  <2>. SUFFICES ASSUME ~ u.crashed, NEW q \in Held(w) \ X
                PROVE  Sequence(q) <= u.lastSequence + 1
    BY <1>1 DEF SequencesSeen
  <2>1. Sequence(q) <= w.lastSequence + 1
    BY DEF RepGood, SequencesSeen
  <2>2. Sequence(q) \in Nat
    OBVIOUS
  <2>. QED  BY <2>1, <2>2
<1>6. ParentsHanded(u, Y, X)
  BY <1>1, <1>2 DEF RepGood, ParentsHanded
<1>7. LedgerHanded(u, C, Y) /\ ExecCertified(u, C, Y) /\ TreeClosed(u, Y)
  BY <1>2 DEF RepGood, LedgerHanded, ExecCertified, TreeClosed
<1>. QED  BY <1>3, <1>4, <1>5, <1>6, <1>7 DEF RepGood

\* The object p need no longer be exempt once its sequence is seen and its parent
\* was handed over.
DropsExempt ==
  \A w, C, Y, p :
    /\ RepGood(w, C, Y, {p})
    /\ ~ w.crashed => Sequence(p) <= w.lastSequence + 1
    /\ Sequence(p) > 2 => ParentHash(p) \in Handed(w) \cup Y
    => RepGood(w, C, Y, {})

LEMMA ObjectGood == DropsExempt
BY DEF DropsExempt, RepGood, SequencesSeen, ParentsHanded

LEMMA ObjectGoodNext == DropsExempt'
BY ObjectGood, PTL

LEMMA OnProposeChain ==
  ASSUME ChainInv, NEW r \in Replica, NEW h \in DOMAIN node \ {Genesis}, OnPropose(r, h)
  PROVE  ChainInv' /\ NotBack(rep[r], rep'[r])
<1>. DEFINE C      == Certificates
            Y      == synced[r]
            qc     == node[h].qc
            qcNode == GetNode(rep[r], qc.node)
            o      == [NewObject EXCEPT !.qcRef = qcNode]
            s      == AppendNode(rep[r], h, o)
            p      == GetNode(s, h)
            w      == Update(s, qcNode, qc)
            voted  == [w EXCEPT !.lastSequence = node[h].sequence]
<1>1. IInv'
  BY OnProposeKeeps DEF ChainInv
<1>2. /\ TypeOK /\ NodesLinked /\ CertsLinked(C) /\ rep[r] \in Rep /\ TreeMade(rep[r])
      /\ RepGood(rep[r], C, Y, {}) /\ ~ rep[r].crashed
      /\ h \in Hash /\ node[h].sequence \in Nat /\ node[h].sequence >= 2 /\ qc \in Qc
      /\ node[h].parent \in DOMAIN node /\ node[h].parent < h
      /\ qc # NoQc => qc \in C /\ qc.node = node[h].parent
  BY ChainFacts, NodeType DEF NodesLinked, OnPropose, Accepts, Alive
<1>3. qcNode = Null => node[h].sequence = 2
  BY DEF OnPropose, KnowsQcNode
<1>4. InTree(rep[r], node[h].parent) => node[node[h].parent].sequence = node[h].sequence - 1
  BY DEF OnPropose, CanAppend
<1>5. qcNode \in Ref
  BY <1>2, GetNodeType
<1>6. ASSUME qcNode # Null
      PROVE  /\ qcNode \in Held(rep[r]) /\ qcNode[1] = node[h].parent
             /\ qc \in C /\ qc.node = node[h].parent
             /\ node[h].sequence = Sequence(qcNode) + 1
             /\ Sequence(qcNode) \in Nat
             /\ InTree(rep[r], node[h].parent)
  <2>1. qc.node \in Hash /\ rep[r].tree[qc.node] > 0 /\ qcNode \in Held(rep[r]) /\ qcNode[1] = qc.node
    BY <1>2, <1>6, GetNodeType, TopHeld
  <2>2. qc # NoQc
    BY <2>1, HashType DEF NoQc
  <2>3. InTree(rep[r], node[h].parent)
    BY <1>2, <2>1, <2>2 DEF InTree
  <2>4. node[node[h].parent].sequence \in Nat
    BY <1>2, NodeFacts
  <2>. QED  BY <1>2, <1>4, <2>1, <2>2, <2>3, <2>4 DEF Sequence
<1>7. o \in Object /\ o.qcRef = qcNode /\ ~ o.preCommit /\ ~ o.decision
  BY <1>5 DEF NewObject, Object
<1>8. rep[r].tree[h] + 1 \in Generation
  BY <1>2, MayAppendType DEF OnPropose
<1>. HIDE DEF o, qcNode
<1>9. Appended(rep[r], s, C, Y, h, o)
  <2>1. Appends(rep[r], C, Y, h, o)
    BY <1>2, <1>3, <1>6, <1>7, <1>8 DEF Appends, InTree
  <2>. HIDE DEF C, Y
  <2>. QED  BY <2>1, AppendGood DEF AppendsWell
<1>. HIDE DEF s
<1>10. /\ s \in Rep /\ s.lastSequence = rep[r].lastSequence
      /\ s.lock = rep[r].lock /\ s.exec = rep[r].exec
      /\ s.ledger = rep[r].ledger /\ s.crashed = rep[r].crashed
  BY <1>9 DEF Appended
<1>11. /\ p \in Ptr /\ p \notin Held(rep[r]) /\ p[1] = h /\ p \in Held(s)
       /\ Held(s) = Held(rep[r]) \cup {p}
       /\ p = NextPtr(rep[r], h)
       /\ RepGood(s, C, Y, {p}) /\ TreeMade(s)
       /\ s.obj[p].qcRef = qcNode
  BY <1>7, <1>9 DEF Appended, NextPtr
<1>. HIDE DEF p
<1>12. /\ RepGood(w, C, Y, {p}) /\ w \in Rep /\ w.tree = s.tree /\ TreeMade(w)
       /\ NotBack(rep[r], w) /\ w.lastSequence = rep[r].lastSequence
       /\ w.obj[p].qcRef = qcNode
       /\ node[h].sequence > 2 => node[h].parent \in Handed(w) \cup Y
       /\ w.ledger.proof = NoQc => rep[r].ledger.proof = NoQc
       /\ w.ledger.proof \in C \cup {NoQc}
       /\ qcNode = Null => w.lock = rep[r].lock
  <2>1. NotBack(rep[r], s)
    BY <1>10, NotBackRefl DEF NotBack
  <2>2. s.ledger.proof \in C \cup {NoQc}
    BY <1>10, ChainFacts
  <2>3. CASE qcNode = Null
    <3>1. w = s
      BY <2>3 DEF Update, Undecided
    <3>. HIDE DEF w, C, Y, qc
    <3>2. w.ledger.proof = rep[r].ledger.proof /\ w.lastSequence = rep[r].lastSequence
      BY <1>10, <3>1
    <3>3. ~ (node[h].sequence > 2)
      BY <1>3, <2>3
    <3>4. RepGood(w, C, Y, {p}) /\ w \in Rep /\ w.tree = s.tree /\ TreeMade(w) /\ NotBack(rep[r], w)
      BY <1>10, <1>11, <2>1, <3>1
    <3>5. w.obj[p].qcRef = qcNode /\ w.lock = rep[r].lock
      BY <1>10, <1>11, <3>1
    <3>6. w.ledger.proof \in C \cup {NoQc}
      BY <2>2, <3>1
    <3>. QED  BY <3>2, <3>3, <3>4, <3>5, <3>6
  <2>4. CASE qcNode # Null
    <3>1. Receives(s, qcNode, qc, C, Y, {p})
      <4>1. qcNode \in Held(s) \ {p} /\ qcNode[1] = qc.node
        BY <1>6, <1>11, <2>4
      <4>2. /\ qc.node \in DOMAIN node \ {Genesis} /\ qc.sequence = node[qc.node].sequence
            /\ Linked(qc.node, C)
        BY <1>2, <1>6, <2>4 DEF CertsLinked
      <4>3. ~ (p[1] <= qcNode[1])
        BY <1>2, <1>6, <1>11, <2>4, NodeFacts
      <4>. HIDE DEF C, Y, qc
      <4>. QED  BY <1>2, <1>10, <1>11, <4>1, <4>2, <4>3 DEF Receives
    <3>2. Outcome(s, w, qcNode, qc, Y)
      <4>. HIDE DEF w, C, Y, qc
      <4>. QED  BY <3>1, UpdateOutcome DEF w
    <3>3. /\ qc \in C /\ qc.node = node[h].parent /\ qcNode[1] = node[h].parent
          /\ qcNode \in Held(s) /\ qc # NoQc
      <4>1. qc # NoQc
        BY <1>2, <1>6, <2>4, NodeType, HashType DEF NoQc
      <4>. QED  BY <1>6, <1>11, <2>4, <4>1
    <3>. HIDE DEF w, C, Y, qc
    <3>4. w.ledger.proof = NoQc \/ w.ledger.proof \in C
      BY <2>2, <3>2, <3>3 DEF Outcome
    <3>5. RepGood(w, C, Y, {p})
      BY <3>1, <3>2, <3>3, <3>4, UpdateGood
    <3>6. /\ w \in Rep /\ w.tree = s.tree /\ w.lastSequence = rep[r].lastSequence
          /\ w.obj[p].qcRef = qcNode
          /\ node[h].parent \in Handed(w) \cup Y
          /\ w.ledger.proof = NoQc => rep[r].ledger.proof = NoQc
      BY <1>10, <1>11, <3>2, <3>3 DEF Outcome, Updated
    <3>7. w.lock[1] \in DOMAIN node /\ w.exec[1] \in DOMAIN node
      BY <1>11, <3>2 DEF Outcome, RepGood, ObjectsLinked
    <3>8. NotBack(rep[r], w)
      <4>1. rep[r].lastSequence \in Nat
        BY <1>2 DEF Rep
      <4>. QED  BY <1>10, <3>2, <3>6, <3>7, <4>1 DEF Outcome, NotBack
    <3>. QED  BY <1>11, <2>4, <3>4, <3>5, <3>6, <3>8 DEF TreeMade
  <2>. QED  BY <2>3, <2>4
<1>13. /\ \/ /\ Become(r, voted) /\ votes' = votes \cup {[from |-> r, node |-> h]}
             /\ Opinion(w, p) /\ ~ w.crashed
          \/ /\ Become(r, w) /\ votes' = votes
             /\ ~ (Opinion(w, p) /\ ~ w.crashed)
       /\ UNCHANGED <<node, building, decides, synced>>
  BY Zenon DEF OnPropose, p, s, o, qcNode
<1>14. /\ voted \in Rep /\ voted.lastSequence = node[h].sequence
       /\ voted.tree = w.tree /\ voted.obj = w.obj /\ voted.lock = w.lock
       /\ voted.exec = w.exec /\ voted.ledger = w.ledger /\ voted.crashed = w.crashed
  <2>. HIDE DEF w
  <2>. QED  BY <1>2, <1>12 DEF Rep
<1>. HIDE DEF w, voted, qc, C, Y
<1>15. /\ \A q \in Held(w) : Sequence(q) \in Nat /\ Sequence(q) >= 1
       /\ w.lastSequence \in Nat /\ w.lastSequence >= 1
       /\ Sequence(w.lock) \in Nat /\ Sequence(w.lock) <= w.lastSequence
       /\ Sequence(p) = node[h].sequence /\ ParentHash(p) = node[h].parent
  <2>1. \A q \in Held(w) : Sequence(q) \in Nat /\ Sequence(q) >= 1
    BY <1>2, <1>12, NodeFacts DEF RepGood, ObjectsLinked, Sequence
  <2>2. w.lock \in Held(w) /\ Sequence(w.lock) <= w.lastSequence
    BY <1>12 DEF RepGood, LocksHeld
  <2>3. w.lastSequence \in Nat
    BY <1>12 DEF Rep
  <2>. QED  BY <1>11, <2>1, <2>2, <2>3 DEF Sequence, ParentHash
<1>16. CASE /\ Become(r, voted) /\ votes' = votes \cup {[from |-> r, node |-> h]}
            /\ Opinion(w, p) /\ ~ w.crashed
  <2>1. rep' = [rep EXCEPT ![r] = voted] /\ proofs' = proofs \cup Recorded(voted)
    BY <1>16 DEF Become
  <2>2. rep'[r] = voted
    BY <1>2, <2>1 DEF TypeOK
  <2>3. Certificates' = Certificates
    BY <1>12, <1>13, <1>14, <2>1 DEF Certificates, Recorded, C
  <2>4. node[h].sequence >= w.lastSequence
    BY <1>15, <1>16 DEF Opinion
  <2>5. RepGood(voted, C, Y, {})
    <3>1. Sequence(p) <= voted.lastSequence + 1
      BY <1>2, <1>14, <1>15
    <3>2. Handed(voted) = Handed(w)
      BY <1>14 DEF Handed, Held
    <3>3. RepGood(voted, C, Y, {p})
      BY <1>2, <1>12, <1>14, <1>15, <2>4, LaterGood
    <3>. QED  BY <1>12, <1>15, <3>1, <3>2, <3>3, ObjectGood DEF DropsExempt
  <2>6. Linked(h, Certificates)
    <3>1. CASE node[h].sequence > 2
      <4>1. qcNode # Null
        BY <1>3, <3>1
      <4>. QED  BY <1>2, <1>4, <1>6, <4>1, NodeFacts DEF Linked, C, qc
    <3>2. CASE ~ (node[h].sequence > 2)
      <4>1. node[h].sequence = 2
        BY <1>2, <3>2
      <4>2. InTree(rep[r], node[h].parent)
        <5>. SUFFICES ASSUME ~ InTree(rep[r], node[h].parent) PROVE FALSE
          OBVIOUS
        <5>1. qcNode = Null
          BY <1>6
        <5>2. Last(Trail(w, p, Sequence(w.lock))) = w.lock
          BY <1>12, <1>16, <5>1 DEF Opinion
        <5>. DEFINE S == {p, Null}
        <5>3. GetNode(w, ParentHash(p)) = Null
          <6>1. ~ InTree(w, node[h].parent)
            <7>1. node[h].parent # h
              BY <1>2, NodeFacts
            <7>2. s.tree[node[h].parent] = rep[r].tree[node[h].parent]
              BY <1>2, <1>9, <7>1, NodeFacts DEF Appended
            <7>. QED  BY <1>12, <7>2 DEF InTree
          <6>. QED  BY <1>15, <6>1 DEF GetNode
        <5>4. S \in SUBSET Ref /\ p \in S
          BY <1>11 DEF Ref
        <5>5. WalksWithin(w, S, Sequence(w.lock))
          BY <5>3 DEF WalksWithin, Above
        <5>. HIDE DEF S
        <5>6. Stays(Trail(w, p, Sequence(w.lock)), S, Sequence(w.lock))
          BY <1>2, <1>12, <5>4, <5>5, NodeFacts, TrailStays
        <5>7. w.lock = p \/ w.lock = Null
          BY <5>2, <5>6 DEF Stays, S
        <5>8. rep[r].lock \in Held(rep[r])
          BY <1>2 DEF RepGood, LocksHeld
        <5>. QED  BY <1>2, <1>11, <1>12, <5>1, <5>7, <5>8, HeldFacts
      <4>3. node[node[h].parent].sequence \in Nat
        BY <1>2, NodeFacts
      <4>. QED  BY <1>4, <4>1, <4>2, <4>3 DEF Linked
    <3>. QED  BY <3>1, <3>2
  <2>7. synced' = [synced EXCEPT ![r] = Y]
    BY <1>2, <1>13 DEF TypeOK, Y
  <2>8. ChainInv'
    <3>. PICK k, Z : k = voted /\ Z = Y
      OBVIOUS
    <3>1. /\ k \in Rep /\ rep' = [rep EXCEPT ![r] = k] /\ TreeMade(k)
          /\ synced' = [synced EXCEPT ![r] = Z]
          /\ RepGood(k, Certificates, Z, {})
      BY <1>12, <1>14, <2>1, <2>5, <2>7 DEF C, TreeMade
    <3>2. k.ledger.proof = NoQc => rep[r].ledger.proof = NoQc
      BY <1>12, <1>14
    <3>3. /\ building'[r] # 0 => building'[r] >= 2 /\ (k.ledger.proof = NoQc => building'[r] = 2)
          /\ \A q \in Replica \ {r} : building'[q] = building[q]
      BY <1>13, <3>2, BuildingOn
    <3>4. \A vote \in votes' : \/ vote \in votes
                               \/ vote.node \in DOMAIN node \ {Genesis} /\ Linked(vote.node, Certificates)
      BY <1>16, <2>6
    <3>. QED  BY <1>1, <1>13, <2>3, <3>1, <3>3, <3>4, SameCertsStep
  <2>9. NotBack(rep[r], voted)
    BY <1>2, <1>12, <1>14, <1>15, <2>4 DEF NotBack
  <2>. QED  BY <2>2, <2>8, <2>9
<1>17. CASE /\ Become(r, w) /\ votes' = votes
            /\ ~ (Opinion(w, p) /\ ~ w.crashed)
  <2>1. rep' = [rep EXCEPT ![r] = w] /\ proofs' = proofs \cup Recorded(w)
    BY <1>17 DEF Become
  <2>2. rep'[r] = w
    BY <1>2, <2>1 DEF TypeOK
  <2>3. Certificates' = Certificates
    BY <1>12, <1>13, <2>1 DEF Certificates, Recorded, C
  <2>4. ~ w.crashed => Sequence(p) <= w.lastSequence + 1
    <3>. SUFFICES ASSUME ~ w.crashed, node[h].sequence >= w.lastSequence
                  PROVE  Sequence(p) <= w.lastSequence + 1
      BY <1>2, <1>15
    <3>1. CASE qcNode = Null
      BY <1>3, <1>15, <3>1
    <3>2. CASE qcNode # Null
      <4>1. ~ (Sequence(qcNode) > Sequence(w.lock))
        BY <1>12, <1>15, <1>17, <3>2 DEF Opinion
      <4>. QED  BY <1>6, <1>15, <3>2, <4>1
    <3>. QED  BY <3>1, <3>2
  <2>5. RepGood(w, C, Y, {})
    <3>1. Sequence(p) > 2 => ParentHash(p) \in Handed(w) \cup Y
      BY <1>12, <1>15
    <3>. QED  BY <1>12, <2>4, <3>1, ObjectGood DEF DropsExempt
  <2>7. synced' = [synced EXCEPT ![r] = Y]
    BY <1>2, <1>13 DEF TypeOK, Y
  <2>8. ChainInv'
    <3>. PICK k, Z : k = w /\ Z = Y
      OBVIOUS
    <3>1. /\ k \in Rep /\ rep' = [rep EXCEPT ![r] = k] /\ TreeMade(k)
          /\ synced' = [synced EXCEPT ![r] = Z]
          /\ RepGood(k, Certificates, Z, {})
      BY <1>12, <2>1, <2>5, <2>7 DEF C
    <3>2. k.ledger.proof = NoQc => rep[r].ledger.proof = NoQc
      BY <1>12
    <3>3. /\ building'[r] # 0 => building'[r] >= 2 /\ (k.ledger.proof = NoQc => building'[r] = 2)
          /\ \A q \in Replica \ {r} : building'[q] = building[q]
      BY <1>13, <3>2, BuildingOn
    <3>. QED  BY <1>1, <1>13, <1>17, <2>3, <3>1, <3>3, SameCertsStep
  <2>. QED  BY <1>12, <2>2, <2>8
<1>. QED  BY <1>13, <1>16, <1>17

LEMMA SyncChain ==
  ASSUME ChainInv, NEW r \in Replica, NEW qc \in proofs, Sync(r, qc)
  PROVE  ChainInv' /\ NotBack(rep[r], rep'[r])
<1>. DEFINE C == Certificates
            h == qc.node
            Z == synced[r] \cup {h}
            l == [rep[r].ledger EXCEPT !.seq = qc.sequence, !.proof = qc]
            s == [rep[r] EXCEPT !.ledger = l]
            o == [NewObject EXCEPT !.decision = TRUE]
            t == AppendNode(s, h, o)
            p == GetNode(t, h)
            u == UpdateProof(s, qc)
<1>1. IInv'
  BY SyncKeeps DEF ChainInv
<1>2. /\ TypeOK /\ NodesLinked /\ CertsLinked(C) /\ rep[r] \in Rep /\ TreeMade(rep[r])
      /\ RepGood(rep[r], C, synced[r], {}) /\ qc \in C /\ qc \in Qc
      /\ rep[r].ledger \in Ledger /\ rep[r].lastSequence \in Nat
  BY ChainFacts DEF Rep, Certificates
<1>3. /\ h \in DOMAIN node \ {Genesis} /\ h \in Hash
      /\ qc.sequence = node[h].sequence /\ qc.sequence \in Nat /\ qc # NoQc
  BY <1>2, NodeType, HashType DEF CertsLinked, NoQc
<1>4. l.proof = qc /\ l.seq = qc.sequence /\ l \in Ledger
  BY <1>2, <1>3 DEF Ledger
<1>5. /\ s \in Rep /\ s.tree = rep[r].tree /\ s.obj = rep[r].obj /\ s.lock = rep[r].lock
      /\ s.exec = rep[r].exec /\ s.ledger = l /\ s.crashed = rep[r].crashed
      /\ s.lastSequence = rep[r].lastSequence
  <2>. HIDE DEF l
  <2>. QED  BY <1>2, <1>4 DEF Rep
<1>6. s = [rep[r] EXCEPT !.ledger = [@ EXCEPT !.seq = qc.sequence, !.proof = qc]]
  OBVIOUS
<1>7. /\ rep' = [rep EXCEPT ![r] = u] /\ proofs' = proofs \cup Recorded(u)
      /\ synced' = [synced EXCEPT ![r] = Z]
      /\ UNCHANGED <<node, building, votes, decides>>
  <2>. HIDE DEF u
  <2>1. /\ Become(r, u)
        /\ synced' = [synced EXCEPT ![r] = @ \cup {qc.node}]
        /\ UNCHANGED <<node, building, votes, decides>>
    BY <1>6 DEF Sync, u
  <2>. QED  BY <1>2, <2>1 DEF Become, TypeOK
<1>8. o \in Object /\ o.decision /\ ~ o.preCommit /\ o.qcRef = Null
  BY DEF NewObject, Object, Ref
<1>. HIDE DEF l, s, o
<1>9. RepGood(s, C, Z, {}) /\ TreeMade(s)
  <2>1. RepGood(rep[r], C, Z, {})
    BY <1>2, MoreGood
  <2>2. Held(s) = Held(rep[r]) /\ Handed(s) = Handed(rep[r])
    BY <1>5 DEF Held, Handed
  <2>3. GenesisHeld(s) /\ LocksHeld(s) /\ SequencesSeen(s, {}) /\ ObjectsLinked(s)
    BY <1>5, <2>1, <2>2 DEF RepGood, GenesisHeld, LocksHeld, SequencesSeen, ObjectsLinked
  <2>4. ParentsHanded(s, Z, {}) /\ DecidedHanded(s, Z)
    BY <1>5, <2>1, <2>2 DEF RepGood, ParentsHanded, DecidedHanded
  <2>5. LedgerHanded(s, C, Z)
    BY <1>2, <1>4, <1>5 DEF LedgerHanded
  <2>6. ExecCertified(s, C, Z) /\ TreeClosed(s, Z) /\ HandedCertified(s, C)
    BY <1>5, <2>1, <2>2 DEF RepGood, ExecCertified, TreeClosed, HandedCertified
  <2>. HIDE DEF C, Z
  <2>7. RepGood(s, C, Z, {})
    BY <2>3, <2>4, <2>5, <2>6 DEF RepGood
  <2>. QED  BY <1>2, <1>5, <2>7 DEF TreeMade
<1>10. /\ RepGood(u, C, Z, {}) /\ u \in Rep /\ TreeMade(u)
       /\ NotBack(rep[r], u) /\ u.ledger = l
  <2>1. CASE ~ (qc.sequence > s.lastSequence)
    <3>1. u = s
      BY <2>1 DEF UpdateProof
    <3>2. NotBack(rep[r], s)
      BY <1>5, NotBackRefl DEF NotBack
    <3>. HIDE DEF u, C, Z
    <3>. QED  BY <1>5, <1>9, <3>1, <3>2
  <2>2. CASE qc.sequence > s.lastSequence
    <3>1. u = [t EXCEPT !.lastSequence = qc.sequence, !.lock = p, !.exec = p, !.highQc = qc]
      BY <2>2, Zenon DEF UpdateProof, o
    <3>2. Appended(s, t, C, Z, h, o)
      <4>1. rep[r].tree[h] + 1 \in Generation
        BY <1>2, <1>3, <1>5, <2>2, MayAppendType DEF Sync
      <4>2. h \in Z /\ Z # {}
        OBVIOUS
      <4>. HIDE DEF C, Z, h
      <4>3. Appends(s, C, Z, h, o)
        BY <1>2, <1>3, <1>5, <1>8, <1>9, <4>1, <4>2 DEF Appends
      <4>. QED  BY <4>3, AppendGood DEF AppendsWell
    <3>. HIDE DEF t
    <3>3. /\ t \in Rep /\ TreeMade(t) /\ t.ledger = l /\ t.crashed = s.crashed
          /\ t.obj[p] = o /\ p \in Ptr /\ p[1] = h /\ p \in Held(t)
          /\ Held(t) = Held(s) \cup {p}
          /\ RepGood(t, C, Z, {p})
          /\ t.lastSequence = s.lastSequence /\ t.exec = s.exec
      BY <1>5, <3>2 DEF Appended, NextPtr
    <3>4. /\ u \in Rep /\ u.tree = t.tree /\ u.obj = t.obj /\ u.ledger = t.ledger
          /\ u.lock = p /\ u.exec = p /\ u.lastSequence = qc.sequence /\ u.crashed = t.crashed
      <4>. HIDE DEF u, p
      <4>. QED  BY <1>2, <1>3, <3>1, <3>3 DEF Rep
    <3>. HIDE DEF u, p
    <3>5. Sequence(p) = qc.sequence /\ ParentHash(p) = node[h].parent
      BY <1>3, <3>3 DEF Sequence, ParentHash
    <3>6. Held(u) = Held(t)
      BY <3>4 DEF Held
    <3>7. Handed(u) = Handed(t)
      BY <3>4, <3>6 DEF Handed
    <3>8. \A q \in Held(t) : Sequence(q) \in Nat
      BY <1>2, <3>3, NodeFacts DEF RepGood, ObjectsLinked, Sequence
    <3>9. /\ Sequence(s.lock) \in Nat /\ Sequence(s.exec) \in Nat
          /\ Sequence(s.exec) <= qc.sequence /\ Sequence(s.lock) <= qc.sequence
      <4>1. /\ s.lock \in Held(s) /\ s.exec \in Held(s)
            /\ Sequence(s.exec) <= Sequence(s.lock) /\ Sequence(s.lock) <= s.lastSequence
        BY <1>9 DEF RepGood, LocksHeld
      <4>. HIDE DEF C, Z
      <4>. QED  BY <1>2, <1>3, <1>5, <2>2, <3>3, <3>8, <4>1
    <3>10. GenesisHeld(u) /\ HandedCertified(u, C) /\ ObjectsLinked(u) /\ DecidedHanded(u, Z)
      BY <3>3, <3>4, <3>6, <3>7 DEF RepGood, GenesisHeld, HandedCertified, ObjectsLinked, DecidedHanded
    <3>11. LocksHeld(u)
      BY <1>3, <3>3, <3>4, <3>5, <3>6 DEF LocksHeld
    <3>12. SequencesSeen(u, {})
      <4>. SUFFICES ASSUME ~ u.crashed, NEW q \in Held(t)
                    PROVE  Sequence(q) <= u.lastSequence + 1
        BY <3>6 DEF SequencesSeen
      <4>1. q = p \/ Sequence(q) <= s.lastSequence + 1
        BY <3>3, <3>4 DEF RepGood, SequencesSeen
      <4>2. Sequence(q) \in Nat
        BY <3>8
      <4>. QED  BY <1>2, <1>3, <1>5, <2>2, <3>4, <3>5, <4>1, <4>2
    <3>13. ParentsHanded(u, Z, {})
      <4>. SUFFICES ASSUME NEW q \in Held(t), Sequence(q) > 2
                    PROVE  \/ ParentHash(q) \in Handed(t) \cup Z
                           \/ u.obj[q].decision /\ ~ u.obj[q].preCommit /\ Sequence(q) <= Sequence(u.exec)
        BY <3>6, <3>7 DEF ParentsHanded
      <4>1. CASE q = p
        BY <1>3, <1>8, <3>3, <3>4, <3>5, <4>1
      <4>2. CASE q # p
        <5>1. \/ ParentHash(q) \in Handed(t) \cup Z
              \/ t.obj[q].decision /\ ~ t.obj[q].preCommit /\ Sequence(q) <= Sequence(s.exec)
          BY <3>3, <4>2 DEF RepGood, ParentsHanded
        <5>2. Sequence(q) \in Nat
          BY <3>8
        <5>. HIDE DEF Z
        <5>. QED  BY <1>3, <3>4, <3>5, <3>9, <5>1, <5>2
      <4>. QED  BY <4>1, <4>2
    <3>14. LedgerHanded(u, C, Z)
      BY <3>3, <3>4, <3>7 DEF RepGood, LedgerHanded
    <3>15. ExecCertified(u, C, Z)
      BY <3>3, <3>4 DEF ExecCertified
    <3>16. TreeClosed(u, Z)
      BY DEF TreeClosed
    <3>17. NotBack(rep[r], u)
      <4>1. s.lastSequence \in Nat
        BY <1>2, <1>5
      <4>. QED  BY <1>3, <1>5, <2>2, <3>3, <3>4, <3>5, <3>9, <4>1 DEF NotBack
    <3>. HIDE DEF C, Z
    <3>. QED  BY <3>3, <3>4, <3>10, <3>11, <3>12, <3>13, <3>14, <3>15, <3>16, <3>17 DEF RepGood, TreeMade
  <2>. QED  BY <2>1, <2>2
<1>. HIDE DEF u, Z
<1>11. Certificates' = Certificates
  BY <1>4, <1>7, <1>10 DEF Certificates, Recorded
<1>12. rep'[r] = u
  BY <1>2, <1>7 DEF TypeOK
<1>13. u.ledger.proof # NoQc
  BY <1>3, <1>4, <1>10
<1>14. ChainInv'
  <2>. PICK k, W : k = u /\ W = Z
    OBVIOUS
  <2>1. /\ k \in Rep /\ rep' = [rep EXCEPT ![r] = k] /\ TreeMade(k)
        /\ synced' = [synced EXCEPT ![r] = W]
        /\ RepGood(k, Certificates, W, {})
    BY <1>7, <1>10
  <2>2. /\ building'[r] # 0 => building'[r] >= 2 /\ (k.ledger.proof = NoQc => building'[r] = 2)
        /\ \A q \in Replica \ {r} : building'[q] = building[q]
    BY <1>7, <1>13, BuildingOn
  <2>. QED  BY <1>1, <1>7, <1>11, <2>1, <2>2, SameCertsStep
<1>. QED  BY <1>10, <1>12, <1>14

\* Only here is a node made: with the proof that the ledger has now, for the sequence
\* after the one it had when startConsensus read it.
LEMMA ProposeChain ==
  ASSUME ChainInv, NEW r \in Replica, Propose(r)
  PROVE  ChainInv' /\ NotBack(rep[r], rep'[r])
<1>. DEFINE C    == Certificates
            Y    == synced[r]
            seq  == building[r]
            led  == [rep[r].ledger EXCEPT !.lastConsSeq = rep[r].ledger.seq + 1]
            s    == [rep[r] EXCEPT !.ledger = led]
            used == [s EXCEPT !.lastSequence = seq]
            n    == NewNode(r, seq, s.ledger.proof)
            h    == Cardinality(DOMAIN node)
            own  == [NewObject EXCEPT !.qcRef = GetNode(s, n.qc.node), !.votes = {r}]
            w    == AppendNode(used, h, own)
            grown == [g \in 0 .. h |-> IF g = h THEN n ELSE node[g]]
            qc   == rep[r].ledger.proof
<1>1. IInv' /\ IInv
  BY ProposeKeeps DEF ChainInv
<1>2. /\ TypeOK /\ NodesLinked /\ CertsLinked(C) /\ rep[r] \in Rep /\ TreeMade(rep[r])
      /\ RepGood(rep[r], C, Y, {}) /\ (qc = NoQc \/ qc \in C)
      /\ rep[r].ledger \in Ledger /\ rep[r].lastSequence \in Nat /\ seq \in Nat
  BY ChainFacts DEF Rep, TypeOK
<1>3. led \in Ledger /\ led.proof = qc /\ led.seq = rep[r].ledger.seq
  BY <1>2 DEF Ledger
<1>4. s = [rep[r] EXCEPT !.ledger.lastConsSeq = rep[r].ledger.seq + 1]
  OBVIOUS
<1>5. /\ s \in Rep /\ s.tree = rep[r].tree /\ s.obj = rep[r].obj /\ s.lock = rep[r].lock
      /\ s.exec = rep[r].exec /\ s.ledger = led /\ s.crashed = rep[r].crashed
      /\ s.lastSequence = rep[r].lastSequence
  <2>. HIDE DEF led
  <2>. QED  BY <1>2, <1>3 DEF Rep
<1>6. /\ used \in Rep /\ used.tree = s.tree /\ used.obj = s.obj /\ used.lock = s.lock
      /\ used.exec = s.exec /\ used.ledger = led /\ used.crashed = s.crashed
      /\ used.lastSequence = seq
  <2>. HIDE DEF s
  <2>. QED  BY <1>2, <1>5 DEF Rep
<1>7. /\ seq > 0 /\ h <= MaxNodes
      /\ building' = [building EXCEPT ![r] = 0]
      /\ UNCHANGED <<view, active, votes, decides, proofs, synced>>
      /\ \/ rep' = [rep EXCEPT ![r] = s] /\ node' = node
         \/ rep' = [rep EXCEPT ![r] = used] /\ node' = node /\ seq >= s.lastSequence
         \/ /\ rep' = [rep EXCEPT ![r] = w] /\ node' = grown /\ seq >= s.lastSequence
            /\ CanAppend(s, n)
  <2>. HIDE DEF own
  <2>. QED  BY <1>4, Zenon DEF Propose, own
<1>8. /\ n.sequence = seq /\ n.qc = qc /\ n.view = view[r]
      /\ n.parent = IF qc = NoQc THEN GetHighestLeafHash(rep[r]) ELSE qc.node
  <2>1. GetHighestLeafHash(s) = GetHighestLeafHash(rep[r])
    <3>. HIDE DEF s
    <3>. QED  BY <1>5 DEF GetHighestLeafHash, InTree
  <2>. HIDE DEF s
  <2>. QED  BY <1>3, <1>5, <2>1 DEF NewNode
<1>9. seq >= 2 /\ (qc = NoQc => seq = 2)
  BY <1>2, <1>7 DEF ChainInv, BuildingNext
<1>10. building'[r] = 0 /\ \A q \in Replica \ {r} : building'[q] = building[q]
  BY <1>2, <1>7 DEF TypeOK
<1>11. Certificates' = C
  BY <1>7 DEF Certificates
<1>12. synced' = [synced EXCEPT ![r] = Y]
  BY <1>2, <1>7 DEF TypeOK
<1>. HIDE DEF led, s, used, n, own, h, w, seq, qc
<1>13. \A q \in Held(rep[r]) : Sequence(q) \in Nat
  BY <1>2, NodeFacts DEF RepGood, ObjectsLinked, Sequence
<1>14. RepGood(s, C, Y, {}) /\ TreeMade(s)
  <2>. HIDE DEF C, Y
  <2>1. s.ledger.seq = rep[r].ledger.seq /\ s.ledger.proof = rep[r].ledger.proof
    BY <1>3, <1>5 DEF qc
  <2>2. s.lastSequence >= rep[r].lastSequence
    BY <1>2, <1>5
  <2>3. RepGood(s, C, Y, {})
    BY <1>2, <1>5, <1>13, <2>1, <2>2, LaterGood
  <2>. QED  BY <1>2, <1>5, <2>3 DEF TreeMade
<1>15. NotBack(rep[r], s)
  BY <1>5, NotBackRefl DEF NotBack
<1>16. ASSUME seq >= s.lastSequence
       PROVE  RepGood(used, C, Y, {}) /\ TreeMade(used) /\ NotBack(rep[r], used)
  <2>. HIDE DEF C, Y
  <2>1. Held(s) = Held(rep[r])
    BY <1>5 DEF Held
  <2>2. RepGood(used, C, Y, {})
    BY <1>2, <1>5, <1>6, <1>13, <1>14, <1>16, <2>1, LaterGood
  <2>. QED  BY <1>5, <1>6, <1>14, <1>15, <1>16, <2>2 DEF TreeMade, NotBack
<1>17. ASSUME NEW u \in Rep, rep' = [rep EXCEPT ![r] = u], node' = node,
              RepGood(u, C, Y, {}), TreeMade(u), NotBack(rep[r], u)
       PROVE  ChainInv' /\ NotBack(rep[r], rep'[r])
  <2>1. rep'[r] = u
    BY <1>2, <1>17 DEF TypeOK
  <2>2. ChainInv'
    <3>. PICK Z : Z = Y
      OBVIOUS
    <3>1. synced' = [synced EXCEPT ![r] = Z] /\ RepGood(u, Certificates, Z, {})
      BY <1>12, <1>17
    <3>. QED  BY <1>1, <1>7, <1>10, <1>11, <1>17, <3>1, SameCertsStep
  <2>. QED  BY <1>17, <2>1, <2>2
<1>18. CASE rep' = [rep EXCEPT ![r] = s] /\ node' = node
  BY <1>5, <1>14, <1>15, <1>17, <1>18
<1>19. CASE rep' = [rep EXCEPT ![r] = used] /\ node' = node /\ seq >= s.lastSequence
  BY <1>6, <1>16, <1>17, <1>19
<1>20. CASE /\ rep' = [rep EXCEPT ![r] = w] /\ node' = grown /\ seq >= s.lastSequence
            /\ CanAppend(s, n)
  <2>1. /\ DOMAIN node = 0 .. (h - 1) /\ h \in Nat /\ h - 1 >= 0
        /\ h \in Hash /\ h \notin DOMAIN node /\ h # Genesis
    <3>1. DOMAIN node = 0 .. (h - 1) /\ h \in Nat /\ 0 \in DOMAIN node
      BY <1>2, NodeType DEF Genesis, h
    <3>. QED  BY <1>7, <3>1, ConsensusAssumption DEF Hash, Genesis
  <2>2. /\ DOMAIN node' = 0 .. h /\ node'[h] = n
        /\ \A g \in DOMAIN node : g \in DOMAIN node' /\ node'[g] = node[g]
        /\ \A g \in DOMAIN node' : g \in DOMAIN node \/ g = h
    BY <1>20, <2>1
  <2>. HIDE DEF grown
  <2>3. NodesStay
    BY <2>2 DEF NodesStay
  <2>4. qc # NoQc => qc \in C /\ n.parent = qc.node
    BY <1>2, <1>8
  <2>5. n.parent \in DOMAIN node /\ n.parent < h /\ n.parent \in Nat /\ n.parent \in Hash
    <3>1. n.parent \in DOMAIN node
      BY <1>1, <1>2, <1>8, HighestLeaf DEF CertsLinked
    <3>. QED  BY <1>2, <2>1, <3>1, NodeFacts
  <2>6. NodesLinked'
    <3>1. node'[Genesis] = GenesisNode
      BY <1>2, <2>2, NodeType DEF NodesLinked
    <3>2. ASSUME NEW g \in DOMAIN node' \ {Genesis}
          PROVE  /\ node'[g].parent \in DOMAIN node'
                 /\ node'[g].parent < g
                 /\ node'[g].sequence >= 2
                 /\ node'[g].qc # NoQc =>
                      node'[g].qc \in Certificates' /\ node'[g].qc.node = node'[g].parent
      <4>1. CASE g = h
        BY <1>8, <1>9, <1>11, <2>2, <2>4, <2>5, <4>1
      <4>2. CASE g # h
        BY <1>2, <1>11, <2>2, <4>2 DEF NodesLinked
      <4>. QED  BY <4>1, <4>2
    <3>. QED  BY <3>1, <3>2 DEF NodesLinked
  <2>7. TypeOK'
    BY <1>1 DEF IInv
  <2>. PICK k, x, D, Z, o : k = h /\ x = used /\ D = C /\ Z = Y /\ o = own
    OBVIOUS
  <2>8. x \in Rep /\ TreeMade(x) /\ RepGood(x, D, Z, {}) /\ CertsLinked(D)
    BY <1>2, <1>6, <1>16, <1>20
  <2>9. RepGood(x, D, Z, {})'
    BY <1>2, <2>3, <2>8, GoodStays
  <2>10. TreeMade(x)'
    BY <2>3, <2>8 DEF TreeMade, NodesStay
  <2>11. x.tree[k] = 0 /\ x.tree[k] + 1 \in Generation
    <3>1. x.tree[k] \in {0} \cup Generation /\ ~ (x.tree[k] > 0)
      BY <2>1, <2>8 DEF TreeMade, Rep
    <3>2. x.tree[k] = 0
      BY <3>1, HashType, ConsensusAssumption DEF Generation
    <3>. QED  BY <3>2, HashType
  <2>12. GetNode(s, qc.node) \in Ref
    BY <1>5, GetNodeType
  <2>13. o \in Object /\ ~ o.preCommit /\ ~ o.decision /\ o.qcRef = GetNode(s, qc.node)
    BY <1>8, <2>12 DEF NewObject, Object, own
  <2>14. qc # NoQc => (InTree(s, n.parent) => node[n.parent].sequence = seq - 1)
    BY <1>8, <1>20 DEF CanAppend
  <2>15. ASSUME o.qcRef # Null
         PROVE  /\ o.qcRef \in Held(x) /\ o.qcRef[1] = n.parent
                /\ seq = node[o.qcRef[1]].sequence + 1
                /\ o.qcRef[1] \in DOMAIN node
    <3>1. /\ qc.node \in Hash /\ s.tree[qc.node] > 0 /\ o.qcRef \in Held(s) /\ o.qcRef[1] = qc.node
      BY <1>5, <2>13, <2>15, GetNodeType, TopHeld
    <3>2. qc # NoQc
      BY <3>1, HashType DEF NoQc
    <3>3. n.parent = qc.node /\ InTree(s, n.parent)
      BY <2>4, <3>1, <3>2 DEF InTree
    <3>4. Held(x) = Held(s)
      BY <1>6 DEF Held
    <3>5. node[n.parent].sequence \in Nat
      BY <1>2, <2>5, NodeFacts
    <3>. QED  BY <1>2, <2>5, <2>14, <3>1, <3>2, <3>3, <3>4, <3>5
  <2>16. Z = {} /\ seq > 2 => x.tree[n.parent] > 0
    <3>. SUFFICES ASSUME Z = {}, seq > 2 PROVE x.tree[n.parent] > 0
      OBVIOUS
    <3>1. qc # NoQc
      BY <1>9
    <3>2. rep[r].tree[qc.node] > 0
      BY <1>2, <3>1 DEF RepGood, LedgerHanded, qc
    <3>. QED  BY <1>5, <1>6, <2>4, <3>1, <3>2
  <2>17. Appends(x, D, Z, k, o)'
    <3>1. k \in DOMAIN node' \ {Genesis} /\ node'[k] = n
      BY <2>1, <2>2
    <3>2. o.qcRef # Null => /\ o.qcRef \in Held(x)'
                            /\ o.qcRef[1] = node'[k].parent
                            /\ node'[k].sequence = Sequence(o.qcRef)' + 1
      BY <1>8, <2>2, <2>15, <3>1 DEF Held, Sequence
    <3>3. Z = {} /\ node'[k].sequence > 2 => x.tree[node'[k].parent] > 0
      BY <1>8, <2>16, <3>1
    <3>. QED  BY <2>6, <2>7, <2>8, <2>9, <2>10, <2>11, <2>13, <3>1, <3>2, <3>3 DEF Appends
  <2>. PICK y : y = w
    OBVIOUS
  <2>18. y = AppendNode(x, k, o)
    BY DEF w
  <2>19. Appended(x, y, D, Z, k, o)'
    BY <2>17, <2>18, AppendGoodNext DEF AppendsWell
  <2>20. /\ y \in Rep /\ y.lastSequence = seq /\ y.lock = rep[r].lock /\ y.exec = rep[r].exec
         /\ y.ledger = led
    BY <1>5, <1>6, <2>19 DEF Appended
  <2>21. Handed(x) \subseteq Handed(y)
    <3>1. Held(y) = Held(x) \cup {NextPtr(x, k)}
      BY <2>19 DEF Appended, Held, NextPtr
    <3>2. \A q \in Held(x) : y.obj[q] = x.obj[q]
      BY <2>19 DEF Appended, Held, NextPtr
    <3>. QED  BY <3>1, <3>2 DEF Handed
  <2>22. RepGood(y, D, Z, {})'
    <3>. DEFINE p == NextPtr(x, k)
    <3>1. RepGood(y, D, Z, {p})'
      BY <2>19 DEF Appended, NextPtr
    <3>2. Sequence(p)' = seq /\ ParentHash(p)' = n.parent
      BY <1>8, <2>2 DEF Sequence, ParentHash, NextPtr
    <3>3. Sequence(p)' <= y.lastSequence + 1
      BY <1>2, <2>20, <3>2
    <3>4. Sequence(p)' > 2 => ParentHash(p)' \in Handed(y) \cup Z
      <4>. SUFFICES ASSUME seq > 2 PROVE n.parent \in Handed(y) \cup Z
        BY <3>2
      <4>1. qc # NoQc
        BY <1>9
      <4>2. qc.node \in Handed(rep[r]) \cup Y
        BY <1>2, <4>1 DEF RepGood, LedgerHanded, qc
      <4>3. Handed(x) = Handed(rep[r])
        BY <1>5, <1>6 DEF Handed, Held
      <4>. QED  BY <2>4, <2>21, <4>1, <4>2, <4>3
    <3>5. Handed(y)' = Handed(y)
      BY DEF Handed, Held
    <3>. HIDE DEF p
    <3>. QED  BY <3>1, <3>3, <3>4, <3>5, ObjectGoodNext DEF DropsExempt
  <2>23. NotBack(rep[r], y)
    BY <1>5, <1>15, <1>20, <2>20 DEF NotBack
  <2>24. ChainInv'
    <3>1. /\ rep' = [rep EXCEPT ![r] = y] /\ D = Certificates' /\ Certificates \subseteq D
          /\ synced' = [synced EXCEPT ![r] = Z]
      BY <1>11, <1>12, <1>20
    <3>. QED  BY <1>1, <1>7, <1>10, <2>3, <2>6, <2>8, <2>22, <3>1, ChainStep
  <2>25. rep'[r] = y
    BY <1>2, <1>20 DEF TypeOK
  <2>. QED  BY <2>23, <2>24, <2>25
<1>. QED  BY <1>7, <1>18, <1>19, <1>20
-----------------------------------------------------------------------------
(* All steps                                                               *)

LEMMA InitChain == Init => ChainInv
<1>. SUFFICES ASSUME Init PROVE ChainInv
  OBVIOUS
<1>1. IInv /\ TypeOK
  BY InitIInv DEF IInv
<1>2. DOMAIN node = {Genesis} /\ node[Genesis] = GenesisNode
  BY DEF Init
<1>3. Certificates = {}
  BY DEF Init, Certificates
<1>4. NodesLinked /\ CertsLinked(Certificates) /\ VotesLinked /\ BuildingNext
  BY <1>2, <1>3 DEF Init, NodesLinked, CertsLinked, VotesLinked, BuildingNext
<1>5. ASSUME NEW r \in Replica
      PROVE  RepGood(rep[r], Certificates, synced[r], {})
  <2>. DEFINE g == <<Genesis, 1>>
  <2>. PICK s : s = rep[r]
    OBVIOUS
  <2>1. s = InitialRep /\ synced[r] = {}
    BY DEF Init
  <2>2. /\ \A h \in Hash : s.tree[h] = IF h = Genesis THEN 1 ELSE 0
        /\ \A p \in Ptr : s.obj[p] = IF p = g THEN GenesisObject ELSE NewObject
        /\ s.lock = g /\ s.exec = g /\ s.lastSequence = 1 /\ ~ s.crashed
        /\ s.ledger.proof = NoQc /\ s.ledger.seq = 1
    BY <2>1 DEF InitialRep
  <2>3. g \in Ptr /\ g[1] = Genesis /\ Genesis \in Hash
    BY HashType DEF Ptr
  <2>4. Held(s) = {g}
    <3>1. ASSUME NEW p \in Ptr
          PROVE  p[2] <= s.tree[p[1]] <=> p = g
      <4>1. p[1] \in Hash /\ p[2] \in Generation /\ p = <<p[1], p[2]>>
        BY DEF Ptr
      <4>2. p[2] \in Nat /\ p[2] >= 1
        BY <4>1, HashType, ConsensusAssumption DEF Generation
      <4>. QED  BY <2>2, <4>1, <4>2
    <3>. QED  BY <2>3, <3>1 DEF Held
  <2>5. s.obj[g] = GenesisObject /\ GenesisObject.preCommit /\ GenesisObject.qcRef = Null
    BY <2>2, <2>3 DEF GenesisObject, NewObject
  <2>6. Sequence(g) = 1
    BY <1>2 DEF Sequence, GenesisNode
  <2>7. Handed(s) = {Genesis}
    BY <2>3, <2>4, <2>5 DEF Handed
  <2>8. GenesisHeld(s) /\ HandedCertified(s, {})
    BY <2>2, <2>3, <2>7 DEF GenesisHeld, HandedCertified
  <2>9. ObjectsLinked(s)
    BY <1>2, <2>3, <2>4, <2>5 DEF ObjectsLinked
  <2>10. LocksHeld(s) /\ SequencesSeen(s, {}) /\ ParentsHanded(s, {}, {})
    BY <2>2, <2>4, <2>6 DEF LocksHeld, SequencesSeen, ParentsHanded
  <2>11. DecidedHanded(s, {}) /\ LedgerHanded(s, {}, {}) /\ ExecCertified(s, {}, {})
    BY <2>2, <2>3, <2>4, <2>7 DEF DecidedHanded, LedgerHanded, ExecCertified
  <2>12. TreeClosed(s, {})
    BY <1>2, <2>2 DEF TreeClosed, GenesisNode
  <2>13. RepGood(s, {}, {}, {})
    BY <2>8, <2>9, <2>10, <2>11, <2>12 DEF RepGood
  <2>. QED  BY <1>3, <2>1, <2>13
<1>. QED  BY <1>1, <1>4, <1>5 DEF ChainInv

\* ChainInv is inductive, and a step takes no replica back.
LEMMA NextKeepsChain ==
  ChainInv /\ [Next]_vars => ChainInv' /\ \A q \in Replica : NotBack(rep[q], rep'[q])
<1>. SUFFICES ASSUME ChainInv, [Next]_vars
              PROVE  ChainInv' /\ \A q \in Replica : NotBack(rep[q], rep'[q])
  OBVIOUS
<1>1. rep \in [Replica -> Rep] /\ 0 \in Replica
  BY NAssumption DEF ChainInv, IInv, TypeOK, Replica
<1>2. ASSUME NEW r \in Replica, ChainInv' /\ NotBack(rep[r], rep'[r]),
             \E u : rep' = [rep EXCEPT ![r] = u]
      PROVE  ChainInv' /\ \A q \in Replica : NotBack(rep[q], rep'[q])
  <2>1. ASSUME NEW q \in Replica \ {r}
        PROVE  NotBack(rep[q], rep'[q])
    BY <1>1, <1>2, NotBackRefl
  <2>. QED  BY <1>2, <2>1
<1>3. CASE UNCHANGED vars
  <2>1. IInv'
    BY <1>3, NextKeeps DEF ChainInv
  <2>2. ChainInv'
    BY <1>1, <1>3, <2>1, QuietChain DEF ChainInv, BuildingNext, vars
  <2>. QED  BY <1>3, <2>2, NotBackRefl DEF vars
<1>4. ASSUME NEW r \in Replica, StartConsensus(r)
      PROVE  ChainInv' /\ \A q \in Replica : NotBack(rep[q], rep'[q])
  <2>1. rep' = [rep EXCEPT ![r] = rep[r]]
    BY <1>1, <1>4 DEF StartConsensus
  <2>. QED  BY <1>2, <1>4, <2>1, StartConsensusChain
<1>5. ASSUME NEW r \in Replica, Propose(r)
      PROVE  ChainInv' /\ \A q \in Replica : NotBack(rep[q], rep'[q])
  <2>1. \E u : rep' = [rep EXCEPT ![r] = u]
    BY <1>5, Zenon DEF Propose
  <2>. QED  BY <1>2, <1>5, <2>1, ProposeChain
<1>6. ASSUME NEW r \in Replica, NEW h \in DOMAIN node \ {Genesis}, OnPropose(r, h)
      PROVE  ChainInv' /\ \A q \in Replica : NotBack(rep[q], rep'[q])
  <2>1. \E u : rep' = [rep EXCEPT ![r] = u]
    BY <1>6, Zenon DEF OnPropose, Become
  <2>. QED  BY <1>2, <1>6, <2>1, OnProposeChain
<1>7. ASSUME NEW r \in Replica, NEW vote \in votes, OnVote(r, vote)
      PROVE  ChainInv' /\ \A q \in Replica : NotBack(rep[q], rep'[q])
  <2>1. \E u : rep' = [rep EXCEPT ![r] = u]
    BY <1>7, Zenon DEF OnVote, Become
  <2>. QED  BY <1>2, <1>7, <2>1, OnVoteChain
<1>8. ASSUME NEW r \in Replica, NEW qc \in decides, OnDecide(r, qc)
      PROVE  ChainInv' /\ \A q \in Replica : NotBack(rep[q], rep'[q])
  <2>1. \E u : rep' = [rep EXCEPT ![r] = u]
    BY <1>8, Zenon DEF OnDecide, Become
  <2>. QED  BY <1>2, <1>8, <2>1, OnDecideChain
<1>9. ASSUME NEW r \in Replica, SetViewInActive(r)
      PROVE  ChainInv' /\ \A q \in Replica : NotBack(rep[q], rep'[q])
  <2>1. rep' = [rep EXCEPT ![r] = rep[r]]
    BY <1>1, <1>9 DEF SetViewInActive
  <2>. QED  BY <1>2, <1>9, <2>1, SetViewInActiveChain
<1>10. ASSUME NEW r \in Replica, NEW v \in View, NEW qc \in decides \cup proofs \cup {NoQc},
              ViewChanged(r, v, qc)
       PROVE  ChainInv' /\ \A q \in Replica : NotBack(rep[q], rep'[q])
  <2>1. \E u : rep' = [rep EXCEPT ![r] = u]
    BY <1>10, Zenon DEF ViewChanged, Become
  <2>. QED  BY <1>2, <1>10, <2>1, ViewChangedChain
<1>11. ASSUME NEW r \in Replica, NEW qc \in proofs, Sync(r, qc)
       PROVE  ChainInv' /\ \A q \in Replica : NotBack(rep[q], rep'[q])
  <2>1. \E u : rep' = [rep EXCEPT ![r] = u]
    BY <1>11, Zenon DEF Sync, Become
  <2>. QED  BY <1>2, <1>11, <2>1, SyncChain
<1>. QED  BY <1>3, <1>4, <1>5, <1>6, <1>7, <1>8, <1>9, <1>10, <1>11 DEF Next

\* What a hash stands for never changes.
LEMMA NextKeepsNodes == IInv /\ [Next]_vars => NodesStay
<1>. SUFFICES ASSUME IInv, [Next]_vars PROVE NodesStay
  OBVIOUS
<1>1. ASSUME NEW r \in Replica, Propose(r)
      PROVE  NodesStay
  <2>1. CASE node' = node
    BY <2>1 DEF NodesStay
  <2>2. CASE node' # node
    BY <1>1, <2>2, ProposeKeeps DEF NodesStay
  <2>. QED  BY <2>1, <2>2
<1>2. CASE node' = node
  BY <1>2 DEF NodesStay
<1>3. ASSUME NEW r \in Replica, StartConsensus(r) \/ SetViewInActive(r)
      PROVE  node' = node
  BY <1>3 DEF StartConsensus, SetViewInActive
<1>4. ASSUME NEW r \in Replica, NEW h \in DOMAIN node \ {Genesis}, OnPropose(r, h)
      PROVE  node' = node
  BY <1>4, Zenon DEF OnPropose
<1>5. ASSUME NEW r \in Replica, NEW vote \in votes, OnVote(r, vote)
      PROVE  node' = node
  BY <1>5, Zenon DEF OnVote
<1>6. ASSUME NEW r \in Replica, NEW qc \in decides, OnDecide(r, qc)
      PROVE  node' = node
  BY <1>6, Zenon DEF OnDecide
<1>7. ASSUME NEW r \in Replica, NEW v \in View, NEW qc \in decides \cup proofs \cup {NoQc},
             ViewChanged(r, v, qc)
      PROVE  node' = node
  BY <1>7, Zenon DEF ViewChanged
<1>8. ASSUME NEW r \in Replica, NEW qc \in proofs, Sync(r, qc)
      PROVE  node' = node
  BY <1>8, Zenon DEF Sync
<1>9. UNCHANGED vars => node' = node
  BY DEF vars
<1>. QED  BY <1>1, <1>2, <1>3, <1>4, <1>5, <1>6, <1>7, <1>8, <1>9 DEF Next

-----------------------------------------------------------------------------
(* Theorems                                                                *)

\* ChainInv is an invariant: what every replica holds hangs together along the
\* certificates of the nodes' parents.
THEOREM ChainInvariance == Spec => []ChainInv
<1>1. ChainInv /\ [Next]_vars => ChainInv'
  BY NextKeepsChain
<1>. QED  BY <1>1, InitChain, PTL DEF Spec

\* For every number of validators, a certified node has the sequence after its
\* parent's and, but for the first value, carries its parent's certificate,
\* although startConsensus reads the two at different times.
THEOREM CertificatesChain == Spec => []ChainGrows
<1>1. ChainInv => ChainGrows
  BY DEF ChainInv, CertsLinked, Linked, ChainGrows
<1>. QED  BY <1>1, ChainInvariance, PTL

\* No replica hands its application a value whose predecessor it has neither
\* handed over nor taken from a synchronised proof, in whatever order proposals,
\* certificates and proofs arrive.
THEOREM DeliveryInOrder == Spec => []DeliveryFollowsChain
<1>1. ChainInv => DeliveryFollowsChain
  <2>. SUFFICES ASSUME ChainInv, NEW r \in Replica, NEW h \in Delivered(r), node[h].sequence > 2
                PROVE  node[h].parent \in Delivered(r) \cup synced[r]
    BY DEF DeliveryFollowsChain
  <2>1. Delivered(r) = Handed(rep[r])
    BY DEF Delivered, Made, Handed, Held
  <2>2. PICK p \in Held(rep[r]) : h = p[1] /\ rep[r].obj[p].preCommit
    BY <2>1 DEF Handed
  <2>. QED  BY <2>1, <2>2, ChainFacts DEF RepGood, ParentsHanded, Sequence, ParentHash
<1>. QED  BY <1>1, ChainInvariance, PTL

\* What a replica has executed has a certified child and grandchild, unless it is
\* genesis or the node of a proof, with any number of certificates in flight.
THEOREM ThreeChainExecuted == Spec => []ExecutedOnThreeChain
<1>1. ChainInv => ExecutedOnThreeChain
  BY ChainFacts DEF RepGood, ExecCertified, ExecutedOnThreeChain
<1>. QED  BY <1>1, ChainInvariance, PTL

\* The executed node is never above the lock, nor the lock above the highest
\* sequence seen.
THEOREM LocksOrdered == Spec => []ExecBehindLock
<1>1. ChainInv => ExecBehindLock
  BY ChainFacts DEF RepGood, LocksHeld, ExecBehindLock
<1>. QED  BY <1>1, ChainInvariance, PTL

\* Without a synchronised proof the walk to the executed node never leaves the
\* tree, so update does not follow a null parent.
THEOREM WalkDoesNotCrash == Spec => []WalkStaysInTree
<1>1. ChainInv => WalkStaysInTree
  BY ChainFacts DEF RepGood, TreeClosed, WalkStaysInTree
<1>. QED  BY <1>1, ChainInvariance, PTL

\* No step takes a replica's lock, executed node or highest sequence back, also
\* not the proof of a synchronisation, which replaces both nodes.
THEOREM LocksNeverFall == Spec => LocksAdvance
<1>1. ChainInv /\ [Next]_vars =>
        [\A r \in Replica :
           /\ Sequence(rep[r].lock)' >= Sequence(rep[r].lock)
           /\ Sequence(rep[r].exec)' >= Sequence(rep[r].exec)
           /\ rep[r].lastSequence' >= rep[r].lastSequence]_vars
  <2>. SUFFICES ASSUME ChainInv, [Next]_vars, NEW r \in Replica
                PROVE  /\ Sequence(rep[r].lock)' >= Sequence(rep[r].lock)
                       /\ Sequence(rep[r].exec)' >= Sequence(rep[r].exec)
                       /\ rep[r].lastSequence' >= rep[r].lastSequence
    OBVIOUS
  <2>1. NotBack(rep[r], rep'[r])
    BY NextKeepsChain
  <2>2. \A h \in DOMAIN node : node'[h] = node[h]
    BY NextKeepsNodes DEF ChainInv, NodesStay
  <2>. QED  BY <2>1, <2>2 DEF NotBack, Sequence
<1>. QED  BY <1>1, ChainInvariance, PTL DEF Spec, LocksAdvance
=============================================================================
