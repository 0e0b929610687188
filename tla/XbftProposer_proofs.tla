------------------------ MODULE XbftProposer_proofs ------------------------
(***************************************************************************)
(* That the highest leaf of XbftNodeTree is a highest node of the tree,     *)
(* however the nodes come (the invariant says why: a node that is not in    *)
(* the list of leaves has a child in the tree, one sequence higher), and    *)
(* the invariants of XbftProposer, which keeps such a tree, for every set   *)
(* of addresses, every list of validators and every bound.                  *)
(***************************************************************************)
EXTENDS XbftProposer, SequenceTheorems, FiniteSetTheorems, WellFoundedInduction, TLAPS

-----------------------------------------------------------------------------
(* The node tree                                                           *)

Holds(s, x) == \E j \in DOMAIN s : s[j] = x

\* The node g has gone from the list of leaves only for a child.
LeafOrParent(g) ==
  \/ Holds(leafNodes, g)
  \/ \E c \in nodes : node[c].parent = g /\ node[c].sequence = node[g].sequence + 1

\* No sequence in the tree is above top.
TreeInv(top) ==
  /\ nodes # {}
  /\ leafNodes \in Seq(nodes)
  /\ \A h \in nodes : node[h].sequence \in 0 .. top
  /\ \A h \in nodes : LeafOrParent(h)

\* A set of natural numbers has a least element.
LEMMA LeastNatural ==
  ASSUME NEW S \in SUBSET Nat, S # {}
  PROVE  \E m \in S : \A k \in S : m <= k
<1>1. PICK m \in S : \A k \in S : ~ (<<k, m>> \in OpToRel(<, Nat))
  BY NatLessThanWellFounded, WFMin, Zenon
<1>2. \A k \in S : ~ (k < m)
  BY <1>1 DEF OpToRel
<1>3. ASSUME NEW k \in S PROVE m <= k
  BY <1>2, k \in Nat, m \in Nat
<1>. QED  BY <1>3

\* Some node has the highest sequence.
LEMMA HighestExists ==
  ASSUME NEW top \in Nat, TreeInv(top)
  PROVE  \E m \in nodes : \A h \in nodes : node[h].sequence <= node[m].sequence
<1>. DEFINE S == {top - node[h].sequence : h \in nodes}
<1>1. S \in SUBSET Nat /\ S # {}
  BY DEF TreeInv
<1>2. PICK d \in S : \A k \in S : d <= k
  BY <1>1, LeastNatural, Zenon
<1>3. PICK m \in nodes : d = top - node[m].sequence
  BY <1>2
<1>4. ASSUME NEW h \in nodes PROVE node[h].sequence <= node[m].sequence
  <2>1. top - node[h].sequence \in S
    OBVIOUS
  <2>2. top - node[m].sequence <= top - node[h].sequence
    BY <1>2, <1>3, <2>1
  <2>. QED  BY <2>2 DEF TreeInv
<1>. QED  BY <1>4

\* What GetHighestLeafHash promises, from the invariant: a node of the highest
\* sequence has no child, so it is a leaf (XbftNodeTree.cpp:116).
THEOREM HighestLeaf ==
  ASSUME NEW top \in Nat, TreeInv(top)
  PROVE  HighestLeafIsHighest
<1>1. PICK m \in nodes : \A h \in nodes : node[h].sequence <= node[m].sequence
  BY HighestExists
<1>2. PICK k \in DOMAIN leafNodes : leafNodes[k] = m
  BY <1>1 DEF TreeInv, LeafOrParent, Holds
<1>3. \A i \in DOMAIN leafNodes : leafNodes[i] \in nodes
  BY ElementOfSeq, LenProperties DEF TreeInv
<1>4. \A i \in DOMAIN leafNodes : i \in Nat /\ 1 .. (i - 1) \subseteq DOMAIN leafNodes
  <2>1. DOMAIN leafNodes = 1 .. Len(leafNodes) /\ Len(leafNodes) \in Nat
    BY LenProperties DEF TreeInv
  <2>. QED  BY <2>1
<1>. DEFINE T == {i \in DOMAIN leafNodes : LeafSequence(i) = node[m].sequence}
            First(i) == /\ \A j \in DOMAIN leafNodes : LeafSequence(j) <= LeafSequence(i)
                        /\ \A j \in 1 .. (i - 1) : LeafSequence(j) < LeafSequence(i)
            top1 == CHOOSE i \in DOMAIN leafNodes : First(i)
<1>5. PICK i \in T : \A j \in T : i <= j
  <2>1. T \in SUBSET Nat /\ k \in T
    BY <1>2, <1>4 DEF LeafSequence
  <2>. QED  BY <2>1, LeastNatural, Zenon
<1>6. First(i)
  <2>1. \A j \in DOMAIN leafNodes : LeafSequence(j) <= LeafSequence(i)
    BY <1>1, <1>3, <1>5 DEF LeafSequence
  <2>2. ASSUME NEW j \in 1 .. (i - 1) PROVE LeafSequence(j) < LeafSequence(i)
    <3>1. j \in DOMAIN leafNodes /\ j < i /\ ~ (i <= j)
      BY <1>4, <1>5
    <3>2. LeafSequence(j) # node[m].sequence
      BY <1>5, <3>1
    <3>3. LeafSequence(j) \in Nat /\ LeafSequence(i) \in Nat
      BY <1>3, <1>5, <3>1 DEF LeafSequence, TreeInv
    <3>. QED  BY <1>5, <2>1, <3>1, <3>2, <3>3
  <2>. QED  BY <2>1, <2>2
<1>7. top1 \in DOMAIN leafNodes /\ First(top1)
  <2>1. i \in DOMAIN leafNodes
    BY <1>5
  <2>. HIDE DEF First
  <2>. QED  BY <1>6, <2>1, Zenon
<1>8. GetHighestLeafHash = leafNodes[top1]
  BY Zenon DEF GetHighestLeafHash
<1>. HIDE DEF top1
<1>9. leafNodes[top1] \in nodes
  BY <1>3, <1>7
<1>10. ASSUME NEW h \in nodes PROVE node[h].sequence <= node[leafNodes[top1]].sequence
  <2>1. LeafSequence(k) <= LeafSequence(top1)
    BY <1>7
  <2>2. node[m].sequence <= node[leafNodes[top1]].sequence
    BY <1>2, <2>1 DEF LeafSequence
  <2>. QED  BY <1>1, <1>9, <2>2 DEF TreeInv
<1>. QED  BY <1>8, <1>9, <1>10 DEF HighestLeafIsHighest

\* RemoveFirst takes nothing away but the value it looks for.
LEMMA RemoveFirstKeeps ==
  ASSUME NEW S, NEW s \in Seq(S), NEW e
  PROVE  /\ RemoveFirst(s, e) \in Seq(S)
         /\ \A x : Holds(s, x) /\ x # e => Holds(RemoveFirst(s, e), x)
<1>1. DOMAIN s = 1 .. Len(s) /\ Len(s) \in Nat /\ \A i \in 1 .. Len(s) : s[i] \in S
  BY LenProperties, ElementOfSeq
<1>2. CASE ~ \E i \in 1 .. Len(s) : s[i] = e
  BY <1>1, <1>2 DEF RemoveFirst
<1>3. CASE \E i \in 1 .. Len(s) : s[i] = e
  <2>. DEFINE I == {i \in 1 .. Len(s) : s[i] = e}
              k == Min(I)
              left == SubSeq(s, 1, k - 1)
              right == SubSeq(s, k + 1, Len(s))
  <2>2. Min(I) \in I
    <3>1. I \in SUBSET Nat /\ I # {}
      BY <1>3
    <3>2. PICK m \in I : \A j \in I : m <= j
      BY <3>1, LeastNatural, Zenon
    <3>. HIDE DEF I
    <3>. QED  BY <3>2 DEF Min
  <2>3. k \in 1 .. Len(s) /\ s[k] = e
    BY <2>2
  <2>4. RemoveFirst(s, e) = left \o right
    BY <1>3, <2>2 DEF RemoveFirst, RemoveAt, SelectInSeq
  <2>. HIDE DEF k
  <2>5. /\ left \in Seq(S) /\ Len(left) = k - 1
        /\ \A i \in 1 .. (k - 1) : left[i] = s[i]
    <3>1. \A i \in 1 .. (k - 1) : s[i] \in S
      BY <1>1, <2>3
    <3>2. k - 1 \in Int
      BY <2>3
    <3>. QED  BY <2>3, <3>1, <3>2, SubSeqProperties
  <2>6. /\ right \in Seq(S) /\ Len(right) = Len(s) - k
        /\ \A i \in 1 .. (Len(s) - k) : right[i] = s[i + k]
    <3>1. \A i \in (k + 1) .. Len(s) : s[i] \in S
      BY <1>1, <2>3
    <3>2. k + 1 \in Int /\ Len(s) \in Int
      BY <1>1, <2>3
    <3>3. /\ SubSeq(s, k + 1, Len(s)) \in Seq(S)
          /\ Len(SubSeq(s, k + 1, Len(s))) = IF k + 1 <= Len(s) THEN Len(s) - (k + 1) + 1 ELSE 0
          /\ \A i \in 1 .. Len(s) - (k + 1) + 1 : SubSeq(s, k + 1, Len(s))[i] = s[k + 1 + i - 1]
      BY <3>1, <3>2, SubSeqProperties
    <3>4. /\ Len(s) - (k + 1) + 1 = Len(s) - k
          /\ k + 1 <= Len(s) \/ Len(s) - k = 0
      <4>. DEFINE w == Len(s)
      <4>1. w \in Nat /\ k \in 1 .. w
        BY <1>1, <2>3
      <4>. HIDE DEF w
      <4>2. w - (k + 1) + 1 = w - k /\ (k + 1 <= w \/ w - k = 0)
        BY <4>1
      <4>. QED  BY <4>2 DEF w
    <3>5. Len(right) = Len(s) - k
      BY <3>3, <3>4
    <3>6. ASSUME NEW i \in 1 .. (Len(s) - k) PROVE right[i] = s[i + k]
      <4>1. i \in 1 .. Len(s) - (k + 1) + 1 /\ k + 1 + i - 1 = i + k
        <5>. DEFINE w == Len(s)
        <5>1. w \in Nat /\ k \in 1 .. w /\ i \in 1 .. (w - k)
          BY <1>1, <2>3
        <5>. HIDE DEF w
        <5>2. i \in 1 .. w - (k + 1) + 1 /\ k + 1 + i - 1 = i + k
          BY <5>1
        <5>. QED  BY <5>2 DEF w
      <4>. QED  BY <3>3, <4>1
    <3>. QED  BY <3>3, <3>5, <3>6
  <2>. HIDE DEF left, right
  <2>7. /\ left \o right \in Seq(S)
        /\ Len(left \o right) = Len(left) + Len(right)
        /\ \A i \in 1 .. Len(left) + Len(right) :
             (left \o right)[i] = IF i <= Len(left) THEN left[i] ELSE right[i - Len(left)]
    BY <2>5, <2>6, ConcatProperties
  <2>8. DOMAIN (left \o right) = 1 .. (Len(left) + Len(right))
    BY <2>7, LenProperties
  <2>9. ASSUME NEW i \in DOMAIN s, s[i] # e
        PROVE  \E j \in DOMAIN (left \o right) : (left \o right)[j] = s[i]
    <3>1. i \in 1 .. Len(s) /\ i # k
      BY <1>1, <2>3, <2>9
    <3>2. CASE i < k
      <4>1. i \in 1 .. (k - 1) /\ i <= Len(left) /\ i \in 1 .. (Len(left) + Len(right))
        BY <1>1, <2>3, <2>5, <2>6, <3>1, <3>2
      <4>2. (left \o right)[i] = left[i]
        BY <2>7, <4>1
      <4>. QED  BY <2>5, <2>8, <4>1, <4>2
    <3>3. CASE i > k
      <4>. DEFINE l == Len(left)
                  r == Len(right)
                  w == Len(s)
      <4>0. l = k - 1 /\ r = w - k /\ w \in Nat /\ k \in 1 .. w /\ i \in 1 .. w /\ i > k
        BY <1>1, <2>3, <2>5, <2>6, <3>1, <3>3
      <4>. HIDE DEF l, r, w
      <4>9. /\ i - 1 \in 1 .. (l + r) /\ ~ (i - 1 <= l)
            /\ i - 1 - l = i - k /\ i - k \in 1 .. (w - k) /\ (i - k) + k = i
        BY <4>0
      <4>1. /\ i - 1 \in 1 .. (Len(left) + Len(right)) /\ ~ (i - 1 <= Len(left))
            /\ i - 1 - Len(left) = i - k /\ i - k \in 1 .. (Len(s) - k) /\ (i - k) + k = i
        BY <4>9 DEF l, r, w
      <4>2. (left \o right)[i - 1] = right[i - k]
        BY <2>7, <4>1
      <4>3. right[i - k] = s[(i - k) + k]
        BY <2>6, <4>1
      <4>. QED  BY <2>8, <4>1, <4>2, <4>3
    <3>. QED  BY <1>1, <2>3, <3>1, <3>2, <3>3
  <2>. QED  BY <2>4, <2>7, <2>9 DEF Holds
<1>. QED  BY <1>2, <1>3

\* AppendNode keeps the invariant: the parent leaves the list as its child comes.
THEOREM AppendKeepsTree ==
  ASSUME NEW top \in Nat, NEW h, NEW n,
         TreeInv(top), AppendNode(h, n),
         n.sequence \in 0 .. top, n.parent # h,
         node'[h] = n, \A g \in nodes : node'[g] = node[g]
  PROVE  TreeInv(top)'
<1>. DEFINE s == RemoveFirst(leafNodes, n.parent)
<1>1. nodes' = nodes \cup {h} /\ leafNodes' = Append(s, h)
  BY DEF AppendNode
<1>2. s \in Seq(nodes') /\ \A x : Holds(leafNodes, x) /\ x # n.parent => Holds(s, x)
  <2>1. leafNodes \in Seq(nodes)
    BY DEF TreeInv
  <2>2. s \in Seq(nodes) /\ \A x : Holds(leafNodes, x) /\ x # n.parent => Holds(s, x)
    BY <2>1, RemoveFirstKeeps
  <2>3. s \in Seq(nodes')
    BY <1>1, <2>2, SeqMonotonic
  <2>. QED  BY <2>2, <2>3
<1>. HIDE DEF s
<1>3. /\ leafNodes' \in Seq(nodes')
      /\ DOMAIN leafNodes' = 1 .. (Len(s) + 1)
      /\ \A i \in 1 .. Len(s) : leafNodes'[i] = s[i]
      /\ leafNodes'[Len(s) + 1] = h
      /\ DOMAIN s = 1 .. Len(s) /\ Len(s) \in Nat
  BY <1>1, <1>2, AppendProperties, LenProperties, h \in nodes'
<1>4. \A g \in nodes' : node'[g].sequence \in 0 .. top
  BY <1>1 DEF TreeInv
<1>5. ASSUME NEW g \in nodes' PROVE LeafOrParent(g)'
  <2>1. CASE g = h
    BY <1>3, <2>1 DEF LeafOrParent, Holds
  <2>2. CASE g # h /\ g = n.parent
    <3>1. g \in nodes /\ node[g].sequence = n.sequence - 1
      BY <1>1, <2>2 DEF AppendNode, CanAppend
    <3>2. node'[h].parent = g /\ node'[h].sequence = node'[g].sequence + 1
      BY <2>2, <3>1
    <3>. QED  BY <1>1, <3>2 DEF LeafOrParent
  <2>3. CASE g # h /\ g # n.parent
    <3>1. g \in nodes
      BY <1>1, <2>3
    <3>2. CASE Holds(leafNodes, g)
      <4>1. PICK j \in DOMAIN s : s[j] = g
        BY <1>2, <2>3, <3>2 DEF Holds
      <4>. QED  BY <1>3, <4>1 DEF LeafOrParent, Holds
    <3>3. CASE \E c \in nodes : node[c].parent = g /\ node[c].sequence = node[g].sequence + 1
      <4>1. PICK c \in nodes : node[c].parent = g /\ node[c].sequence = node[g].sequence + 1
        BY <3>3
      <4>2. node'[c] = node[c] /\ node'[g] = node[g] /\ c \in nodes'
        BY <1>1, <3>1
      <4>. QED  BY <4>1, <4>2 DEF LeafOrParent
    <3>. QED  BY <3>1, <3>2, <3>3 DEF TreeInv, LeafOrParent
  <2>. QED  BY <2>1, <2>2, <2>3
<1>. QED  BY <1>1, <1>3, <1>4, <1>5 DEF TreeInv

-----------------------------------------------------------------------------
(* Validator sets                                                          *)

List == Seq(Address) \ {<< >>}

ListRange(list) == {list[i] : i \in DOMAIN list}

\* The list holds each of its addresses for a first time.
LEMMA FirstIndexType ==
  ASSUME NEW list \in Seq(Address), NEW a \in ListRange(list)
  PROVE  FirstIndex(list, a) \in DOMAIN list /\ list[FirstIndex(list, a)] = a
<1>. DEFINE T == {i \in DOMAIN list : list[i] = a}
            First(i) == list[i] = a /\ \A j \in 1 .. (i - 1) : list[j] # a
<1>1. DOMAIN list = 1 .. Len(list) /\ Len(list) \in Nat
  BY LenProperties
<1>2. PICK k \in DOMAIN list : list[k] = a
  BY DEF ListRange
<1>3. T \in SUBSET Nat /\ T # {}
  BY <1>1, <1>2
<1>4. PICK i \in T : \A j \in T : i <= j
  BY <1>3, LeastNatural, Zenon
<1>5. i \in DOMAIN list /\ list[i] = a
  BY <1>4
<1>6. ASSUME NEW j \in 1 .. (i - 1), list[j] = a PROVE FALSE
  <2>1. j \in DOMAIN list /\ j < i
    BY <1>1, <1>5
  <2>2. j \in T
    BY <1>6, <2>1
  <2>. QED  BY <1>1, <1>4, <1>5, <2>1, <2>2
<1>7. First(i)
  BY <1>5, <1>6
<1>. HIDE DEF First
<1>8. First(CHOOSE k1 \in DOMAIN list : First(k1)) /\ (CHOOSE k1 \in DOMAIN list : First(k1)) \in DOMAIN list
  BY <1>5, <1>7, Zenon
<1>. USE DEF First
<1>9. FirstIndex(list, a) = CHOOSE k1 \in DOMAIN list : First(k1)
  BY Zenon DEF FirstIndex
<1>. QED  BY <1>8, <1>9

\* Set makes a map of finitely many addresses to natural numbers.
LEMMA SetType ==
  ASSUME NEW list \in Seq(Address)
  PROVE  /\ DOMAIN Set(list) = ListRange(list)
         /\ IsFiniteSet(ListRange(list))
         /\ IsMembers(Set(list))
<1>1. DOMAIN list = 1 .. Len(list) /\ Len(list) \in Nat /\ \A i \in DOMAIN list : list[i] \in Address
  BY LenProperties, ElementOfSeq
<1>2. Set(list) = [a \in ListRange(list) |-> FirstIndex(list, a) - 1]
  BY DEF Set, ListRange
<1>3. ASSUME NEW a \in ListRange(list) PROVE FirstIndex(list, a) - 1 \in Nat
  <2>1. FirstIndex(list, a) \in DOMAIN list
    BY FirstIndexType
  <2>. QED  BY <1>1, <2>1
<1>4. Set(list) \in [ListRange(list) -> Nat] /\ DOMAIN Set(list) = ListRange(list)
  BY <1>2, <1>3
<1>5. ListRange(list) \subseteq Address
  BY <1>1 DEF ListRange
<1>6. IsFiniteSet(ListRange(list))
  <2>1. list \in [1 .. Len(list) -> ListRange(list)]
    BY <1>1, LenProperties DEF ListRange
  <2>2. list \in Surjection(1 .. Len(list), ListRange(list))
    BY <1>1, <2>1 DEF Surjection, ListRange
  <2>3. IsFiniteSet(1 .. Len(list))
    BY <1>1, FS_Interval, 1 \in Int, Len(list) \in Int
  <2>. QED  BY <2>2, <2>3, FS_Surjection
<1>. QED  BY <1>4, <1>5, <1>6 DEF IsMembers

\* Where Compare sees no difference there is none: the update that is saved
\* would have changed nothing (XbftValidatorSet.cpp:75).
THEOREM CompareExact ==
  ASSUME NEW list \in Seq(Address), NEW vs, IsMembers(vs), IsFiniteSet(DOMAIN vs),
         ~ Compare(vs, list)
  PROVE  Set(list) = vs
<1>1. DOMAIN list = 1 .. Len(list) /\ Len(list) \in Nat
  BY LenProperties
<1>2. /\ Len(list) = Cardinality(DOMAIN vs)
      /\ \A i \in DOMAIN list : list[i] \in DOMAIN vs /\ vs[list[i]] = i - 1
  BY DEF Compare
<1>3. \A i, j \in DOMAIN list : list[i] = list[j] => i = j
  BY <1>1, <1>2
<1>4. list \in [1 .. Len(list) -> DOMAIN vs]
  BY <1>1, <1>2, LenProperties
<1>5. list \in Injection(1 .. Len(list), DOMAIN vs)
  BY <1>1, <1>3, <1>4 DEF Injection, IsInjective
<1>6. Cardinality(1 .. Len(list)) = Cardinality(DOMAIN vs)
  BY <1>1, <1>2, FS_Interval, 1 \in Int, Len(list) \in Int
<1>7. list \in Surjection(1 .. Len(list), DOMAIN vs)
  BY <1>5, <1>6, FS_Injection
<1>8. ListRange(list) = DOMAIN vs
  BY <1>1, <1>2, <1>7 DEF Surjection, ListRange
<1>9. ASSUME NEW a \in DOMAIN vs PROVE Set(list)[a] = vs[a]
  <2>1. FirstIndex(list, a) \in DOMAIN list /\ list[FirstIndex(list, a)] = a
    BY <1>8, FirstIndexType
  <2>2. vs[a] = FirstIndex(list, a) - 1
    BY <1>2, <2>1
  <2>. QED  BY <1>8, <2>2 DEF Set, ListRange
<1>10. DOMAIN Set(list) = DOMAIN vs
  BY <1>8, SetType
<1>11. Set(list) \in [DOMAIN vs -> Nat] /\ vs \in [DOMAIN vs -> Nat]
  BY <1>10, SetType DEF IsMembers
<1>. QED  BY <1>9, <1>11

\* A list without repetition gives every id below its length to exactly one
\* validator: every view has one leader.
THEOREM OneLeader ==
  ASSUME NEW list \in List, Distinct(list), NEW v \in Nat
  PROVE  \E a \in DOMAIN Set(list) :
           /\ Leads(Set(list), a, v)
           /\ \A b \in DOMAIN Set(list) : Leads(Set(list), b, v) => b = a
<1>1. /\ DOMAIN list = 1 .. Len(list) /\ Len(list) \in Nat /\ list \in Seq(Address)
      /\ Len(list) # 0
  BY LenProperties, EmptySeq DEF List
<1>2. \A i \in DOMAIN list : list[i] \in DOMAIN Set(list) /\ Set(list)[list[i]] = i - 1
  <2>1. ASSUME NEW i \in DOMAIN list PROVE list[i] \in ListRange(list) /\ FirstIndex(list, list[i]) = i
    <3>1. list[i] \in ListRange(list)
      BY DEF ListRange
    <3>2. FirstIndex(list, list[i]) \in DOMAIN list /\ list[FirstIndex(list, list[i])] = list[i]
      BY <1>1, <3>1, FirstIndexType
    <3>. QED  BY <3>1, <3>2 DEF Distinct
  <2>. QED  BY <1>1, <2>1, SetType DEF Set, ListRange
<1>3. Cardinality(DOMAIN Set(list)) = Len(list)
  <2>1. list \in [1 .. Len(list) -> ListRange(list)]
    BY <1>1, LenProperties DEF ListRange
  <2>2. list \in Surjection(1 .. Len(list), ListRange(list))
    BY <1>1, <2>1 DEF Surjection, ListRange
  <2>3. list \in Injection(1 .. Len(list), ListRange(list))
    BY <1>1, <2>1 DEF Injection, IsInjective, Distinct
  <2>4. IsFiniteSet(1 .. Len(list)) /\ Cardinality(1 .. Len(list)) = Len(list)
    BY <1>1, FS_Interval, 1 \in Int, Len(list) \in Int
  <2>. QED  BY <1>1, <2>2, <2>3, <2>4, FS_Surjection, SetType
<1>. DEFINE k == v % Len(list)
<1>4. k \in 0 .. (Len(list) - 1) /\ k + 1 \in DOMAIN list /\ (k + 1) - 1 = k
  BY <1>1
<1>. HIDE DEF k
<1>5. LeaderId(Set(list), v) = k
  BY <1>3 DEF LeaderId, Size, k
<1>6. list[k + 1] \in DOMAIN Set(list) /\ Leads(Set(list), list[k + 1], v)
  BY <1>2, <1>4, <1>5 DEF Leads, QueryId
<1>7. ASSUME NEW b \in DOMAIN Set(list), Leads(Set(list), b, v) PROVE b = list[k + 1]
  <2>1. PICK j \in DOMAIN list : list[j] = b
    BY <1>1, SetType DEF ListRange
  <2>2. j - 1 = k
    BY <1>2, <1>5, <1>7, <2>1 DEF Leads, QueryId
  <2>3. j = k + 1
    BY <1>1, <1>4, <2>2
  <2>. QED  BY <2>1, <2>3
<1>. QED  BY <1>6, <1>7

-----------------------------------------------------------------------------
(* The invariant                                                           *)

Top == MaxNodes + FirstSequence

Scalars ==
  /\ view \in Nat
  /\ active \in BOOLEAN
  /\ lastSequence \in [Address -> Nat]
  /\ lastConsSeq \in Nat

\* Nodes are made one after the other, each after its parent.
GoodNode(h, n) ==
  /\ n \in Node
  /\ n.sequence <= h + FirstSequence
  /\ n.parent < h
  /\ h # 0 => n.parent \in 0 .. (h - 1)

TreePart ==
  /\ \E n \in Hash : node \in [0 .. n -> Node]
  /\ \A h \in DOMAIN node : GoodNode(h, node[h])
  /\ nodes \subseteq DOMAIN node
  /\ TreeInv(Top)

CertPart == proof \in nodes /\ preCommit \subseteq nodes

MembersPart ==
  /\ DOMAIN members = Address
  /\ given \in [Address -> DOMAIN Lists]
  /\ EngineIdsCurrent

\* Until Self's validators change, who has signed is one of them.
GoodInst(i, vs) ==
  /\ IsInstance(i)
  /\ IsFiniteSet(i.voted) /\ IsFiniteSet(i.signers)
  /\ Cardinality(i.voted) <= Cardinality(i.signers)
  /\ i.changed \/ (i.members = vs /\ i.signers \subseteq DOMAIN vs)

InstPart ==
  /\ DOMAIN inst \subseteq nodes \ {0}
  /\ \A h \in DOMAIN inst : GoodInst(inst[h], Mine)

\* PROPOSEs and VOTEs are about what Self has made.
MsgPart == \A x \in msgs : Content(x.m).node \in DOMAIN inst

SignersOfDecide(d) == {PublicKeyToAddr(s) : s \in d.xbft.qc.signatures}

DecPart ==
  /\ \A d \in decides : Content(d).node \in DOMAIN inst /\ SignersOfDecide(d) \subseteq Address
  /\ CertificateAccepted

\* An object with a certificate is not of the first node: its node has a parent,
\* which update may lock.
GoodTree(t, hashes) ==
  /\ DOMAIN t \subseteq hashes
  /\ t \in [DOMAIN t -> Object]
  /\ \A h \in DOMAIN t : t[h].qcRef # "null" => h # 0

FollowersPart ==
  /\ DOMAIN tree = Follower
  /\ \A a \in Follower : GoodTree(tree[a], DOMAIN node)
  /\ lock \in [Follower -> Lock]

IInv ==
  /\ Scalars
  /\ TreePart
  /\ CertPart
  /\ MembersPart
  /\ InstPart
  /\ MsgPart
  /\ DecPart
  /\ FollowersPart

\* Every list of the ledger makes a validator set.
LEMMA ListSet ==
  ASSUME NEW k \in DOMAIN Lists
  PROVE  /\ Lists[k] \in Seq(Address) /\ Lists[k] # << >>
         /\ IsMembers(Set(Lists[k])) /\ IsFiniteSet(DOMAIN Set(Lists[k]))
<1>1. Lists[k] \in Seq(Address) \ {<< >>}
  BY ProposerAssumption, ElementOfSeq, LenProperties
<1>. QED  BY <1>1, SetType

\* The validators of an engine are a finite map.
LEMMA MembersType ==
  ASSUME MembersPart, NEW a \in Address
  PROVE  IsMembers(members[a]) /\ IsFiniteSet(DOMAIN members[a])
<1>1. members[a] = Set(Lists[given[a]]) /\ given[a] \in DOMAIN Lists
  BY DEF MembersPart, EngineIdsCurrent
<1>. QED  BY <1>1, ListSet

\* Who leads a view is a validator.
LEMMA LeaderHasId ==
  ASSUME MembersPart, Scalars, IsLeader
  PROVE  Self \in DOMAIN Mine /\ MyId \in Nat /\ MyId = Mine[Self]
<1>1. Self \in Address /\ IsMembers(Mine) /\ IsFiniteSet(DOMAIN Mine)
  BY MembersType, ProposerAssumption DEF Mine
<1>2. DOMAIN Mine # {} /\ LeaderId(Mine, view) = MyId
  BY DEF IsLeader, Leads, MyId
<1>3. Size(Mine) \in Nat \ {0}
  BY <1>1, <1>2, FS_CardinalityType, FS_EmptySet DEF Size
<1>4. view % Size(Mine) \in Nat
  BY <1>3 DEF Scalars
<1>5. MyId # -1
  BY <1>2, <1>4 DEF LeaderId
<1>6. Self \in DOMAIN Mine /\ MyId = Mine[Self]
  BY <1>5 DEF MyId, QueryId
<1>. QED  BY <1>2, <1>4, <1>6 DEF LeaderId

-----------------------------------------------------------------------------
(* The tree                                                                *)

\* The number of the nodes is the next hash.
LEMMA NextHash ==
  ASSUME TreePart
  PROVE  /\ Cardinality(DOMAIN node) \in Nat \ {0}
         /\ DOMAIN node = 0 .. (Cardinality(DOMAIN node) - 1)
         /\ DOMAIN node \subseteq Hash
         /\ node \in [DOMAIN node -> Node]
         /\ nodes \subseteq DOMAIN node
<1>1. PICK n \in Hash : node \in [0 .. n -> Node]
  BY DEF TreePart
<1>2. n \in Nat /\ n <= MaxNodes /\ MaxNodes \in Nat
  BY <1>1, ProposerAssumption DEF Hash
<1>3. Cardinality(0 .. n) = n + 1
  BY <1>2, FS_Interval, 0 \in Int, n \in Int
<1>4. DOMAIN node = 0 .. n /\ 0 .. n \subseteq Hash
  BY <1>1, <1>2 DEF Hash
<1>. QED  BY <1>1, <1>2, <1>3, <1>4 DEF TreePart

\* Sequences are natural numbers.
LEMMA SequenceType ==
  ASSUME TreePart
  PROVE  \A p \in DOMAIN node : node[p].sequence \in Nat /\ node[p].sequence + 1 \in Nat
<1>1. ASSUME NEW p \in DOMAIN node PROVE node[p].sequence \in Nat
  BY NextHash DEF Node
<1>2. \A n \in Nat : n + 1 \in Nat
  OBVIOUS
<1>. QED  BY <1>1, <1>2

\* Every node but the first has a parent.
LEMMA ParentIsNode ==
  ASSUME TreePart, NEW h \in DOMAIN node, h # 0
  PROVE  node[h].parent \in DOMAIN node /\ node[h].parent # h
<1>1. PICK n \in Nat : DOMAIN node = 0 .. n
  BY ProposerAssumption DEF TreePart, Hash
<1>2. h \in 0 .. n /\ node[h].parent \in 0 .. (h - 1)
  BY <1>1 DEF TreePart, GoodNode
<1>. QED  BY <1>1, <1>2

\* A new node on top of one there is.
LEMMA NewNodeGood ==
  ASSUME TreePart, Scalars, NEW p \in DOMAIN node, NEW signers \in SUBSET Address, NEW h, NEW n,
         h = Cardinality(DOMAIN node), h <= MaxNodes, n = NewNode(p, signers),
         node' = [g \in 0 .. h |-> IF g = h THEN n ELSE node[g]]
  PROVE  /\ h \in Hash /\ h # 0 /\ h \notin DOMAIN node /\ DOMAIN node' = DOMAIN node \cup {h}
         /\ node' \in [0 .. h -> Node]
         /\ node'[h] = n /\ \A g \in DOMAIN node : node'[g] = node[g]
         /\ \A g \in DOMAIN node' : GoodNode(g, node'[g])
         /\ n.sequence \in 0 .. Top /\ n.sequence \in Nat /\ n.parent = p /\ p # h
<1>1. /\ h \in Nat /\ h # 0 /\ DOMAIN node = 0 .. (h - 1) /\ node \in [DOMAIN node -> Node]
  BY NextHash
<1>2. /\ p \in Nat /\ p < h /\ node[p] \in Node /\ node[p].sequence <= p + FirstSequence
      /\ h \in Hash /\ p \in Hash /\ MaxNodes \in Nat
  BY <1>1, ProposerAssumption DEF TreePart, GoodNode, Hash
<1>3. /\ n.view = view /\ n.sequence = node[p].sequence + 1 /\ n.parent = p /\ n.signers = signers
      /\ node[p].sequence \in Nat
  BY <1>2 DEF NewNode, Node
<1>4. /\ n \in Node /\ n.sequence <= h + FirstSequence
      /\ n.sequence \in 0 .. Top /\ n.sequence \in Nat
  <2>1. n \in Node
    BY <1>2, <1>3 DEF Node, NewNode, Scalars
  <2>2. n.sequence <= h + FirstSequence /\ n.sequence \in 0 .. Top
    BY <1>2, <1>3 DEF FirstSequence, Top, Hash
  <2>. QED  BY <2>1, <2>2, <1>3
<1>5. node' \in [0 .. h -> Node] /\ node'[h] = n /\ \A g \in DOMAIN node : node'[g] = node[g]
  BY <1>1, <1>4
<1>6. DOMAIN node' = DOMAIN node \cup {h} /\ h \notin DOMAIN node
  BY <1>1, <1>5
<1>7. ASSUME NEW g \in DOMAIN node' PROVE GoodNode(g, node'[g])
  <2>1. CASE g = h
    <3>1. n.parent < h /\ n.parent \in 0 .. (h - 1)
      BY <1>1, <1>2, <1>3
    <3>2. GoodNode(h, n)
      BY <1>4, <3>1, Zenon DEF GoodNode
    <3>. QED  BY <1>5, <2>1, <3>2
  <2>2. CASE g # h
    <3>1. g \in DOMAIN node
      BY <1>6, <2>2
    <3>. QED  BY <1>5, <3>1 DEF TreePart
  <2>. QED  BY <2>1, <2>2
<1>. QED  BY <1>1, <1>2, <1>3, <1>4, <1>5, <1>6, <1>7

\* Self's tree takes the new node.
LEMMA NewNodeKeeps ==
  ASSUME TreePart, Scalars, NEW p \in nodes, NEW signers \in SUBSET Address, NEW h, NEW n,
         h = Cardinality(DOMAIN node), h <= MaxNodes, n = NewNode(p, signers), AppendNode(h, n),
         node' = [g \in 0 .. h |-> IF g = h THEN n ELSE node[g]]
  PROVE  TreePart'
<1>1. p \in DOMAIN node
  BY DEF TreePart
<1>2. /\ h \in Hash /\ DOMAIN node' = DOMAIN node \cup {h} /\ node' \in [0 .. h -> Node]
      /\ node'[h] = n /\ \A g \in DOMAIN node : node'[g] = node[g]
      /\ \A g \in DOMAIN node' : GoodNode(g, node'[g])
      /\ n.sequence \in 0 .. Top /\ n.parent # h
  BY <1>1, NewNodeGood
<1>3. Top \in Nat
  BY ProposerAssumption DEF Top, FirstSequence
<1>4. TreeInv(Top)'
  <2>1. TreeInv(Top) /\ \A g \in nodes : node'[g] = node[g]
    BY <1>2 DEF TreePart
  <2>. QED  BY <1>2, <1>3, <2>1, AppendKeepsTree DEF Top
<1>5. nodes' \subseteq DOMAIN node'
  BY <1>2 DEF TreePart, AppendNode
<1>. QED  BY <1>2, <1>4, <1>5 DEF TreePart

\* Another leader makes a node, which Self's tree has not.
LEMMA OthersNodeKeeps ==
  ASSUME TreePart, Scalars, NEW p \in DOMAIN node, NEW signers \in SUBSET Address, NEW h, NEW n,
         h = Cardinality(DOMAIN node), h <= MaxNodes, n = NewNode(p, signers),
         node' = [g \in 0 .. h |-> IF g = h THEN n ELSE node[g]],
         UNCHANGED <<nodes, leafNodes>>
  PROVE  TreePart'
<1>1. /\ h \in Hash /\ DOMAIN node' = DOMAIN node \cup {h} /\ node' \in [0 .. h -> Node]
      /\ \A g \in DOMAIN node : node'[g] = node[g]
      /\ \A g \in DOMAIN node' : GoodNode(g, node'[g])
  BY NewNodeGood
<1>2. \A g \in nodes : node'[g] = node[g]
  BY <1>1 DEF TreePart
<1>3. TreeInv(Top)'
  <2>1. TreeInv(Top) /\ nodes' = nodes /\ leafNodes' = leafNodes
    BY DEF TreePart
  <2>2. \A g \in nodes' : node'[g].sequence \in 0 .. Top
    BY <1>2, <2>1 DEF TreeInv
  <2>3. ASSUME NEW g \in nodes' PROVE LeafOrParent(g)'
    <3>1. CASE Holds(leafNodes, g)
      BY <2>1, <3>1 DEF LeafOrParent, Holds
    <3>2. CASE \E c \in nodes : node[c].parent = g /\ node[c].sequence = node[g].sequence + 1
      BY <1>2, <2>1, <3>2 DEF LeafOrParent
    <3>. QED  BY <2>1, <2>3, <3>1, <3>2 DEF TreeInv, LeafOrParent
  <2>. QED  BY <2>1, <2>2, <2>3 DEF TreeInv, Top
<1>4. nodes' \subseteq DOMAIN node'
  BY <1>1 DEF TreePart
<1>. QED  BY <1>1, <1>3, <1>4 DEF TreePart

\* Self's tree takes a node there is, once more or for the first time.
LEMMA AppendKeeps ==
  ASSUME TreePart, NEW h \in DOMAIN node, AppendNode(h, node[h]), UNCHANGED node
  PROVE  TreePart'
<1>1. /\ GoodNode(h, node[h]) /\ h \in Nat /\ h \in Hash /\ MaxNodes \in Nat
  BY NextHash, ProposerAssumption DEF TreePart, Hash
<1>2. node[h].sequence \in 0 .. Top /\ node[h].parent # h /\ Top \in Nat
  BY <1>1 DEF GoodNode, Top, Node, Hash, FirstSequence, NoHash
<1>3. TreeInv(Top)'
  BY <1>2, AppendKeepsTree DEF TreePart, Top
<1>4. nodes' \subseteq DOMAIN node'
  BY DEF TreePart, AppendNode
<1>. QED  BY <1>3, <1>4 DEF TreePart

\* Every certificate has signatures of engines.
LEMMA SignersType ==
  ASSUME DecPart, NEW p, NEW signers \in SignersOf(p)
  PROVE  signers \in SUBSET Address
<1>1. CASE p \in DOMAIN inst
  <2>1. SignersOf(p) = {SignersOfDecide(d) : d \in {e \in decides : Content(e).node = p}}
    BY <1>1 DEF SignersOf, SignersOfDecide
  <2>2. PICK d \in decides : signers = SignersOfDecide(d)
    BY <2>1
  <2>. QED  BY <2>2, Zenon DEF DecPart
<1>2. CASE p \notin DOMAIN inst
  BY <1>2, ProposerAssumption DEF SignersOf
<1>. QED  BY <1>1, <1>2

\* Every step keeps the tree.
LEMMA TreeStep ==
  ASSUME IInv, [Next]_vars
  PROVE  TreePart'
<1>. USE DEF IInv
<1>1. CASE \E signers \in SignersOf(proof) : Propose(signers)
  <2>1. PICK signers \in SignersOf(proof) : Propose(signers)
    BY <1>1
  <2>. DEFINE h == Cardinality(DOMAIN node)
              n == NewNode(proof, signers)
  <2>2. \/ UNCHANGED <<node, nodes, leafNodes>>
        \/ /\ h <= MaxNodes /\ AppendNode(h, n)
           /\ node' = [g \in 0 .. h |-> IF g = h THEN n ELSE node[g]]
    BY <2>1 DEF Propose
  <2>3. CASE UNCHANGED <<node, nodes, leafNodes>>
    BY <2>3 DEF TreePart, TreeInv, LeafOrParent, Holds
  <2>4. signers \in SUBSET Address
    BY SignersType
  <2>. QED  BY <2>2, <2>3, <2>4, NewNodeKeeps DEF CertPart
<1>2. CASE \E h \in DOMAIN node : LearnNode(h)
  BY <1>2, AppendKeeps DEF LearnNode
<1>3. CASE \E a \in Follower, p \in DOMAIN node : \E signers \in SignersOf(p) : OthersPropose(a, p, signers)
  <2>0. PICK a \in Follower, p \in DOMAIN node : \E signers \in SignersOf(p) : OthersPropose(a, p, signers)
    BY <1>3
  <2>1. PICK signers \in SignersOf(p) : OthersPropose(a, p, signers)
    BY <2>0
  <2>2. signers \in SUBSET Address
    BY SignersType
  <2>. QED  BY <2>1, <2>2, OthersNodeKeeps DEF OthersPropose
<1>4. CASE UNCHANGED <<node, nodes, leafNodes>>
  BY <1>4 DEF TreePart, TreeInv, LeafOrParent, Holds
<1>5. CASE \E k \in DOMAIN Lists : UpdateSelf(k)
  <2>1. proof \in DOMAIN node
    BY DEF CertPart, TreePart
  <2>. QED  BY <1>4, <1>5, <2>1, AppendKeeps DEF UpdateSelf
<1>. QED
  BY <1>1, <1>2, <1>3, <1>4, <1>5
     DEF Next, vars, Tick, OnTimeout, RecvVote, RecvPropose, RecvOthersPropose,
         RecvCertificate, Lose, LearnDecide, SetViewInActive, ViewChanged, UpdateFollower

\* Nodes are never taken away, and stay what they are.
LEMMA NodesStay ==
  ASSUME IInv, [Next]_vars
  PROVE  /\ nodes \subseteq nodes' /\ DOMAIN node \subseteq DOMAIN node'
         /\ DOMAIN inst \subseteq DOMAIN inst'
<1>. USE DEF IInv
<1>1. CASE \E signers \in SignersOf(proof) : Propose(signers)
  <2>1. PICK signers \in SignersOf(proof) : Propose(signers)
    BY <1>1
  <2>. DEFINE h == Cardinality(DOMAIN node)
              n == NewNode(proof, signers)
  <2>2. \/ UNCHANGED <<node, nodes, inst>>
        \/ /\ AppendNode(h, n)
           /\ node' = [g \in 0 .. h |-> IF g = h THEN n ELSE node[g]]
           /\ inst' = [g \in DOMAIN inst \cup {h} |-> IF g = h THEN NewInstance ELSE inst[g]]
    BY <2>1 DEF Propose
  <2>3. 0 .. (h - 1) \subseteq 0 .. h /\ DOMAIN node = 0 .. (h - 1)
    BY NextHash
  <2>. HIDE DEF h, n
  <2>. QED  BY <2>2, <2>3 DEF AppendNode
<1>2. CASE \E a \in Follower, p \in DOMAIN node : \E signers \in SignersOf(p) : OthersPropose(a, p, signers)
  <2>. DEFINE h == Cardinality(DOMAIN node)
  <2>1. DOMAIN node' = 0 .. h /\ UNCHANGED <<nodes, inst>>
    BY <1>2 DEF OthersPropose
  <2>2. 0 .. (h - 1) \subseteq 0 .. h /\ DOMAIN node = 0 .. (h - 1)
    BY NextHash
  <2>. QED  BY <2>1, <2>2
<1>3. CASE \E h \in DOMAIN node : LearnNode(h)
  BY <1>3 DEF LearnNode, AppendNode
<1>4. CASE \E k \in DOMAIN Lists : UpdateSelf(k)
  BY <1>4 DEF UpdateSelf, AppendNode
<1>5. CASE UNCHANGED <<node, nodes>> /\ DOMAIN inst' = DOMAIN inst
  BY <1>5
<1>. QED
  BY <1>1, <1>2, <1>3, <1>4, <1>5
     DEF Next, vars, Tick, OnTimeout, RecvVote, RecvPropose, RecvOthersPropose,
         RecvCertificate, Lose, LearnDecide, SetViewInActive, ViewChanged, UpdateFollower

\* The proof and the certified nodes are in the tree.
LEMMA CertStep ==
  ASSUME IInv, [Next]_vars
  PROVE  CertPart'
<1>. USE DEF IInv, CertPart
<1>1. nodes \subseteq nodes'
  BY NodesStay
<1>2. CASE \E x \in msgs : RecvVote(x)
  BY <1>1, <1>2 DEF RecvVote, InstPart
<1>3. CASE \E h \in DOMAIN node : LearnNode(h)
  BY <1>1, <1>3 DEF LearnNode
<1>4. CASE \E h \in nodes : LearnDecide(h) \/ ViewChanged(h)
  BY <1>1, <1>4 DEF LearnDecide, ViewChanged, Certify
<1>5. CASE \E k \in DOMAIN Lists : UpdateSelf(k)
  BY <1>1, <1>5 DEF UpdateSelf
<1>6. CASE UNCHANGED <<proof, preCommit>>
  BY <1>1, <1>6
<1>. QED
  BY <1>2, <1>3, <1>4, <1>5, <1>6
     DEF Next, vars, Propose, Tick, OnTimeout, RecvPropose, RecvOthersPropose,
         RecvCertificate, OthersPropose, Lose, SetViewInActive, UpdateFollower

\* An engine that is handed a list has the set of the list.
LEMMA GiveKeeps ==
  ASSUME MembersPart, NEW a \in Address, NEW k \in DOMAIN Lists, Give(a, k)
  PROVE  MembersPart' /\ \A b \in Address \ {a} : members'[b] = members[b]
<1>1. /\ given' = [given EXCEPT ![a] = k]
      /\ members' = [members EXCEPT ![a] = UpdateValidators(members[a], Lists[k])]
  BY DEF Give
<1>2. given' \in [Address -> DOMAIN Lists] /\ DOMAIN members' = Address
  BY <1>1 DEF MembersPart
<1>3. UpdateValidators(members[a], Lists[k]) = Set(Lists[k])
  <2>1. CASE Compare(members[a], Lists[k])
    BY <2>1, ListSet, Zenon DEF UpdateValidators
  <2>2. CASE ~ Compare(members[a], Lists[k])
    <3>1. Set(Lists[k]) = members[a]
      BY <2>2, ListSet, MembersType, CompareExact
    <3>. QED  BY <2>2, <3>1, Zenon DEF UpdateValidators
  <2>. QED  BY <2>1, <2>2
<1>4. members'[a] = Set(Lists[k]) /\ given'[a] = k
  BY <1>1, <1>3 DEF MembersPart
<1>5. \A b \in Address \ {a} : members'[b] = members[b] /\ given'[b] = given[b]
  BY <1>1 DEF MembersPart
<1>6. EngineIdsCurrent'
  BY <1>4, <1>5 DEF EngineIdsCurrent, MembersPart
<1>. QED  BY <1>2, <1>5, <1>6 DEF MembersPart

\* Every step keeps the engines' ids.
LEMMA MembersStep ==
  ASSUME IInv, [Next]_vars
  PROVE  MembersPart'
<1>. USE DEF IInv
<1>1. CASE \E k \in DOMAIN Lists : UpdateSelf(k)
  BY <1>1, GiveKeeps, ProposerAssumption DEF UpdateSelf
<1>2. CASE \E a \in Follower, k \in DOMAIN Lists, h \in DOMAIN node : UpdateFollower(a, k, h)
  BY <1>2, GiveKeeps DEF UpdateFollower, Follower
<1>3. CASE UNCHANGED <<members, given>>
  BY <1>3 DEF MembersPart, EngineIdsCurrent
<1>. QED
  BY <1>1, <1>2, <1>3
     DEF Next, vars, Propose, Tick, OnTimeout, RecvVote, RecvPropose, RecvOthersPropose,
         RecvCertificate, OthersPropose, Lose, LearnNode, LearnDecide, SetViewInActive,
         ViewChanged

\* What is under way is about the nodes that Self has made.
LEMMA MsgStep ==
  ASSUME IInv, [Next]_vars
  PROVE  MsgPart'
<1>. USE DEF IInv, MsgPart
<1>0. /\ DOMAIN inst \subseteq DOMAIN inst'
      /\ \A h, n : Content(Broadcast(h, n).m).node = h
  BY NodesStay DEF Broadcast, Message, newPropose, Env, Content, QcValue
<1>1. CASE \E signers \in SignersOf(proof) : Propose(signers)
  <2>1. PICK signers \in SignersOf(proof) : Propose(signers)
    BY <1>1
  <2>. DEFINE h == Cardinality(DOMAIN node)
              n == NewNode(proof, signers)
  <2>2. \/ UNCHANGED msgs
        \/ /\ msgs' = msgs \cup {Broadcast(h, n)}
           /\ DOMAIN inst' = DOMAIN inst \cup {h}
    BY <2>1 DEF Propose
  <2>. HIDE DEF h, n
  <2>. QED  BY <1>0, <2>2
<1>2. CASE OnTimeout
  <2>. DEFINE h == GetHighestLeafHash
  <2>1. h \in DOMAIN inst
    BY <1>2 DEF OnTimeout, NeedSendProposeAgain
  <2>2. msgs' \subseteq msgs \cup {Broadcast(h, node[h])}
    BY <1>2 DEF OnTimeout, Post
  <2>. HIDE DEF h
  <2>. QED  BY <1>0, <2>1, <2>2
<1>3. CASE \E a \in Follower, x \in msgs : RecvPropose(a, x)
  <2>1. PICK a \in Follower, x \in msgs : RecvPropose(a, x)
    BY <1>3
  <2>. DEFINE content == Content(x.m)
              vote == newVote(a, QueryId(members[a], a), content)
              to == QueryAddr(members[a], LeaderId(members[a], view))
  <2>2. msgs' \subseteq msgs \cup {Message(vote, to)}
    BY <2>1 DEF RecvPropose
  <2>3. Content(Message(vote, to).m) = content
    BY DEF Message, newVote, Env, Content
  <2>. HIDE DEF content, vote, to
  <2>4. content.node \in DOMAIN inst
    BY DEF content
  <2>. QED  BY <1>0, <2>2, <2>3, <2>4
<1>4. CASE msgs' \subseteq msgs
  BY <1>0, <1>4
<1>. QED
  BY <1>1, <1>2, <1>3, <1>4
     DEF Next, vars, Tick, RecvVote, RecvOthersPropose, RecvCertificate, OthersPropose, Lose,
         LearnNode, LearnDecide, SetViewInActive, ViewChanged, UpdateSelf, UpdateFollower

\* Every step keeps the counters in range.
LEMMA ScalarsStep ==
  ASSUME IInv, [Next]_vars
  PROVE  Scalars'
<1>. USE DEF IInv, Scalars
<1>0. \A p \in DOMAIN node : node[p].sequence \in Nat /\ node[p].sequence + 1 \in Nat
  BY SequenceType
<1>1. proof \in DOMAIN node
  BY DEF CertPart, TreePart
<1>2. CASE \E signers \in SignersOf(proof) : Propose(signers)
  <2>1. \A signers : NewNode(proof, signers).sequence \in Nat
    BY <1>0, <1>1 DEF NewNode
  <2>. QED  BY <1>2, <2>1 DEF Propose
<1>3. CASE \E h \in DOMAIN node : LearnNode(h)
  BY <1>0, <1>3 DEF LearnNode
<1>4. CASE \E k \in DOMAIN Lists : UpdateSelf(k)
  BY <1>0, <1>1, <1>4 DEF UpdateSelf
<1>5. CASE \E a \in Follower, x \in msgs : RecvPropose(a, x)
  <2>1. PICK a \in Follower, x \in msgs : RecvPropose(a, x)
    BY <1>5
  <2>2. Content(x.m).node \in DOMAIN node
    BY DEF MsgPart, InstPart, TreePart
  <2>. QED  BY <1>0, <2>1, <2>2 DEF RecvPropose, HandlePropose
<1>6. CASE \E a \in Follower, h \in DOMAIN node : RecvOthersPropose(a, h)
  BY <1>0, <1>6 DEF RecvOthersPropose, HandlePropose
<1>7. CASE \E a \in Follower, p \in DOMAIN node : \E signers \in SignersOf(p) : OthersPropose(a, p, signers)
  <2>1. \A p \in DOMAIN node : \A signers : NewNode(p, signers).sequence \in Nat
    BY <1>0 DEF NewNode
  <2>. QED  BY <1>7, <2>1 DEF OthersPropose
<1>8. CASE \E a \in Follower, k \in DOMAIN Lists, h \in DOMAIN node : UpdateFollower(a, k, h)
  BY <1>0, <1>8 DEF UpdateFollower, UpdateProof
<1>9. CASE SetViewInActive
  BY <1>9 DEF SetViewInActive
<1>10. CASE \E h \in nodes : ViewChanged(h)
  BY <1>10, ProposerAssumption DEF ViewChanged, Scalars
<1>11. CASE UNCHANGED <<view, active, lastSequence, lastConsSeq>>
  BY <1>11
<1>. QED
  BY <1>2, <1>3, <1>4, <1>5, <1>6, <1>7, <1>8, <1>9, <1>10, <1>11
     DEF Next, vars, Tick, OnTimeout, RecvVote, RecvCertificate, Lose, LearnDecide

-----------------------------------------------------------------------------
(* The followers                                                           *)

\* update locks a node that has a hash.
LEMMA LockAfterType ==
  ASSUME TreePart, NEW t, GoodTree(t, DOMAIN node), NEW p \in DOMAIN t, NEW l \in Lock
  PROVE  LockAfter(l, t, p) \in Lock
<1>. DEFINE q == node[p].parent
            b == t[p].qcRef = "held"
<1>1. CASE LockAfter(l, t, p) = l
  BY <1>1
<1>2. CASE LockAfter(l, t, p) # l
  <2>1. t[p].qcRef # "null" /\ LockAfter(l, t, p) = [node |-> q, held |-> b]
    BY <1>2, Zenon DEF LockAfter
  <2>2. p \in DOMAIN node /\ p # 0
    BY <2>1 DEF GoodTree
  <2>3. q \in Hash
    BY <2>2, ParentIsNode, NextHash
  <2>4. b \in BOOLEAN
    OBVIOUS
  <2>. QED  BY <2>1, <2>3, <2>4 DEF Lock
<1>. QED  BY <1>1, <1>2

\* A node that enters a tree.
LEMMA WithNodeType ==
  ASSUME NEW t, GoodTree(t, DOMAIN node), NEW h \in DOMAIN node, NEW k \in DOMAIN Lists,
         NEW qcRef \in {"null", "held"}, qcRef # "null" => h # 0
  PROVE  GoodTree(WithNode(t, h, Set(Lists[k]), qcRef), DOMAIN node)
<1>. DEFINE u == WithNode(t, h, Set(Lists[k]), qcRef)
            new == [members |-> Set(Lists[k]), qcRef |-> qcRef]
            Replaced(g) == [t[g] EXCEPT !.qcRef = "replaced"]
<1>1. /\ DOMAIN u = DOMAIN t \cup {h} /\ u[h] = new
      /\ \A g \in DOMAIN t \ {h} : u[g] = t[g] \/ (t[g].qcRef = "held" /\ u[g] = Replaced(g))
      /\ u = [g \in DOMAIN u |-> u[g]]
  BY DEF WithNode
<1>2. new \in Object /\ new.qcRef = qcRef
  BY DEF Object
<1>3. \A g \in DOMAIN t : t[g] \in Object
  BY DEF GoodTree
<1>4. \A g \in DOMAIN t : Replaced(g) \in Object /\ Replaced(g).qcRef = "replaced"
  BY <1>3 DEF Object
<1>. HIDE DEF u, new, Replaced
<1>5. ASSUME NEW g \in DOMAIN u
      PROVE  u[g] \in Object /\ (u[g].qcRef # "null" => g # 0) /\ g \in DOMAIN node
  <2>1. CASE g = h
    BY <1>1, <1>2, <2>1
  <2>2. CASE g # h
    <3>1. g \in DOMAIN t \ {h} /\ g \in DOMAIN node
      BY <1>1, <2>2 DEF GoodTree
    <3>2. CASE u[g] = t[g]
      BY <1>3, <3>1, <3>2 DEF GoodTree
    <3>3. CASE t[g].qcRef = "held" /\ u[g] = Replaced(g)
      BY <1>4, <3>1, <3>3 DEF GoodTree
    <3>. QED  BY <1>1, <3>1, <3>2, <3>3
  <2>. QED  BY <2>1, <2>2
<1>6. u \in [DOMAIN u -> Object]
  BY <1>1, <1>5
<1>7. GoodTree(u, DOMAIN node)
  BY <1>5, <1>6 DEF GoodTree
<1>. QED  BY <1>7 DEF u

\* The validators of an engine are those of one of the lists.
LEMMA MembersOfList ==
  ASSUME MembersPart, NEW a \in Address
  PROVE  \E k \in DOMAIN Lists : members[a] = Set(Lists[k])
BY DEF MembersPart, EngineIdsCurrent

\* What onPropose makes of a follower's tree and lock.
LEMMA HandleKeeps ==
  ASSUME TreePart, MembersPart, FollowersPart, NEW a \in Follower, NEW h \in DOMAIN node, h # 0,
         NEW votes, HandlePropose(a, h, votes), UNCHANGED node
  PROVE  FollowersPart'
<1>. DEFINE l == [lock[a] EXCEPT !.held = lock[a].held /\ lock[a].node # h]
            m == LockAfter(l, tree[a], node[h].parent)
            t == WithNode(tree[a], h, members[a], "held")
<1>1. /\ node[h].parent \in DOMAIN tree[a]
      /\ tree' = [tree EXCEPT ![a] = t] /\ lock' = [lock EXCEPT ![a] = m]
  BY DEF HandlePropose, KnowsQcNode, LockOnPropose
<1>2. GoodTree(tree[a], DOMAIN node) /\ lock[a] \in Lock /\ a \in Address
  BY DEF FollowersPart, Follower
<1>3. l \in Lock
  BY <1>2 DEF Lock
<1>. HIDE DEF l
<1>4. m \in Lock
  BY <1>1, <1>2, <1>3, LockAfterType
<1>5. GoodTree(t, DOMAIN node)
  <2>1. PICK k \in DOMAIN Lists : members[a] = Set(Lists[k])
    BY <1>2, MembersOfList
  <2>. QED  BY <1>2, <2>1, WithNodeType
<1>. HIDE DEF m, t
<1>6. lock' \in [Follower -> Lock]
  BY <1>1, <1>4 DEF FollowersPart
<1>7. DOMAIN tree' = Follower /\ \A b \in Follower : tree'[b] = IF b = a THEN t ELSE tree[b]
  BY <1>1 DEF FollowersPart
<1>8. \A b \in Follower : GoodTree(tree'[b], DOMAIN node')
  BY <1>5, <1>7 DEF FollowersPart, GoodTree
<1>. QED  BY <1>6, <1>7, <1>8 DEF FollowersPart

\* Every step keeps the followers' trees and locks.
LEMMA FollowersStep ==
  ASSUME IInv, [Next]_vars
  PROVE  FollowersPart'
<1>. USE DEF IInv
<1>0. DOMAIN node \subseteq DOMAIN node'
  BY NodesStay
<1>1. CASE \E a \in Follower, x \in msgs : RecvPropose(a, x)
  <2>1. PICK a \in Follower, x \in msgs : RecvPropose(a, x)
    BY <1>1
  <2>2. Content(x.m).node \in DOMAIN node /\ Content(x.m).node # 0
    BY DEF MsgPart, InstPart, TreePart
  <2>3. HandlePropose(a, Content(x.m).node, Votes(a, Content(x.m).node)) /\ UNCHANGED node
    BY <2>1 DEF RecvPropose
  <2>. QED  BY <2>2, <2>3, HandleKeeps
<1>2. CASE \E a \in Follower, h \in DOMAIN node : RecvOthersPropose(a, h)
  BY <1>2, HandleKeeps DEF RecvOthersPropose
<1>3. CASE \E a \in Follower, h \in DOMAIN node : RecvCertificate(a, h)
  <2>1. PICK a \in Follower, h \in DOMAIN node : RecvCertificate(a, h)
    BY <1>3
  <2>. DEFINE m == LockAfter(lock[a], tree[a], h)
  <2>2. h \in DOMAIN tree[a] /\ lock' = [lock EXCEPT ![a] = m] /\ UNCHANGED <<node, tree>>
    BY <2>1 DEF RecvCertificate
  <2>3. m \in Lock
    BY <2>2, LockAfterType DEF FollowersPart
  <2>. HIDE DEF m
  <2>. QED  BY <2>2, <2>3 DEF FollowersPart, GoodTree
<1>4. CASE \E a \in Follower, p \in DOMAIN node : \E signers \in SignersOf(p) : OthersPropose(a, p, signers)
  <2>0. PICK a \in Follower, p \in DOMAIN node : \E signers \in SignersOf(p) : OthersPropose(a, p, signers)
    BY <1>4
  <2>1. PICK signers \in SignersOf(p) : OthersPropose(a, p, signers)
    BY <2>0
  <2>. DEFINE h == Cardinality(DOMAIN node)
              o == [members |-> members[a], qcRef |-> "held"]
              t == [g \in DOMAIN tree[a] \cup {h} |-> IF g = h THEN o ELSE tree[a][g]]
  <2>2. /\ tree' = [tree EXCEPT ![a] = t] /\ UNCHANGED lock
        /\ DOMAIN node' = 0 .. h
    BY <2>1 DEF OthersPropose
  <2>3. h \in DOMAIN node' /\ h # 0
    BY <2>2, NextHash
  <2>4. o \in Object /\ a \in Address
    <3>1. a \in Address
      BY DEF Follower
    <3>2. PICK k \in DOMAIN Lists : members[a] = Set(Lists[k])
      BY <3>1, MembersOfList
    <3>. QED  BY <3>1, <3>2 DEF Object
  <2>. HIDE DEF h, o
  <2>5. GoodTree(t, DOMAIN node')
    <3>1. GoodTree(tree[a], DOMAIN node)
      BY DEF FollowersPart
    <3>2. /\ DOMAIN t = DOMAIN tree[a] \cup {h}
          /\ \A g \in DOMAIN t : t[g] = IF g = h THEN o ELSE tree[a][g]
      OBVIOUS
    <3>3. \A g \in DOMAIN t : t[g] \in Object /\ g \in DOMAIN node' /\ (t[g].qcRef # "null" => g # 0)
      BY <1>0, <2>3, <2>4, <3>1, <3>2 DEF GoodTree
    <3>4. t \in [DOMAIN t -> Object]
      BY <3>3
    <3>. HIDE DEF t
    <3>. QED  BY <3>3, <3>4 DEF GoodTree
  <2>. HIDE DEF t
  <2>6. DOMAIN tree' = Follower /\ \A b \in Follower : tree'[b] = IF b = a THEN t ELSE tree[b]
    BY <2>2 DEF FollowersPart
  <2>7. \A b \in Follower : GoodTree(tree'[b], DOMAIN node')
    BY <1>0, <2>5, <2>6 DEF FollowersPart, GoodTree
  <2>. QED  BY <2>2, <2>6, <2>7 DEF FollowersPart
<1>5. CASE \E a \in Follower, k \in DOMAIN Lists, h \in DOMAIN node : UpdateFollower(a, k, h)
  <2>1. PICK a \in Follower, k \in DOMAIN Lists, h \in DOMAIN node : UpdateFollower(a, k, h)
    BY <1>5
  <2>. DEFINE t == WithNode(tree[a], h, members[a], "null")
              l == [node |-> h, held |-> TRUE]
  <2>2. /\ UNCHANGED node
        /\ \/ UNCHANGED <<tree, lock>>
           \/ tree' = [tree EXCEPT ![a] = t] /\ lock' = [lock EXCEPT ![a] = l]
    BY <2>1 DEF UpdateFollower, UpdateProof
  <2>3. l \in Lock
    BY NextHash DEF Lock
  <2>4. GoodTree(t, DOMAIN node)
    <3>1. a \in Address /\ GoodTree(tree[a], DOMAIN node)
      BY DEF FollowersPart, Follower
    <3>2. PICK j \in DOMAIN Lists : members[a] = Set(Lists[j])
      BY <3>1, MembersOfList
    <3>. QED  BY <3>1, <3>2, WithNodeType
  <2>. HIDE DEF t, l
  <2>5. CASE UNCHANGED <<tree, lock>>
    BY <2>2, <2>5 DEF FollowersPart, GoodTree
  <2>6. CASE tree' = [tree EXCEPT ![a] = t] /\ lock' = [lock EXCEPT ![a] = l]
    <3>1. DOMAIN tree' = Follower /\ \A b \in Follower : tree'[b] = IF b = a THEN t ELSE tree[b]
      BY <2>6 DEF FollowersPart
    <3>2. \A b \in Follower : GoodTree(tree'[b], DOMAIN node')
      BY <2>2, <2>4, <3>1 DEF FollowersPart, GoodTree
    <3>3. lock' \in [Follower -> Lock]
      BY <2>3, <2>6 DEF FollowersPart
    <3>. QED  BY <3>1, <3>2, <3>3 DEF FollowersPart
  <2>. QED  BY <2>2, <2>5, <2>6
<1>6. CASE UNCHANGED <<tree, lock>>
  BY <1>0, <1>6 DEF FollowersPart, GoodTree
<1>. QED
  BY <1>1, <1>2, <1>3, <1>4, <1>5, <1>6
     DEF Next, vars, Propose, Tick, OnTimeout, RecvVote, Lose, LearnNode, LearnDecide,
         SetViewInActive, ViewChanged, UpdateSelf

-----------------------------------------------------------------------------
(* The instances                                                           *)

\* Time and the end of an instance do not touch its votes.
LEMMA FlagKeeps ==
  ASSUME NEW i, NEW vs, GoodInst(i, vs), NEW b \in BOOLEAN
  PROVE  GoodInst([i EXCEPT !.due = b], vs) /\ GoodInst([i EXCEPT !.ended = b], vs)
<1>. DEFINE j == [i EXCEPT !.due = b]
            k == [i EXCEPT !.ended = b]
<1>1. DOMAIN i = {"voted", "signers", "due", "ended", "members", "changed"}
  BY DEF GoodInst, IsInstance
<1>2. /\ DOMAIN j = DOMAIN i /\ j.due = b
      /\ j.voted = i.voted /\ j.signers = i.signers /\ j.ended = i.ended
      /\ j.members = i.members /\ j.changed = i.changed
  BY <1>1
<1>3. /\ DOMAIN k = DOMAIN i /\ k.ended = b
      /\ k.voted = i.voted /\ k.signers = i.signers /\ k.due = i.due
      /\ k.members = i.members /\ k.changed = i.changed
  BY <1>1
<1>. HIDE DEF j, k
<1>4. GoodInst(j, vs)
  BY <1>1, <1>2 DEF GoodInst, IsInstance
<1>5. GoodInst(k, vs)
  BY <1>1, <1>3 DEF GoodInst, IsInstance
<1>. QED  BY <1>4, <1>5 DEF j, k

\* A signature that is new comes with at most one vote.
LEMMA CountedKeeps ==
  ASSUME NEW i, NEW vs, GoodInst(i, vs), IsMembers(vs), NEW a \in DOMAIN vs, NEW id \in Nat
  PROVE  /\ GoodInst(Counted(i, a, id), vs)
         /\ Counted(i, a, id).members = i.members
         /\ Counted(i, a, id).changed = i.changed
<1>. DEFINE s == i.signers \cup {a}
            v == i.voted \cup {id}
            j == [i EXCEPT !.signers = s, !.voted = v]
<1>1. /\ DOMAIN i = {"voted", "signers", "due", "ended", "members", "changed"}
      /\ i.voted \in SUBSET Nat /\ i.signers \in SUBSET Address
      /\ IsFiniteSet(i.voted) /\ IsFiniteSet(i.signers)
      /\ Cardinality(i.voted) <= Cardinality(i.signers)
  BY DEF GoodInst, IsInstance
<1>2. CASE a \in i.signers
  BY <1>2, Zenon DEF Counted
<1>3. CASE a \notin i.signers
  <2>1. Counted(i, a, id) = j
    BY <1>3, Zenon DEF Counted
  <2>2. /\ s \in SUBSET Address /\ IsFiniteSet(s)
        /\ Cardinality(s) = Cardinality(i.signers) + 1
    BY <1>1, <1>3, FS_AddElement DEF IsMembers
  <2>3. /\ v \in SUBSET Nat /\ IsFiniteSet(v)
        /\ Cardinality(v) <= Cardinality(i.voted) + 1
    <3>1. v \in SUBSET Nat
      BY <1>1
    <3>2. /\ IsFiniteSet(v) /\ Cardinality(i.voted) \in Nat
          /\ \/ Cardinality(v) = Cardinality(i.voted)
             \/ Cardinality(v) = Cardinality(i.voted) + 1
      BY <1>1, FS_AddElement, FS_CardinalityType
    <3>. QED  BY <3>1, <3>2
  <2>4. Cardinality(v) <= Cardinality(s)
    <3>1. /\ Cardinality(v) \in Nat /\ Cardinality(s) \in Nat
          /\ Cardinality(i.voted) \in Nat /\ Cardinality(i.signers) \in Nat
      BY <1>1, <2>2, <2>3, FS_CardinalityType
    <3>. QED  BY <1>1, <2>2, <2>3, <3>1
  <2>5. i.signers \subseteq DOMAIN vs => s \subseteq DOMAIN vs
    OBVIOUS
  <2>. HIDE DEF s, v
  <2>6. /\ DOMAIN j = DOMAIN i /\ j.signers = s /\ j.voted = v
        /\ j.due = i.due /\ j.ended = i.ended
        /\ j.members = i.members /\ j.changed = i.changed
    BY <1>1
  <2>. HIDE DEF j
  <2>7. GoodInst(j, vs)
    BY <1>1, <2>2, <2>3, <2>4, <2>5, <2>6 DEF GoodInst, IsInstance
  <2>. QED  BY <2>1, <2>6, <2>7
<1>. QED  BY <1>2, <1>3

\* One instance changes.
LEMMA OneInst ==
  ASSUME InstPart, nodes \subseteq nodes', NEW h \in DOMAIN inst, NEW j,
         inst' = [inst EXCEPT ![h] = j], GoodInst(j, Mine), UNCHANGED members
  PROVE  InstPart'
BY DEF InstPart, Mine

\* A message that is accepted gives the sender's own id.
LEMMA SenderKnown ==
  ASSUME MembersPart, NEW m, CheckMsgItem(Mine, m)
  PROVE  ReplicaAddress(m) \in DOMAIN Mine /\ ReplicaId(m) \in Nat
<1>1. IsMembers(Mine)
  BY MembersType, ProposerAssumption DEF Mine
<1>. QED  BY <1>1 DEF CheckMsgItem, CheckSender, QueryId, IsMembers

\* What onVote makes of an instance.
LEMMA VoteKeeps ==
  ASSUME MembersPart, NEW i, GoodInst(i, Mine), NEW m, CheckMsgItem(Mine, m), NEW j,
         j = IF Cardinality(i.voted) >= QuorumSize(Mine) THEN i
             ELSE Counted(i, ReplicaAddress(m), ReplicaId(m))
  PROVE  /\ GoodInst(j, Mine) /\ GoodInst([j EXCEPT !.ended = TRUE], Mine)
         /\ j.members = i.members /\ j.changed = i.changed
<1>1. IsMembers(Mine) /\ ReplicaAddress(m) \in DOMAIN Mine /\ ReplicaId(m) \in Nat
  BY MembersType, SenderKnown, ProposerAssumption DEF Mine
<1>2. GoodInst(j, Mine) /\ j.members = i.members /\ j.changed = i.changed
  BY <1>1, CountedKeeps, Zenon
<1>. QED  BY <1>2, FlagKeeps, TRUE \in BOOLEAN

\* Every step keeps the instances.
LEMMA InstStep ==
  ASSUME IInv, [Next]_vars
  PROVE  InstPart'
<1>. USE DEF IInv
<1>0. nodes \subseteq nodes'
  BY NodesStay
<1>1. CASE \E signers \in SignersOf(proof) : Propose(signers)
  <2>0. PICK signers \in SignersOf(proof) : Propose(signers)
    BY <1>1
  <2>. DEFINE h == Cardinality(DOMAIN node)
              n == NewNode(proof, signers)
  <2>1. CASE UNCHANGED inst
    BY <1>0, <2>0, <2>1 DEF Propose, InstPart, Mine
  <2>2. CASE inst' # inst
    <3>1. /\ AppendNode(h, n) /\ IsLeader /\ UNCHANGED members
          /\ inst' = [g \in DOMAIN inst \cup {h} |-> IF g = h THEN NewInstance ELSE inst[g]]
      BY <2>0, <2>2 DEF Propose
    <3>2. Self \in DOMAIN Mine /\ MyId \in Nat /\ IsMembers(Mine) /\ Self \in Address
      BY <3>1, LeaderHasId, MembersType, ProposerAssumption DEF Mine
    <3>3. GoodInst(NewInstance, Mine)
      <4>. DEFINE i == NewInstance
      <4>1. /\ DOMAIN i = {"voted", "signers", "due", "ended", "members", "changed"}
            /\ i.voted = {MyId} /\ i.signers = {Self} /\ i.due = FALSE /\ i.ended = FALSE
            /\ i.members = Mine /\ i.changed = FALSE
        BY DEF NewInstance
      <4>. HIDE DEF i
      <4>2. /\ IsFiniteSet({MyId}) /\ Cardinality({MyId}) = 1
            /\ IsFiniteSet({Self}) /\ Cardinality({Self}) = 1
        BY FS_Singleton
      <4>3. GoodInst(i, Mine)
        <5>1. IsInstance(i)
          BY <3>2, <4>1 DEF IsInstance
        <5>2. /\ IsFiniteSet(i.voted) /\ IsFiniteSet(i.signers)
              /\ Cardinality(i.voted) <= Cardinality(i.signers)
          BY <4>1, <4>2
        <5>. QED  BY <3>2, <4>1, <5>1, <5>2, Zenon DEF GoodInst
      <4>. QED  BY <4>3 DEF i
    <3>4. h \in nodes' /\ h # 0
      BY <3>1, NextHash DEF AppendNode
    <3>. HIDE DEF h
    <3>5. DOMAIN inst' \subseteq nodes' \ {0}
      BY <1>0, <3>1, <3>4 DEF InstPart
    <3>6. \A g \in DOMAIN inst' : GoodInst(inst'[g], Mine)
      BY <3>1, <3>3 DEF InstPart
    <3>. QED  BY <3>1, <3>5, <3>6 DEF InstPart, Mine
  <2>. QED  BY <2>1, <2>2
<1>2. CASE \E h \in DOMAIN inst : Tick(h)
  <2>1. PICK h \in DOMAIN inst : Tick(h)
    BY <1>2
  <2>2. GoodInst([inst[h] EXCEPT !.due = TRUE], Mine)
    BY FlagKeeps DEF InstPart
  <2>3. inst' = [inst EXCEPT ![h] = [inst[h] EXCEPT !.due = TRUE]] /\ UNCHANGED members
    BY <2>1 DEF Tick
  <2>. QED  BY <1>0, <2>2, <2>3, OneInst
<1>3. CASE OnTimeout
  <2>. DEFINE h == GetHighestLeafHash
  <2>1. /\ h \in DOMAIN inst /\ UNCHANGED members
        /\ inst' = [inst EXCEPT ![h] = [inst[h] EXCEPT !.due = FALSE]]
    BY <1>3 DEF OnTimeout, NeedSendProposeAgain
  <2>. HIDE DEF h
  <2>2. GoodInst([inst[h] EXCEPT !.due = FALSE], Mine)
    BY <2>1, FlagKeeps DEF InstPart
  <2>. QED  BY <1>0, <2>1, <2>2, OneInst
<1>4. CASE \E x \in msgs : RecvVote(x)
  <2>1. PICK x \in msgs : RecvVote(x)
    BY <1>4
  <2>. DEFINE h == Content(x.m).node
              i == inst[h]
              j == IF Cardinality(i.voted) >= QuorumSize(Mine) THEN i
                   ELSE Counted(i, ReplicaAddress(x.m), ReplicaId(x.m))
  <2>2. /\ h \in DOMAIN inst /\ UNCHANGED members /\ CheckMsgItem(Mine, x.m)
        /\ \/ inst' = [inst EXCEPT ![h] = [j EXCEPT !.ended = TRUE]]
           \/ inst' = [inst EXCEPT ![h] = j]
    BY <2>1, Zenon DEF RecvVote
  <2>3. GoodInst(i, Mine)
    BY <2>2 DEF InstPart
  <2>. HIDE DEF h, i
  <2>4. GoodInst(j, Mine) /\ GoodInst([j EXCEPT !.ended = TRUE], Mine)
    BY <2>2, <2>3, VoteKeeps
  <2>. HIDE DEF j
  <2>. QED  BY <1>0, <2>2, <2>4, OneInst
<1>5. CASE \E k \in DOMAIN Lists : UpdateSelf(k)
  <2>. DEFINE c == members'[Self] # members[Self]
  <2>1. /\ DOMAIN inst' = DOMAIN inst
        /\ \A h \in DOMAIN inst :
             inst'[h] = [inst[h] EXCEPT !.changed = inst[h].changed \/ c]
    BY <1>5 DEF UpdateSelf
  <2>2. ASSUME NEW h \in DOMAIN inst PROVE GoodInst(inst'[h], Mine')
    <3>. DEFINE i == inst[h]
                b == i.changed \/ c
                j == [i EXCEPT !.changed = b]
    <3>1. GoodInst(i, Mine)
      BY DEF InstPart
    <3>2. b \in BOOLEAN /\ (~ b => ~ i.changed /\ Mine' = Mine)
      BY <3>1, Zenon DEF GoodInst, IsInstance, Mine
    <3>3. inst'[h] = j
      BY <2>1
    <3>. HIDE DEF b, c, i
    <3>4. /\ DOMAIN j = DOMAIN i /\ j.changed = b
          /\ j.voted = i.voted /\ j.signers = i.signers /\ j.due = i.due
          /\ j.ended = i.ended /\ j.members = i.members
      BY <3>1 DEF GoodInst, IsInstance
    <3>. HIDE DEF j
    <3>5. GoodInst(j, Mine')
      BY <3>1, <3>2, <3>4 DEF GoodInst, IsInstance
    <3>. QED  BY <3>3, <3>5
  <2>. QED  BY <1>0, <2>1, <2>2 DEF InstPart
<1>6. CASE \E a \in Follower, k \in DOMAIN Lists, h \in DOMAIN node : UpdateFollower(a, k, h)
  <2>1. UNCHANGED <<inst, Mine>>
    BY <1>6, GiveKeeps, ProposerAssumption DEF UpdateFollower, Mine, Follower
  <2>. QED  BY <1>0, <2>1 DEF InstPart
<1>7. CASE UNCHANGED <<inst, members>>
  BY <1>0, <1>7 DEF InstPart, Mine
<1>. QED
  BY <1>1, <1>2, <1>3, <1>4, <1>5, <1>6, <1>7
     DEF Next, vars, RecvPropose, RecvOthersPropose, RecvCertificate, OthersPropose, Lose,
         LearnNode, LearnDecide, SetViewInActive, ViewChanged

-----------------------------------------------------------------------------
(* The certificates                                                        *)

\* The DECIDE of h, as its leader makes it, passes every check.
LEMMA CertificateMade ==
  ASSUME MembersPart, Scalars, IsLeader, NEW h, NEW j, GoodInst(j, Mine), ~ j.changed,
         Cardinality(j.voted) = QuorumSize(Mine), NEW d,
         d = newDecide(Self, MyId, Qc(h, j.signers))
  PROVE  CheckMsgItem(j.members, d) /\ CheckQc(j.members, d.xbft.qc)
<1>. DEFINE content == QcValue(h, node[h])
            signatures == {Sign(a, content) : a \in j.signers}
<1>1. /\ j.members = Mine /\ j.signers \subseteq DOMAIN Mine
      /\ IsFiniteSet(j.signers) /\ IsFiniteSet(j.voted)
      /\ Cardinality(j.voted) <= Cardinality(j.signers)
  BY DEF GoodInst
<1>2. /\ d.xbft.type = "DECIDE" /\ d.xbft.id = MyId
      /\ d.xbft.qc.content = content /\ d.xbft.qc.signatures = signatures
      /\ d.signature.by = Self /\ d.signature.text = d.xbft
  BY DEF newDecide, Env, Sign, Qc
<1>. HIDE DEF content
<1>3. CheckMsgItem(Mine, d)
  <2>1. QueryId(Mine, Self) = MyId /\ MyId # -1
    BY LeaderHasId DEF QueryId
  <2>2. ReplicaAddress(d) = Self /\ ReplicaId(d) = MyId
    BY <1>2 DEF ReplicaAddress, PublicKeyToAddr, ReplicaId
  <2>. QED  BY <1>2, <2>1, <2>2 DEF CheckMsgItem, CheckSender, CheckParts, Verify
<1>4. CheckQc(Mine, d.xbft.qc)
  <2>1. \A a \in j.signers : QueryId(Mine, a) # -1
    <3>1. IsMembers(Mine)
      BY MembersType, ProposerAssumption DEF Mine
    <3>. QED  BY <1>1, <3>1 DEF QueryId, IsMembers
  <2>2. \A a : /\ PublicKeyToAddr(Sign(a, content)) = a
               /\ Verify(content, Sign(a, content))
    BY DEF PublicKeyToAddr, Sign, Verify
  <2>3. j.signers \subseteq ValidSigners(Mine, d.xbft.qc)
    <3>1. ASSUME NEW a \in j.signers PROVE a \in ValidSigners(Mine, d.xbft.qc)
      <4>1. Sign(a, content) \in signatures
        OBVIOUS
      <4>. QED  BY <1>2, <2>1, <2>2, <4>1 DEF ValidSigners
    <3>. QED  BY <3>1
  <2>4. ValidSigners(Mine, d.xbft.qc) \subseteq j.signers
    <3>1. ASSUME NEW a \in ValidSigners(Mine, d.xbft.qc) PROVE a \in j.signers
      <4>1. PICK s \in signatures : a = PublicKeyToAddr(s)
        BY <1>2 DEF ValidSigners
      <4>. QED  BY <2>2, <4>1
    <3>. QED  BY <3>1
  <2>5. ValidSigners(Mine, d.xbft.qc) = j.signers
    BY <2>3, <2>4
  <2>6. Cardinality(j.signers) >= QuorumSize(Mine)
    BY <1>1, FS_CardinalityType
  <2>. QED  BY <2>5, <2>6 DEF CheckQc
<1>. QED  BY <1>1, <1>3, <1>4

\* What the instances keep is all that certificates depend on.
LEMMA DecFrame ==
  ASSUME DecPart, UNCHANGED decides, DOMAIN inst \subseteq DOMAIN inst',
         \A h \in DOMAIN inst : /\ inst'[h].members = inst[h].members
                                /\ inst[h].changed => inst'[h].changed
  PROVE  DecPart'
<1>1. ASSUME NEW d \in decides, NEW h, h = Content(d).node
      PROVE  inst'[h].changed \/ (CheckMsgItem(inst'[h].members, d) /\ CheckQc(inst'[h].members, d.xbft.qc))
  <2>1. h \in DOMAIN inst
    BY <1>1 DEF DecPart
  <2>2. inst[h].changed \/ (CheckMsgItem(inst[h].members, d) /\ CheckQc(inst[h].members, d.xbft.qc))
    BY <1>1 DEF DecPart, CertificateAccepted
  <2>3. inst'[h].members = inst[h].members /\ (inst[h].changed => inst'[h].changed)
    BY <2>1
  <2>. QED  BY <2>2, <2>3, Zenon
<1>. QED  BY <1>1 DEF DecPart, CertificateAccepted

\* Every step keeps the certificates.
LEMMA DecStep ==
  ASSUME IInv, [Next]_vars
  PROVE  DecPart'
<1>. USE DEF IInv
<1>1. CASE \E signers \in SignersOf(proof) : Propose(signers)
  <2>1. Cardinality(DOMAIN node) \notin DOMAIN inst
    <3>1. DOMAIN inst \subseteq DOMAIN node
      BY DEF InstPart, TreePart
    <3>. QED  BY <3>1, NextHash
  <2>. QED  BY <1>1, <2>1, DecFrame DEF Propose
<1>2. CASE \E h \in DOMAIN inst : Tick(h)
  <2>1. PICK h \in DOMAIN inst : Tick(h)
    BY <1>2
  <2>2. UNCHANGED decides /\ inst' = [inst EXCEPT ![h] = [inst[h] EXCEPT !.due = TRUE]]
    BY <2>1 DEF Tick
  <2>. QED  BY <2>2, DecFrame
<1>3. CASE OnTimeout
  <2>. DEFINE h == GetHighestLeafHash
  <2>1. UNCHANGED decides /\ inst' = [inst EXCEPT ![h] = [inst[h] EXCEPT !.due = FALSE]]
    BY <1>3 DEF OnTimeout
  <2>. HIDE DEF h
  <2>. QED  BY <2>1, DecFrame
<1>4. CASE \E x \in msgs : RecvVote(x)
  <2>1. PICK x \in msgs : RecvVote(x)
    BY <1>4
  <2>. DEFINE h == Content(x.m).node
              i == inst[h]
              j == IF Cardinality(i.voted) >= QuorumSize(Mine) THEN i
                   ELSE Counted(i, ReplicaAddress(x.m), ReplicaId(x.m))
              k == [j EXCEPT !.ended = TRUE]
              d == newDecide(Self, MyId, Qc(h, j.signers))
  <2>2. /\ h \in DOMAIN inst /\ CheckMsgItem(Mine, x.m) /\ IsLeader
        /\ \/ /\ MakesQuorum(i, j)
              /\ inst' = [inst EXCEPT ![h] = k]
              /\ decides' = decides \cup {d}
           \/ inst' = [inst EXCEPT ![h] = j] /\ UNCHANGED decides
    BY <2>1, Zenon DEF RecvVote
  <2>3. GoodInst(i, Mine)
    BY <2>2 DEF InstPart
  <2>. HIDE DEF h
  <2>4. GoodInst(j, Mine) /\ j.members = i.members /\ j.changed = i.changed
    <3>. HIDE DEF i
    <3>. QED  BY <2>2, <2>3, VoteKeeps
  <2>. HIDE DEF j
  <2>5. k.members = i.members /\ k.changed = i.changed
    BY <2>4 DEF GoodInst, IsInstance
  <2>. HIDE DEF k
  <2>6. CASE inst' = [inst EXCEPT ![h] = j] /\ UNCHANGED decides
    BY <2>4, <2>6, DecFrame
  <2>7. CASE /\ MakesQuorum(i, j)
             /\ inst' = [inst EXCEPT ![h] = k]
             /\ decides' = decides \cup {d}
    <3>1. /\ DOMAIN inst' = DOMAIN inst
          /\ \A g \in DOMAIN inst : /\ inst'[g].members = inst[g].members
                                    /\ inst'[g].changed = inst[g].changed
      BY <2>5, <2>7
    <3>2. Content(d).node = h
      BY DEF Content, newDecide, Env, Qc, QcValue
    <3>3. \/ i.changed
          \/ CheckMsgItem(i.members, d) /\ CheckQc(i.members, d.xbft.qc)
      BY <2>2, <2>4, <2>7, CertificateMade DEF MakesQuorum
    <3>6. SignersOfDecide(d) \subseteq Address
      <4>1. d.xbft.qc.signatures = {Sign(a, QcValue(h, node[h])) : a \in j.signers}
        BY DEF newDecide, Env, Qc
      <4>2. j.signers \subseteq Address
        BY <2>4 DEF GoodInst, IsInstance
      <4>. QED  BY <4>1, <4>2 DEF SignersOfDecide, PublicKeyToAddr, Sign
    <3>. HIDE DEF d
    <3>4. \A e \in decides' : Content(e).node \in DOMAIN inst' /\ SignersOfDecide(e) \subseteq Address
      BY <2>2, <2>7, <3>1, <3>2, <3>6 DEF DecPart
    <3>5. ASSUME NEW e \in decides', NEW g, g = Content(e).node
          PROVE  inst'[g].changed \/ (CheckMsgItem(inst'[g].members, e) /\ CheckQc(inst'[g].members, e.xbft.qc))
      <4>1. CASE e = d
        BY <2>2, <3>1, <3>2, <3>3, <3>5, <4>1
      <4>2. CASE e \in decides
        BY <3>1, <3>5, <4>2 DEF DecPart, CertificateAccepted
      <4>. QED  BY <2>7, <4>1, <4>2
    <3>. QED  BY <3>4, <3>5 DEF DecPart, CertificateAccepted
  <2>. QED  BY <2>2, <2>6, <2>7
<1>5. CASE \E k \in DOMAIN Lists : UpdateSelf(k)
  <2>. DEFINE c == members'[Self] # members[Self]
  <2>1. /\ DOMAIN inst' = DOMAIN inst /\ UNCHANGED decides
        /\ \A h \in DOMAIN inst :
             inst'[h] = [inst[h] EXCEPT !.changed = inst[h].changed \/ c]
    BY <1>5 DEF UpdateSelf
  <2>. HIDE DEF c
  <2>2. ASSUME NEW h \in DOMAIN inst
        PROVE  inst'[h].members = inst[h].members /\ (inst[h].changed => inst'[h].changed)
    <3>. DEFINE i == inst[h]
                b == i.changed \/ c
    <3>1. DOMAIN i = {"voted", "signers", "due", "ended", "members", "changed"}
      BY DEF InstPart, GoodInst, IsInstance
    <3>2. inst'[h] = [i EXCEPT !.changed = b] /\ (i.changed => b)
      BY <2>1
    <3>. HIDE DEF b
    <3>3. inst'[h].members = i.members /\ inst'[h].changed = b
      BY <3>1, <3>2
    <3>. QED  BY <3>2, <3>3
  <2>. QED  BY <2>1, <2>2, DecFrame
<1>6. CASE UNCHANGED <<inst, decides>>
  BY <1>6, DecFrame
<1>. QED
  BY <1>1, <1>2, <1>3, <1>4, <1>5, <1>6
     DEF Next, vars, RecvPropose, RecvOthersPropose, RecvCertificate, OthersPropose, Lose,
         LearnNode, LearnDecide, SetViewInActive, ViewChanged, UpdateFollower

-----------------------------------------------------------------------------
(* The theorems                                                            *)

\* The engine starts in the invariant.
LEMMA InitInv == Init => IInv
<1>. SUFFICES ASSUME Init PROVE IInv
  OBVIOUS
<1>. USE DEF Init
<1>1. /\ 0 \in Hash /\ Top \in Nat /\ 2 \in 0 .. Top
  BY ProposerAssumption DEF Hash, Top, FirstSequence
<1>2. Scalars
  BY <1>1 DEF Scalars, FirstSequence
<1>3. TreePart
  <2>1. 0 .. 0 = {0} /\ nodes = {0}
    OBVIOUS
  <2>2. node[0] = [view |-> 0, sequence |-> 2, parent |-> NoHash, signers |-> {}] /\ node[0] \in Node
    BY <1>1 DEF Node, FirstSequence
  <2>3. node \in [0 .. 0 -> Node]
    BY <2>1, <2>2
  <2>4. GoodNode(0, node[0])
    BY <2>2 DEF GoodNode, FirstSequence, NoHash
  <2>5. leafNodes \in Seq(nodes) /\ 1 \in DOMAIN leafNodes /\ leafNodes[1] = 0
    OBVIOUS
  <2>6. TreeInv(Top)
    <3>1. \A h \in nodes : LeafOrParent(h)
      BY <2>1, <2>5 DEF LeafOrParent, Holds
    <3>2. \A h \in nodes : node[h].sequence \in 0 .. Top
      BY <1>1, <2>1, <2>2
    <3>. QED  BY <2>1, <2>5, <3>1, <3>2 DEF TreeInv
  <2>7. nodes = DOMAIN node
    BY <2>1
  <2>. QED  BY <1>1, <2>1, <2>3, <2>4, <2>6, <2>7 DEF TreePart
<1>0. PICK k \in DOMAIN Lists :
        /\ members = [a \in Address |-> Set(Lists[k])]
        /\ given = [a \in Address |-> k]
        /\ tree = [a \in Follower |-> [h \in {0} |-> [members |-> Set(Lists[k]), qcRef |-> "null"]]]
  OBVIOUS
<1>4. MembersPart
  BY <1>0 DEF MembersPart, EngineIdsCurrent
<1>5. CertPart /\ InstPart /\ MsgPart /\ DecPart
  BY DEF CertPart, InstPart, MsgPart, DecPart, CertificateAccepted
<1>6. FollowersPart
  <2>1. [members |-> Set(Lists[k]), qcRef |-> "null"] \in Object
    BY DEF Object
  <2>2. \A a \in Follower : GoodTree(tree[a], DOMAIN node)
    BY <1>0, <2>1 DEF GoodTree
  <2>3. [node |-> 0, held |-> TRUE] \in Lock
    BY <1>1 DEF Lock
  <2>. QED  BY <2>2, <2>3 DEF FollowersPart
<1>. QED  BY <1>2, <1>3, <1>4, <1>5, <1>6 DEF IInv

\* Every step keeps the invariant.
LEMMA StepInv == IInv /\ [Next]_vars => IInv'
BY TreeStep, CertStep, MembersStep, MsgStep, ScalarsStep, InstStep, DecStep, FollowersStep DEF IInv

\* The engine is always in the invariant.
THEOREM Invariance == Spec => []IInv
BY InitInv, StepInv, PTL DEF Spec

\* The invariant implies the types.
LEMMA InvTypeOK == IInv => TypeOK
<1>. SUFFICES ASSUME IInv PROVE TypeOK
  OBVIOUS
<1>1. nodes \subseteq DOMAIN node /\ \E n \in Hash : node \in [0 .. n -> Node]
  BY DEF IInv, TreePart
<1>2. \A a \in Address : IsMembers(members[a])
  BY MembersType DEF IInv
<1>3. \A a \in Follower : DOMAIN tree[a] \subseteq DOMAIN node /\ tree[a] \in [DOMAIN tree[a] -> Object]
  BY DEF IInv, FollowersPart, GoodTree
<1>4. DOMAIN tree = Follower /\ lock \in [Follower -> Lock] /\ DOMAIN inst \subseteq nodes
  BY DEF IInv, FollowersPart, InstPart
<1>. QED
  BY <1>1, <1>2, <1>3, <1>4
     DEF IInv, Scalars, TreePart, TreeInv, CertPart, MembersPart, InstPart, GoodInst, TypeOK

\* The invariant implies what the tree promises.
LEMMA InvHighestLeaf == IInv => HighestLeafIsHighest
<1>. SUFFICES ASSUME IInv PROVE HighestLeafIsHighest
  OBVIOUS
<1>1. Top \in Nat /\ TreeInv(Top)
  BY ProposerAssumption DEF IInv, TreePart, Top, FirstSequence
<1>. QED  BY <1>1, HighestLeaf

\* The invariant has the other three properties as parts.
LEMMA InvOthers == IInv => VotesWithinSignatures /\ CertificateAccepted /\ EngineIdsCurrent
BY DEF IInv, InstPart, GoodInst, DecPart, MembersPart, VotesWithinSignatures

\* Every variable keeps to its type.
THEOREM TypeCorrect == Spec => []TypeOK
BY Invariance, InvTypeOK, PTL

\* The highest leaf is a highest node of the tree, whatever nodes come, in whatever
\* order and however often (XbftNodeTree.cpp:116).
THEOREM HighestLeafFound == Spec => []HighestLeafIsHighest
BY Invariance, InvHighestLeaf, PTL

\* Every vote that is counted has its signature in the certificate, also when the
\* application changes the ids of the validators (XbftQc.cpp:42, XbftNode.cpp:167).
THEOREM VotesSigned == Spec => []VotesWithinSignatures
BY Invariance, InvOthers, PTL

\* A DECIDE passes the checks of every follower that has the node with the
\* leader's validators (XbftConsensus.cpp:416, XbftNode.cpp:209).
THEOREM DecidesAccepted == Spec => []CertificateAccepted
BY Invariance, InvOthers, PTL

\* An engine works with the ids of the list it was handed last: Compare never
\* takes a change for none (XbftConsensus.cpp:86, XbftValidatorSet.cpp:75).
THEOREM IdsCurrent == Spec => []EngineIdsCurrent
BY Invariance, InvOthers, PTL
=============================================================================
