------------------------- MODULE XbftSystem_proofs -------------------------
(***************************************************************************)
(* The engine implements the specifications of its two components, for     *)
(* every number of validators and every bound, so that what is proved of   *)
(* each of them in its own environment holds of the two together.          *)
(***************************************************************************)
EXTENDS XbftSystem, XbftConsensusLeaders_proofs

PP == INSTANCE XbftPaceMaker_proofs
        WITH MaxView <- MaxView - 1,
             HighQc <- Qc,
             highQc <- [r \in Replica |-> rep[r].highQc]

-----------------------------------------------------------------------------
(* The highest certificate of a replica                                    *)

\* The sequence of the highest certificate is one that the replica has seen.
HighQcSeen ==
  \A r \in Replica : /\ rep[r].highQc.sequence <= rep[r].lastSequence
                     /\ rep[r].highQc.sequence <= MaxNodes + 1

\* A chain is no longer than the nodes that were made: a node that was voted for
\* has at most the sequence of its place among them.
LEMMA LinkedBounded ==
  ASSUME ChainInv, NEW h \in DOMAIN node \ {Genesis}, Linked(h, Certificates)
  PROVE  node[h].sequence <= MaxNodes + 1
<1>. DEFINE C == {k \in DOMAIN node \ {Genesis} :
                    Linked(k, Certificates) /\ ~ (node[k].sequence <= k + 1)}
<1>1. /\ TypeOK /\ Genesis = 0
      /\ \A k \in DOMAIN node : k \in Nat /\ k <= MaxNodes /\ node[k].sequence \in Nat
  BY NodeType, ConsensusAssumption DEF ChainInv, IInv, Hash, Genesis
<1>2. C = {}
  <2>. SUFFICES ASSUME C # {} PROVE FALSE
    OBVIOUS
  <2>1. PICK k \in C : \A j \in C : ~ (<<j, k>> \in OpToRel(<, Nat))
    <3>1. C \subseteq Nat
      BY <1>1
    <3>. HIDE DEF C
    <3>. QED  BY <3>1, NatLessThanWellFounded, WFMin, Zenon
  <2>2. /\ k \in DOMAIN node \ {Genesis} /\ k \in Nat /\ k # 0
        /\ Linked(k, Certificates) /\ ~ (node[k].sequence <= k + 1)
    BY <1>1
  <2>. DEFINE g == node[k].parent
  <2>3. g \in DOMAIN node /\ g < k /\ node[k].sequence = node[g].sequence + 1
    BY <2>2 DEF ChainInv, NodesLinked, Linked
  <2>4. node[k].sequence > 2
    BY <1>1, <2>2
  <2>5. node[k].qc \in Certificates /\ node[k].qc.node = g
    BY <2>2, <2>4 DEF Linked
  <2>6. g \in DOMAIN node \ {Genesis} /\ Linked(g, Certificates)
    BY <2>5 DEF ChainInv, CertsLinked
  <2>. HIDE DEF g
  <2>7. <<g, k>> \in OpToRel(<, Nat)
    BY <1>1, <2>2, <2>3 DEF OpToRel
  <2>8. node[g].sequence <= g + 1
    BY <2>1, <2>6, <2>7
  <2>. QED  BY <1>1, <2>2, <2>3, <2>8
<1>. QED  BY <1>1, <1>2, ConsensusAssumption

\* In a step of r its highest certificate stays or gives way to a higher one,
\* which it has sent or had from a proof unless it is at a null pointer.
HighMoves(r) ==
  /\ \A q \in Replica \ {r} : rep'[q] = rep[q]
  /\ rep'[r].lastSequence >= rep[r].lastSequence
  /\ \/ rep'[r].highQc = rep[r].highQc
     \/ /\ rep'[r].highQc \in Qc
        /\ rep'[r].highQc.sequence > rep[r].highQc.sequence
        /\ rep'[r].highQc.sequence <= rep'[r].lastSequence
        /\ rep'[r].highQc.sequence <= MaxNodes + 1
        /\ rep'[r].crashed \/ rep'[r].highQc \in Certificates'

LEMMA SameHigh ==
  ASSUME TypeOK, NEW r \in Replica, NEW u, rep' = [rep EXCEPT ![r] = u],
         u.highQc = rep[r].highQc, rep'[r].lastSequence >= rep[r].lastSequence
  PROVE  HighMoves(r)
BY DEF HighMoves, TypeOK

LEMMA ProposeHigh ==
  ASSUME IInv, NEW r \in Replica, Propose(r)
  PROVE  HighMoves(r)
<1>. DEFINE seq  == building[r]
            led  == [rep[r].ledger EXCEPT !.lastConsSeq = rep[r].ledger.seq + 1]
            s    == [rep[r] EXCEPT !.ledger = led]
            used == [s EXCEPT !.lastSequence = seq]
            n    == NewNode(r, seq, s.ledger.proof)
            h    == Cardinality(DOMAIN node)
            own  == [NewObject EXCEPT !.qcRef = GetNode(s, n.qc.node), !.votes = {r}]
            a    == AppendNode(used, h, own)
<1>1. s = [rep[r] EXCEPT !.ledger.lastConsSeq = rep[r].ledger.seq + 1]
  OBVIOUS
<1>2. \/ rep' = [rep EXCEPT ![r] = s]
      \/ rep' = [rep EXCEPT ![r] = used]
      \/ rep' = [rep EXCEPT ![r] = a]
  BY <1>1, Zenon DEF Propose
<1>3. rep[r] \in Rep /\ TypeOK
  BY RepFacts DEF IInv
<1>4. s.highQc = rep[r].highQc /\ used.highQc = rep[r].highQc
  <2>. HIDE DEF led
  <2>. QED  BY <1>3 DEF Rep
<1>5. a.highQc = used.highQc
  <2>1. used \in [lastSequence : Nat, tree : [Hash -> {0} \cup Generation], obj : [Ptr -> Object],
                  lock : Ptr, exec : Ptr, highQc : Qc, ledger : {led}, crashed : BOOLEAN]
    <3>1. seq \in Nat
      BY <1>3 DEF TypeOK
    <3>. HIDE DEF led, seq
    <3>. QED  BY <1>3, <3>1 DEF Rep
  <2>. HIDE DEF used, own, h
  <2>. QED  BY <2>1 DEF AppendNode
<1>6. rep'[r].lastSequence >= rep[r].lastSequence
  BY ProposeKeeps
<1>. HIDE DEF s, used, a
<1>. QED  BY <1>2, <1>3, <1>4, <1>5, <1>6, SameHigh

LEMMA OnProposeHigh ==
  ASSUME IInv, NEW r \in Replica, NEW h \in DOMAIN node, OnPropose(r, h)
  PROVE  HighMoves(r)
<1>. DEFINE qc     == node[h].qc
            qcNode == GetNode(rep[r], qc.node)
            o      == [NewObject EXCEPT !.qcRef = qcNode]
            s      == AppendNode(rep[r], h, o)
            w      == Update(s, qcNode, qc)
            voted  == [w EXCEPT !.lastSequence = node[h].sequence]
<1>1. TypeOK /\ h \in Hash /\ qc \in Qc /\ node[h].sequence \in Nat
  BY NodeType DEF IInv
<1>2. qcNode \in Ref /\ (qcNode # Null => qcNode[1] \in DOMAIN node)
  BY GetNodeMade
<1>3. o \in Object
  BY <1>2 DEF NewObject, Object
<1>4. rep[r].tree[h] + 1 \in Generation
  BY <1>1, MayAppendType DEF OnPropose
<1>5. s \in Rep /\ s.highQc = rep[r].highQc
  <2>1. rep[r] \in Rep
    BY RepFacts
  <2>. HIDE DEF o, qcNode, qc, w, voted
  <2>2. AppendNode(rep[r], h, o) \in Rep /\ AppendNode(rep[r], h, o).highQc = rep[r].highQc
    BY ONLY <1>1, <1>3, <1>4, <2>1, AppendNodeType
  <2>. QED  BY <2>2
<1>6. w \in Rep /\ w.highQc = s.highQc
  <2>. HIDE DEF s, qcNode, qc
  <2>1. Updated(s, w, qc)
    BY <1>1, <1>2, <1>5, UpdateUpdates
  <2>. QED  BY <2>1 DEF Updated
<1>7. rep' = [rep EXCEPT ![r] = voted] \/ rep' = [rep EXCEPT ![r] = w]
  BY Zenon DEF OnPropose, Become
<1>8. voted.highQc = w.highQc
  <2>. HIDE DEF w
  <2>. QED  BY <1>6 DEF Rep
<1>9. rep'[r].lastSequence >= rep[r].lastSequence
  <2>1. rep[r].lastSequence \in Nat
    BY RepFacts DEF Rep
  <2>. QED  BY <1>1, <2>1, OnProposeKeeps
<1>. HIDE DEF w, voted, s
<1>. QED  BY <1>1, <1>5, <1>6, <1>7, <1>8, <1>9, SameHigh

LEMMA OnDecideHigh ==
  ASSUME IInv, NEW r \in Replica, NEW qc \in decides, OnDecide(r, qc)
  PROVE  HighMoves(r)
<1>. DEFINE u == Update(rep[r], GetNode(rep[r], qc.node), qc)
<1>1. TypeOK /\ qc \in Qc
  BY DEF IInv, TypeOK
<1>2. Updated(rep[r], u, qc)
  BY <1>1, RepFacts, GetNodeMade, UpdateUpdates
<1>3. rep' = [rep EXCEPT ![r] = u]
  BY DEF OnDecide, Become
<1>4. rep'[r].lastSequence >= rep[r].lastSequence
  <2>1. rep[r].lastSequence \in Nat
    BY RepFacts DEF Rep
  <2>. QED  BY <2>1, OnDecideKeeps
<1>. HIDE DEF u
<1>. QED  BY <1>1, <1>2, <1>3, <1>4, SameHigh DEF Updated

LEMMA ViewChangedHigh ==
  ASSUME IInv, NEW r \in Replica, NEW v \in View, NEW qc \in decides \cup proofs \cup {NoQc},
         ViewChanged(r, v, qc)
  PROVE  HighMoves(r) /\ rep'[r].highQc = rep[r].highQc
<1>. DEFINE u == Update(rep[r], GetNode(rep[r], qc.node), qc)
<1>1. TypeOK /\ qc \in Qc
  BY NoQcType DEF IInv, TypeOK
<1>2. Updated(rep[r], u, qc)
  BY <1>1, RepFacts, GetNodeMade, UpdateUpdates
<1>3. rep' = [rep EXCEPT ![r] = u]
  BY DEF ViewChanged, Become, AdoptQc
<1>4. rep'[r].lastSequence >= rep[r].lastSequence
  <2>1. rep[r].lastSequence \in Nat
    BY RepFacts DEF Rep
  <2>. QED  BY <2>1, ViewChangedKeeps
<1>. HIDE DEF u
<1>. QED  BY <1>1, <1>2, <1>3, <1>4, SameHigh DEF Updated, TypeOK

\* A leader has seen the sequences of the nodes it made, and so the sequence of
\* the certificate that the votes for one of them make.
LEMMA OnVoteHigh ==
  ASSUME ChainInv, OrderInv, NEW r \in Replica, NEW vote \in votes, OnVote(r, vote)
  PROVE  HighMoves(r)
<1>. DEFINE h     == vote.node
            p     == GetNode(rep[r], h)
            voted == rep[r].obj[p].votes \cup {vote.from}
            o     == [rep[r].obj[p] EXCEPT !.votes = voted]
            m     == [rep[r].obj EXCEPT ![p] = o]
            s     == [rep[r] EXCEPT !.obj = m]
            qc    == [node |-> h, view |-> node[h].view, sequence |-> node[h].sequence,
                      signers |-> voted]
            high  == IF qc.sequence > s.highQc.sequence THEN [s EXCEPT !.highQc = qc] ELSE s
            w     == Update(high, p, qc)
<1>1. IInv /\ TypeOK /\ h \in DOMAIN node /\ vote \in Vote
  BY DEF OrderInv, IInv, TypeOK, VotesForNodes
<1>2. p \in Ptr /\ p[1] = h /\ p # Null
  BY <1>1, GetNodeMade DEF OnVote
<1>3. rep[r] \in Rep /\ rep[r].obj \in [Ptr -> Object] /\ rep[r].obj[p] \in Object
  BY <1>1, <1>2, RepFacts
<1>4. voted \in SUBSET Replica
  BY <1>1, <1>3 DEF Vote, Object
<1>5. o \in Object
  BY <1>3, <1>4 DEF Object
<1>6. m \in [Ptr -> Object]
  <2>. HIDE DEF o
  <2>. QED  BY <1>2, <1>3, <1>5
<1>7. s \in Rep /\ s.highQc = rep[r].highQc /\ s.lastSequence = rep[r].lastSequence
  <2>. HIDE DEF m
  <2>. QED  BY <1>3, <1>6 DEF Rep
<1>8. qc \in Qc /\ qc.sequence = node[h].sequence /\ qc.sequence \in Nat
  <2>1. node[h].view \in View /\ node[h].sequence \in Nat /\ h \in Hash
    BY <1>1, NodeType
  <2>. HIDE DEF h, voted
  <2>. QED  BY <1>4, <2>1 DEF Qc
<1>9. s = [rep[r] EXCEPT !.obj[p].votes = voted]
  OBVIOUS
<1>10. IF MakesQuorum(voted)
       THEN /\ Become(r, w)
            /\ decides' = IF rep'[r].crashed THEN decides ELSE decides \cup {qc}
       ELSE Become(r, s)
  BY <1>9 DEF OnVote
<1>11. rep'[r].lastSequence = rep[r].lastSequence /\ rep[r].lastSequence \in Nat
  BY <1>1, <1>3, OnVoteKeeps DEF Rep
<1>12. node[h].sequence <= rep[r].lastSequence
  <2>1. VotedFor(r, h)
    BY DEF OnVote, VotedFor
  <2>. QED  BY <1>1, <2>1 DEF OrderInv, VotesInOrder
<1>15. node[h].sequence <= MaxNodes + 1
  BY <1>1, LinkedBounded DEF ChainInv, VotesLinked
<1>13. CASE ~ MakesQuorum(voted)
  <2>1. rep' = [rep EXCEPT ![r] = s]
    BY <1>10, <1>13 DEF Become
  <2>2. rep'[r].lastSequence >= rep[r].lastSequence
    BY <1>11
  <2>. HIDE DEF s
  <2>. QED  BY <1>1, <1>7, <2>1, <2>2, SameHigh
<1>14. CASE MakesQuorum(voted)
  <2>1. /\ rep' = [rep EXCEPT ![r] = w]
        /\ rep'[r].crashed \/ qc \in Certificates'
    BY <1>10, <1>14 DEF Become, Certificates
  <2>2. /\ high \in Rep
        /\ high.highQc = IF qc.sequence > s.highQc.sequence THEN qc ELSE s.highQc
    <3>. HIDE DEF s, qc
    <3>. QED  BY <1>7, <1>8 DEF Rep
  <2>3. Updated(high, w, qc)
    <3>. HIDE DEF high, qc
    <3>1. p \in Ref
      BY <1>2 DEF Ref
    <3>. QED  BY <1>1, <1>2, <1>8, <2>2, <3>1, UpdateUpdates
  <2>4. w.highQc = high.highQc
    <3>. HIDE DEF w, high
    <3>. QED  BY <2>3 DEF Updated
  <2>5. rep'[r].highQc = IF qc.sequence > rep[r].highQc.sequence THEN qc ELSE rep[r].highQc
    <3>. HIDE DEF w, high, s, qc
    <3>. QED  BY <1>1, <1>7, <2>1, <2>2, <2>4 DEF TypeOK
  <2>6. \A q \in Replica \ {r} : rep'[q] = rep[q]
    <3>. HIDE DEF w
    <3>. QED  BY <1>1, <2>1 DEF TypeOK
  <2>. HIDE DEF w, high, s, qc
  <2>7. rep'[r].lastSequence >= rep[r].lastSequence /\ qc.sequence <= rep'[r].lastSequence
    BY <1>8, <1>11, <1>12
  <2>8. \/ rep'[r].highQc = rep[r].highQc
        \/ /\ rep'[r].highQc \in Qc
           /\ rep'[r].highQc.sequence > rep[r].highQc.sequence
           /\ rep'[r].highQc.sequence <= rep'[r].lastSequence
           /\ rep'[r].highQc.sequence <= MaxNodes + 1
           /\ rep'[r].crashed \/ rep'[r].highQc \in Certificates'
    BY <1>8, <1>15, <2>1, <2>5, <2>7
  <2>. QED  BY <2>6, <2>7, <2>8 DEF HighMoves
<1>. QED  BY <1>13, <1>14

\* A proof beyond every sequence seen brings its certificate with it.
LEMMA SyncHigh ==
  ASSUME ChainInv, HighQcSeen, NEW r \in Replica, NEW qc \in proofs, Sync(r, qc)
  PROVE  HighMoves(r) /\ rep'[r].highQc \in {rep[r].highQc, qc}
<1>. DEFINE h == qc.node
            l == [rep[r].ledger EXCEPT !.seq = qc.sequence, !.proof = qc]
            s == [rep[r] EXCEPT !.ledger = l]
            o == [NewObject EXCEPT !.decision = TRUE]
            t == AppendNode(s, h, o)
            p == GetNode(t, h)
            u == UpdateProof(s, qc)
<1>1. IInv /\ TypeOK /\ qc \in Qc /\ qc.sequence \in Nat /\ qc \in Certificates
  BY DEF ChainInv, IInv, TypeOK, Certificates, Qc
<1>2. rep[r] \in Rep /\ rep[r].lastSequence \in Nat /\ rep[r].highQc.sequence \in Nat
  BY <1>1, RepFacts DEF Rep, Qc
<1>3. s.highQc = rep[r].highQc /\ s.lastSequence = rep[r].lastSequence
  <2>. HIDE DEF l
  <2>. QED  BY <1>2 DEF Rep
<1>4. rep' = [rep EXCEPT ![r] = u] /\ decides' = decides /\ proofs \subseteq proofs'
  BY Zenon DEF Sync, Become
<1>5. rep'[r] = u /\ \A q \in Replica \ {r} : rep'[q] = rep[q]
  <2>. HIDE DEF u
  <2>. QED  BY <1>1, <1>4 DEF TypeOK
<1>6. rep'[r].lastSequence >= rep[r].lastSequence
  BY <1>1, SyncKeeps
<1>7. CASE qc.sequence > rep[r].lastSequence
  <2>1. u = [t EXCEPT !.lastSequence = qc.sequence, !.lock = p, !.exec = p, !.highQc = qc]
    BY <1>3, <1>7, Zenon DEF UpdateProof
  <2>2. u.highQc = qc /\ u.lastSequence = qc.sequence
    <3>1. t \in [lastSequence : Nat, tree : {t.tree}, obj : {t.obj}, lock : Ptr, exec : Ptr,
                 highQc : Qc, ledger : {t.ledger}, crashed : BOOLEAN]
      <4>1. s \in [lastSequence : Nat, tree : [Hash -> {0} \cup Generation], obj : [Ptr -> Object],
                   lock : Ptr, exec : Ptr, highQc : Qc, ledger : {l}, crashed : BOOLEAN]
        <5>. HIDE DEF l
        <5>. QED  BY <1>2 DEF Rep
      <4>. HIDE DEF s, o, h
      <4>. QED  BY <4>1 DEF AppendNode
    <3>. HIDE DEF t, p, u
    <3>. QED  BY <2>1, <3>1
  <2>3. rep[r].highQc.sequence <= rep[r].lastSequence
    BY DEF HighQcSeen
  <2>4. qc \in Certificates'
    BY <1>1, <1>4 DEF Certificates
  <2>5. qc.sequence <= MaxNodes + 1
    BY <1>1, LinkedBounded DEF ChainInv, CertsLinked
  <2>. HIDE DEF u
  <2>. QED  BY <1>1, <1>2, <1>5, <1>6, <1>7, <2>2, <2>3, <2>4, <2>5 DEF HighMoves
<1>8. CASE ~ (qc.sequence > rep[r].lastSequence)
  <2>1. u = s
    BY <1>3, <1>8, Zenon DEF UpdateProof
  <2>. HIDE DEF u, s
  <2>. QED  BY <1>1, <1>3, <1>4, <1>5, <1>6, <2>1, SameHigh
<1>. QED  BY <1>7, <1>8

-----------------------------------------------------------------------------
(* What the consensus adds to its own invariants for the pacemaker         *)

\* The leader of a view has reached it when there is a node of the view.
NodesReached == \A h \in DOMAIN node : node[h].view <= view[GetLeaderId(node[h].view)]

\* The application's latest proof is one that it may be asked for.
ProofsRecorded == \A r \in Replica : Recorded(rep[r]) \subseteq proofs

EngineInv == ChainInv /\ VotesInOrder /\ HighQcSeen /\ NodesReached /\ ProofsRecorded

LEMMA EngineFacts ==
  ASSUME EngineInv
  PROVE  /\ ChainInv /\ OrderInv /\ IInv /\ TypeOK
         /\ \A r \in Replica : /\ view[r] \in View /\ view[r] \in Nat
                             /\ rep[r] \in Rep
                             /\ rep[r].lastSequence \in Nat
                             /\ rep[r].highQc \in Qc /\ rep[r].highQc.sequence \in Nat
<1>1. ChainInv /\ OrderInv /\ IInv /\ TypeOK
  BY DEF EngineInv, ChainInv, OrderInv, IInv
<1>. QED  BY <1>1, RepType, ViewType DEF TypeOK, Rep, Qc

\* What a step does to the highest certificates and the views.
Moves(r) ==
  /\ Alive(r)
  /\ HighMoves(r)
  /\ decides \subseteq decides' /\ proofs \subseteq proofs'
  /\ view'[r] >= view[r]
  /\ \A q \in Replica \ {r} : view'[q] = view[q]

LEMMA NextMoves ==
  ASSUME EngineInv, Next
  PROVE  \E r \in Replica : Moves(r)
<1>1. ChainInv /\ OrderInv /\ IInv /\ TypeOK /\ HighQcSeen /\ \A r \in Replica : view[r] \in Nat
  BY EngineFacts DEF EngineInv
<1>2. ASSUME NEW r \in Replica, HighMoves(r), view' = view,
             Alive(r), decides \subseteq decides', proofs \subseteq proofs'
      PROVE  Moves(r)
  BY <1>1, <1>2 DEF Moves
<1>3. ASSUME NEW r \in Replica, StartConsensus(r) \/ SetViewInActive(r)
      PROVE  Moves(r)
  <2>1. UNCHANGED <<rep, view, decides, proofs>> /\ Alive(r)
    BY <1>3 DEF StartConsensus, SetViewInActive
  <2>2. rep[r].lastSequence \in Nat
    BY EngineFacts
  <2>. QED  BY <1>2, <2>1, <2>2 DEF HighMoves
<1>4. ASSUME NEW r \in Replica, Propose(r)
      PROVE  Moves(r)
  <2>1. UNCHANGED <<view, decides, proofs>> /\ Alive(r)
    BY <1>4, Zenon DEF Propose
  <2>. QED  BY <1>1, <1>2, <1>4, <2>1, ProposeHigh
<1>5. ASSUME NEW r \in Replica, NEW h \in DOMAIN node \ {Genesis}, OnPropose(r, h)
      PROVE  Moves(r)
  <2>1. view' = view /\ Alive(r) /\ decides \subseteq decides' /\ proofs \subseteq proofs'
    BY <1>5, Zenon DEF OnPropose, Accepts, Become
  <2>. QED  BY <1>1, <1>2, <1>5, <2>1, OnProposeHigh
<1>6. ASSUME NEW r \in Replica, NEW vote \in votes, OnVote(r, vote)
      PROVE  Moves(r)
  <2>1. view' = view /\ Alive(r) /\ decides \subseteq decides' /\ proofs \subseteq proofs'
    BY <1>6, Zenon DEF OnVote, Accepts, Become
  <2>. QED  BY <1>1, <1>2, <1>6, <2>1, OnVoteHigh
<1>7. ASSUME NEW r \in Replica, NEW qc \in decides, OnDecide(r, qc)
      PROVE  Moves(r)
  <2>1. view' = view /\ Alive(r) /\ decides \subseteq decides' /\ proofs \subseteq proofs'
    BY <1>7, Zenon DEF OnDecide, Accepts, Become
  <2>. QED  BY <1>1, <1>2, <1>7, <2>1, OnDecideHigh
<1>8. ASSUME NEW r \in Replica, NEW v \in View, NEW qc \in decides \cup proofs \cup {NoQc},
             ViewChanged(r, v, qc)
      PROVE  Moves(r)
  <2>1. HighMoves(r)
    BY <1>1, <1>8, ViewChangedHigh
  <2>2. v > view[r] /\ view' = [view EXCEPT ![r] = v] /\ v \in Nat
    BY <1>8, ViewType DEF ViewChanged
  <2>3. view'[r] = v /\ \A q \in Replica \ {r} : view'[q] = view[q]
    BY <1>1, <2>2 DEF TypeOK
  <2>4. Alive(r) /\ decides \subseteq decides' /\ proofs \subseteq proofs'
    BY <1>8, Zenon DEF ViewChanged, Become
  <2>. QED  BY <1>1, <2>1, <2>2, <2>3, <2>4 DEF Moves
<1>9. ASSUME NEW r \in Replica, NEW qc \in proofs, Sync(r, qc)
      PROVE  Moves(r)
  <2>1. HighMoves(r)
    BY <1>1, <1>9, SyncHigh
  <2>2. view' = [view EXCEPT ![r] = ViewOfProof(r, qc)]
    BY <1>9 DEF Sync
  <2>3. view'[r] = ViewOfProof(r, qc) /\ \A q \in Replica \ {r} : view'[q] = view[q]
    BY <1>1, <2>2 DEF TypeOK
  <2>4. view'[r] >= view[r]
    BY <1>1, <2>3 DEF ViewOfProof
  <2>5. Alive(r) /\ decides \subseteq decides' /\ proofs \subseteq proofs'
    BY <1>9, Zenon DEF Sync, Become
  <2>. QED  BY <2>1, <2>3, <2>4, <2>5 DEF Moves
<1>. QED  BY <1>3, <1>4, <1>5, <1>6, <1>7, <1>8, <1>9 DEF Next

\* A node is made in the view that its leader is in, and stays what it is.
LEMMA NodesReachedNext ==
  ASSUME EngineInv, [Next]_vars
  PROVE  NodesReached'
<1>1. IInv /\ TypeOK /\ \A q \in Replica : view[q] \in Nat
  BY EngineFacts
<1>2. IInv' /\ TypeOK' /\ \A q \in Replica : view'[q] \in Nat
  <2>1. IInv'
    BY <1>1, NextKeeps
  <2>. QED  BY <2>1, ViewType DEF IInv, TypeOK
<1>3. \A q \in Replica : view'[q] >= view[q]
  <2>1. CASE UNCHANGED vars
    BY <1>1, <2>1 DEF vars
  <2>2. CASE Next
    BY <1>1, <2>2, NextMoves DEF Moves
  <2>. QED  BY <2>1, <2>2
<1>4. NodesNumbered /\ NodesNumbered'
  BY <1>1, <1>2, NodeNumbers, NodeNumbersNext
<1>5. ASSUME NEW h \in DOMAIN node, h \in DOMAIN node', node'[h] = node[h]
      PROVE  node'[h].view <= view'[GetLeaderId(node'[h].view)]
  <2>1. GetLeaderId(node[h].view) \in Replica /\ node[h].view \in Nat
    BY <1>4, NAssumption DEF NodesNumbered, GetLeaderId, Replica
  <2>2. node[h].view <= view[GetLeaderId(node[h].view)]
    BY DEF EngineInv, NodesReached
  <2>. DEFINE l == GetLeaderId(node[h].view)
  <2>3. l \in Replica /\ node[h].view <= view[l]
    BY <2>1, <2>2
  <2>. HIDE DEF l
  <2>4. node[h].view <= view'[l]
    BY <1>1, <1>2, <1>3, <2>1, <2>3
  <2>. QED  BY <1>5, <2>4 DEF l
<1>6. CASE node' = node
  BY <1>5, <1>6 DEF NodesReached
<1>7. ASSUME NEW r \in Replica, Propose(r), node' # node
      PROVE  NodesReached'
  <2>1. PICK h : /\ DOMAIN node' = DOMAIN node \cup {h}
                 /\ \A g \in DOMAIN node : node'[g] = node[g]
                 /\ node'[h].view = view[r]
                 /\ IsLeader(r)
    BY <1>1, <1>7, ProposeKeeps
  <2>2. view' = view
    BY <1>7, Zenon DEF Propose
  <2>3. node'[h].view <= view'[GetLeaderId(node'[h].view)]
    BY <1>1, <2>1, <2>2 DEF IsLeader
  <2>. QED  BY <1>5, <2>1, <2>3 DEF NodesReached
<1>8. node' = node \/ \E r \in Replica : Propose(r)
  <2>1. CASE UNCHANGED vars
    BY <2>1 DEF vars
  <2>2. ASSUME NEW r \in Replica, StartConsensus(r) \/ SetViewInActive(r)
        PROVE  node' = node
    BY <2>2 DEF StartConsensus, SetViewInActive
  <2>3. ASSUME NEW r \in Replica, NEW h \in DOMAIN node \ {Genesis}, OnPropose(r, h)
        PROVE  node' = node
    BY <2>3, Zenon DEF OnPropose
  <2>4. ASSUME NEW r \in Replica, NEW vote \in votes, OnVote(r, vote)
        PROVE  node' = node
    BY <2>4, Zenon DEF OnVote
  <2>5. ASSUME NEW r \in Replica, NEW qc \in decides, OnDecide(r, qc)
        PROVE  node' = node
    BY <2>5, Zenon DEF OnDecide
  <2>6. ASSUME NEW r \in Replica, NEW v \in View, NEW qc \in decides \cup proofs \cup {NoQc},
               ViewChanged(r, v, qc)
        PROVE  node' = node
    BY <2>6, Zenon DEF ViewChanged
  <2>7. ASSUME NEW r \in Replica, NEW qc \in proofs, Sync(r, qc)
        PROVE  node' = node
    BY <2>7, Zenon DEF Sync
  <2>. QED  BY <2>1, <2>2, <2>3, <2>4, <2>5, <2>6, <2>7 DEF Next
<1>. QED  BY <1>6, <1>7, <1>8

LEMMA ProofsRecordedNext ==
  ASSUME EngineInv, [Next]_vars
  PROVE  ProofsRecorded'
<1>1. IInv /\ TypeOK /\ ProofsRecorded /\ \A q \in Replica : rep[q] \in Rep
  BY EngineFacts DEF EngineInv
<1>2. ASSUME NEW r \in Replica, NEW u, Become(r, u)
      PROVE  ProofsRecorded'
  <2>1. rep'[r] = u /\ \A q \in Replica \ {r} : rep'[q] = rep[q]
    BY <1>1, <1>2 DEF Become, TypeOK
  <2>2. Recorded(u) \subseteq proofs' /\ proofs \subseteq proofs'
    BY <1>2 DEF Become
  <2>3. ASSUME NEW q \in Replica
        PROVE  Recorded(rep'[q]) \subseteq proofs'
    <3>1. CASE q = r
      BY <2>1, <2>2, <3>1
    <3>2. CASE q # r
      <4>1. rep'[q] = rep[q] /\ Recorded(rep[q]) \subseteq proofs
        BY <1>1, <2>1, <3>2 DEF ProofsRecorded
      <4>. QED  BY <2>2, <4>1
    <3>. QED  BY <3>1, <3>2
  <2>. QED  BY <2>3 DEF ProofsRecorded, Recorded
<1>3. CASE UNCHANGED <<rep, proofs>>
  BY <1>1, <1>3 DEF ProofsRecorded, Recorded
<1>4. CASE UNCHANGED vars
  BY <1>3, <1>4 DEF vars
<1>5. ASSUME NEW r \in Replica, StartConsensus(r) \/ SetViewInActive(r)
      PROVE  ProofsRecorded'
  BY <1>3, <1>5 DEF StartConsensus, SetViewInActive
<1>6. ASSUME NEW r \in Replica, Propose(r)
      PROVE  ProofsRecorded'
  <2>. DEFINE led  == [rep[r].ledger EXCEPT !.lastConsSeq = rep[r].ledger.seq + 1]
              s    == [rep[r] EXCEPT !.ledger = led]
              used == [s EXCEPT !.lastSequence = building[r]]
              n    == NewNode(r, building[r], s.ledger.proof)
              h    == Cardinality(DOMAIN node)
              own  == [NewObject EXCEPT !.qcRef = GetNode(s, n.qc.node), !.votes = {r}]
              a    == AppendNode(used, h, own)
  <2>1. s = [rep[r] EXCEPT !.ledger.lastConsSeq = rep[r].ledger.seq + 1]
    OBVIOUS
  <2>2. /\ \/ rep' = [rep EXCEPT ![r] = s]
           \/ rep' = [rep EXCEPT ![r] = used]
           \/ rep' = [rep EXCEPT ![r] = a]
        /\ proofs' = proofs
    BY <1>6, <2>1, Zenon DEF Propose
  <2>3. led.proof = rep[r].ledger.proof
    BY <1>1 DEF Rep, Ledger
  <2>4. s.ledger = led /\ used.ledger = led
    <3>. HIDE DEF led
    <3>. QED  BY <1>1 DEF Rep
  <2>5. a.ledger = used.ledger
    <3>1. used \in [lastSequence : Nat, tree : [Hash -> {0} \cup Generation], obj : [Ptr -> Object],
                    lock : Ptr, exec : Ptr, highQc : Qc, ledger : {led}, crashed : BOOLEAN]
      <4>1. building[r] \in Nat
        BY <1>1 DEF TypeOK
      <4>. HIDE DEF led
      <4>. QED  BY <1>1, <4>1 DEF Rep
    <3>. HIDE DEF used, own, h
    <3>. QED  BY <3>1 DEF AppendNode
  <2>6. \E u : rep' = [rep EXCEPT ![r] = u] /\ u.ledger.proof = rep[r].ledger.proof
    <3>. HIDE DEF s, used, a
    <3>. QED  BY <2>2, <2>3, <2>4, <2>5
  <2>7. \A q \in Replica : rep'[q].ledger.proof = rep[q].ledger.proof
    BY <1>1, <2>6 DEF TypeOK
  <2>. QED  BY <1>1, <2>2, <2>7 DEF ProofsRecorded, Recorded
<1>7. ASSUME NEW r \in Replica, NEW h \in DOMAIN node \ {Genesis}, OnPropose(r, h)
      PROVE  ProofsRecorded'
  BY <1>2, <1>7, Zenon DEF OnPropose
<1>8. ASSUME NEW r \in Replica, NEW vote \in votes, OnVote(r, vote)
      PROVE  ProofsRecorded'
  BY <1>2, <1>8, Zenon DEF OnVote
<1>9. ASSUME NEW r \in Replica, NEW qc \in decides, OnDecide(r, qc)
      PROVE  ProofsRecorded'
  BY <1>2, <1>9, Zenon DEF OnDecide
<1>10. ASSUME NEW r \in Replica, NEW v \in View, NEW qc \in decides \cup proofs \cup {NoQc},
              ViewChanged(r, v, qc)
       PROVE  ProofsRecorded'
  BY <1>2, <1>10, Zenon DEF ViewChanged
<1>11. ASSUME NEW r \in Replica, NEW qc \in proofs, Sync(r, qc)
       PROVE  ProofsRecorded'
  BY <1>2, <1>11, Zenon DEF Sync
<1>. QED  BY <1>4, <1>5, <1>6, <1>7, <1>8, <1>9, <1>10, <1>11 DEF Next

LEMMA InitEngine == Init => EngineInv
<1>. SUFFICES ASSUME Init PROVE EngineInv
  OBVIOUS
<1>1. \A r \in Replica : rep[r] = InitialRep
  BY DEF Init
<1>2. HighQcSeen /\ ProofsRecorded
  <2>1. InitialRep.highQc = NoQc /\ InitialRep.lastSequence = 1 /\ InitialRep.ledger.proof = NoQc
    BY DEF InitialRep
  <2>2. NoQc.sequence = 0
    BY DEF NoQc
  <2>3. HighQcSeen
    BY <1>1, <2>1, <2>2, ConsensusAssumption DEF HighQcSeen
  <2>. QED  BY <1>1, <2>1, <2>3 DEF ProofsRecorded, Recorded
<1>3. NodesReached
  <2>1. DOMAIN node = {0} /\ node[0].view = 0
    BY DEF Init, GenesisNode, Genesis
  <2>2. GetLeaderId(0) \in Replica /\ \A r \in Replica : view[r] = 0
    BY NAssumption DEF Init, GetLeaderId, Replica
  <2>. QED  BY <2>1, <2>2 DEF NodesReached
<1>. QED  BY <1>2, <1>3, InitChain, InitVotesInOrder DEF EngineInv

LEMMA NextKeepsEngine == EngineInv /\ [Next]_vars => EngineInv'
<1>. SUFFICES ASSUME EngineInv, [Next]_vars PROVE EngineInv'
  OBVIOUS
<1>1. ChainInv' /\ VotesInOrder'
  BY EngineFacts, NextKeepsChain, NextKeepsOrder
<1>2. HighQcSeen'
  <2>1. CASE UNCHANGED vars
    BY <2>1 DEF EngineInv, HighQcSeen, vars
  <2>2. CASE Next
    <3>1. PICK r \in Replica : Moves(r)
      BY <2>2, NextMoves
    <3>2. \A q \in Replica : rep'[q].lastSequence \in Nat
      BY <1>1 DEF ChainInv, IInv, TypeOK, Rep
    <3>3. \A q \in Replica \ {r} : /\ rep'[q].highQc.sequence <= rep'[q].lastSequence
                                    /\ rep'[q].highQc.sequence <= MaxNodes + 1
      BY <3>1 DEF Moves, HighMoves, EngineInv, HighQcSeen
    <3>4. /\ rep'[r].highQc.sequence <= rep'[r].lastSequence
          /\ rep'[r].highQc.sequence <= MaxNodes + 1
      <4>1. CASE rep'[r].highQc = rep[r].highQc
        <5>1. /\ rep[r].highQc.sequence <= rep[r].lastSequence
              /\ rep[r].highQc.sequence <= MaxNodes + 1
          BY DEF EngineInv, HighQcSeen
        <5>2. rep'[r].lastSequence >= rep[r].lastSequence
          BY <3>1 DEF Moves, HighMoves
        <5>. QED  BY <3>2, <4>1, <5>1, <5>2, EngineFacts
      <4>. QED  BY <3>1, <4>1 DEF Moves, HighMoves
    <3>. QED  BY <3>3, <3>4 DEF HighQcSeen
  <2>. QED  BY <2>1, <2>2
<1>. QED  BY <1>1, <1>2, NodesReachedNext, ProofsRecordedNext DEF EngineInv

-----------------------------------------------------------------------------
(* The pacemaker of the engine is the one that XbftPaceMaker_proofs is about *)

LEMMA PaceAssumptions == PP!PaceMakerAssumption /\ PP!NAssumption
<1>1. MaxView - 1 \in Nat
  BY SystemAssumption, ConsensusAssumption
<1>2. NoQc.sequence = 0 /\ \A q \in Qc : q.sequence \in Nat
  BY DEF NoQc, Qc
<1>. QED  BY <1>1, <1>2, SystemAssumption, NoQcType, NAssumption
          DEF PP!PaceMakerAssumption, PP!NAssumption

LEMMA PaceSets ==
  /\ PP!Replica = Replica
  /\ PP!View = View
  /\ PP!NvEntry = [from : Replica, high : Qc]
  /\ PP!Tc = [view : View, signers : SUBSET Replica]
  /\ PP!NewViewMsg = [from : Replica, view : View, lastTc : PP!Tc, high : Qc]
<1>1. PP!View = View
  BY SystemAssumption, ConsensusAssumption DEF PP!View, View
<1>2. PP!Replica = Replica
  BY DEF PP!Replica, Replica
<1>. QED  BY <1>1, <1>2 DEF PP!NvEntry, PP!Tc, PP!NewViewMsg

LEMMA PaceOperators ==
  ASSUME NEW r, NEW m
  PROVE  /\ Pace!NewNewView(r, view[r] + 1) = PP!NewNewView(r, view[r] + 1)
         /\ Pace!Completes(r, m) <=> PP!Completes(r, m)
         /\ Pace!Added(r, m) = PP!Added(r, m)
<1>1. Pace!NewNewView(r, view[r] + 1) = PP!NewNewView(r, view[r] + 1)
  BY Zenon DEF Pace!NewNewView, PP!NewNewView
<1>2. Pace!Added(r, m) = PP!Added(r, m)
  BY Zenon DEF Pace!Added, PP!Added
<1>3. Pace!Completes(r, m) <=> PP!Completes(r, m)
  BY Zenon DEF Pace!Completes, PP!Completes, Pace!Adds, PP!Adds, Pace!Added, PP!Added,
     Pace!Voters, PP!Voters, Pace!IsQuorum, PP!IsQuorum, Pace!GetQuorumSize, PP!GetQuorumSize,
     Pace!TcAhead, PP!TcAhead, Pace!IsValid, PP!IsValid, Pace!ViewAfterTc, PP!ViewAfterTc,
     Pace!CatchesUp, PP!CatchesUp, Pace!Replica, PP!Replica, Pace!Cardinality, PP!Cardinality
<1>. QED  BY <1>1, <1>2, <1>3

LEMMA PaceSteps ==
  ASSUME NEW r, NEW m
  PROVE  /\ Pace!RotateBegin(r) <=> PP!RotateBegin(r)
         /\ Pace!RotateSend(r) <=> PP!RotateSend(r)
         /\ Pace!RecvNewView(r, m) <=> PP!RecvNewView(r, m)
         /\ Pace!OnTimeout(r) <=> PP!OnTimeout(r)
<1>. USE DEF Pace!Completes, PP!Completes, Pace!Adds, PP!Adds, Pace!Added, PP!Added,
     Pace!Voters, PP!Voters, Pace!IsQuorum, PP!IsQuorum, Pace!GetQuorumSize, PP!GetQuorumSize,
     Pace!TcAhead, PP!TcAhead, Pace!IsValid, PP!IsValid, Pace!ViewAfterTc, PP!ViewAfterTc,
     Pace!CatchesUp, PP!CatchesUp, Pace!Replica, PP!Replica, Pace!Cardinality, PP!Cardinality, Pace!OnNewView, PP!OnNewView,
     Pace!ChangeViewTo, PP!ChangeViewTo, Pace!GetTc, PP!GetTc, Pace!NewNewView, PP!NewNewView,
     Pace!MayBroadcast, PP!MayBroadcast, Pace!View, PP!View, Pace!Absent, PP!Absent,
     Pace!SentViews, PP!SentViews
<1>1. Pace!RotateBegin(r) <=> PP!RotateBegin(r)
  BY Zenon DEF Pace!RotateBegin, PP!RotateBegin
<1>2. Pace!RotateSend(r) <=> PP!RotateSend(r)
  BY Zenon DEF Pace!RotateSend, PP!RotateSend
<1>3. Pace!RecvNewView(r, m) <=> PP!RecvNewView(r, m)
  BY Zenon DEF Pace!RecvNewView, PP!RecvNewView
<1>4. Pace!OnTimeout(r) <=> PP!OnTimeout(r)
  BY Zenon DEF Pace!OnTimeout, PP!OnTimeout
<1>. QED  BY <1>1, <1>2, <1>3, <1>4

-----------------------------------------------------------------------------
(* The inductive invariant                                                 *)

\* The certificates that a view change may adopt.
Adoptable == Certificates \cup {NoQc}

\* What a NEWVIEW carries was a certificate of its sender, which has sent it or
\* had it from a proof: a replica at a null pointer asks for no view.
HighsAdoptable ==
  /\ \A r \in Replica : Alive(r) => rep[r].highQc \in Adoptable
  /\ \A m \in newViews : m.high \in Adoptable

SystemInv == EngineInv /\ PP!IInv /\ IsFiniteSet(newViews) /\ HighsAdoptable

-----------------------------------------------------------------------------
(* A step of the engine is one of the consensus                            *)

\* GetHighQc returns the certificate of an entry, or none.
LEMMA HighQcOfEntry ==
  ASSUME NEW S \in SUBSET PP!NvEntry, IsFiniteSet(S), S # {}
  PROVE  PP!GetHighQc(S) = NoQc \/ \E e \in S : PP!GetHighQc(S) = e.high
<1>. DEFINE better(x, y) == \/ x.high.sequence > y.high.sequence
                            \/ /\ x.high.sequence = y.high.sequence
                               /\ x.from <= y.from
            best == CHOOSE x \in S : \A y \in S : better(x, y)
<1>1. PP!IsFiniteSet(S)
  BY DEF PP!IsFiniteSet, IsFiniteSet
<1>2. \E x \in S : \A y \in S : better(x, y)
  BY <1>1, PaceAssumptions, PP!BestEntryExists
<1>3. best \in S
  BY <1>2
<1>4. PP!GetHighQc(S) = IF best.high.sequence > 0 THEN best.high ELSE NoQc
  BY DEF PP!GetHighQc
<1>. HIDE DEF best
<1>. QED  BY <1>3, <1>4

\* The certificate that a view change hands over was sent.
LEMMA ViewChangeAdoptable ==
  ASSUME SystemInv, NEW r \in Replica, NEW m \in PP!NewViewMsg, m.high \in Adoptable
  PROVE  ViewChangeQc(r, m) \in Adoptable
<1>. DEFINE S == PP!Added(r, m)
<1>1. PP!IInv /\ PP!TypeOK /\ r \in PP!Replica /\ m.view \in PP!View
  BY PaceSets DEF SystemInv, PP!IInv, PP!NewViewMsg
<1>2. S \in SUBSET PP!NvEntry
  BY <1>1, PaceAssumptions, PP!AddedType
<1>3. IsFiniteSet(S) /\ S # {}
  <2>1. PP!IsFiniteSet(nvMap[r][m.view].newViewProto)
    BY <1>1 DEF PP!IInv, PP!EntriesFinite
  <2>2. IsFiniteSet(nvMap[r][m.view].newViewProto)
    BY <2>1 DEF PP!IsFiniteSet, IsFiniteSet
  <2>3. IsFiniteSet({[from |-> m.from, high |-> m.high]})
    BY FS_Singleton
  <2>. QED  BY <2>2, <2>3, FS_Union DEF PP!Added
<1>4. \A e \in S : e.high \in Adoptable
  <2>1. \A e \in nvMap[r][m.view].newViewProto : \E n \in newViews : n.high = e.high
    BY <1>1 DEF PP!IInv, PP!EntriesWereSent
  <2>. QED  BY <2>1 DEF PP!Added, SystemInv, HighsAdoptable
<1>5. ViewChangeQc(r, m) = PP!GetHighQc(S)
  <2>1. ViewChangeQc(r, m) = Pace!GetHighQc(S)
    BY PaceOperators DEF ViewChangeQc
  <2>2. Pace!GetHighQc(S) = PP!GetHighQc(S)
    BY Zenon DEF Pace!GetHighQc, PP!GetHighQc
  <2>. QED  BY <2>1, <2>2
<1>6. NoQc \in Adoptable
  BY DEF Adoptable
<1>. HIDE DEF S
<1>. QED  BY <1>2, <1>3, <1>4, <1>5, <1>6, HighQcOfEntry

\* What onNewView does to the consensus is a view change of its own, or nothing.
LEMMA OnNewViewCore ==
  ASSUME SystemInv, NEW r \in Replica, Alive(r),
         NEW m \in PP!NewViewMsg, m.high \in Adoptable, NEW selfMsg,
         CoreAfter(r, m), PP!OnNewView(r, m, selfMsg),
         UNCHANGED <<node, building, votes, decides, synced>>
  PROVE  [Next]_vars
<1>1. /\ rep[r] \in Rep /\ TypeOK /\ view[r] \in Nat
      /\ Recorded(rep[r]) \subseteq proofs
  BY EngineFacts DEF SystemInv, EngineInv, ProofsRecorded
<1>2. m.view \in View /\ m.lastTc.view \in View /\ m.view \in Nat /\ m.lastTc.view \in Nat
  BY PaceSets, ViewType DEF PP!NewViewMsg, PP!Tc
<1>3. PP!CatchesUp(r, m) => m.lastTc.view > view[r]
  BY DEF PP!CatchesUp, PP!TcAhead
<1>4. PP!Completes(r, m) => m.view > view[r]
  BY <1>1, <1>2, <1>3 DEF PP!Completes, PP!Adds, PP!ViewAfterTc
<1>5. CASE PP!Completes(r, m)
  <2>1. ViewChangeQc(r, m) \in decides \cup proofs \cup {NoQc}
    BY ViewChangeAdoptable DEF Adoptable, Certificates
  <2>2. Become(r, AdoptQc(rep[r], ViewChangeQc(r, m)))
    BY <1>5, PaceOperators DEF CoreAfter
  <2>3. /\ view' = [view EXCEPT ![r] = m.view]
        /\ active' = [active EXCEPT ![r] = TRUE]
    BY <1>5 DEF PP!OnNewView, PP!ChangeViewTo
  <2>4. ViewChanged(r, m.view, ViewChangeQc(r, m))
    BY <1>4, <1>5, <2>2, <2>3 DEF ViewChanged
  <2>. QED  BY <1>2, <2>1, <2>4 DEF Next
<1>6. CASE ~ PP!Completes(r, m) /\ PP!CatchesUp(r, m)
  <2>1. AdoptQc(rep[r], NoQc) = rep[r]
    <3>1. GetNode(rep[r], NoQc.node) = Null
      BY HashType DEF GetNode, InTree, NoQc
    <3>. QED  BY <3>1 DEF AdoptQc, Update, Undecided
  <2>2. Become(r, AdoptQc(rep[r], NoQc))
    BY <1>6, <2>1, PaceOperators DEF CoreAfter
  <2>3. ViewChanged(r, m.lastTc.view, NoQc)
    BY <1>3, <1>6, <2>2 DEF ViewChanged, PP!OnNewView, PP!ChangeViewTo
  <2>. QED  BY <1>2, <2>3 DEF Next
<1>7. CASE ~ PP!Completes(r, m) /\ ~ PP!CatchesUp(r, m)
  <2>1. UNCHANGED <<view, active>>
    BY <1>7 DEF PP!OnNewView
  <2>2. Become(r, rep[r])
    BY <1>7, PaceOperators DEF CoreAfter
  <2>3. UNCHANGED <<rep, proofs>>
    BY <1>1, <2>2 DEF Become, TypeOK
  <2>. QED  BY <2>1, <2>3 DEF vars
<1>. QED  BY <1>5, <1>6, <1>7

\* The NEWVIEW that Rotate sends.
LEMMA NewNewViewSent ==
  ASSUME SystemInv, NEW r \in Replica, Alive(r), view[r] < MaxView
  PROVE  /\ PP!NewNewView(r, view[r] + 1) \in PP!NewViewMsg
         /\ PP!NewNewView(r, view[r] + 1).high \in Adoptable
<1>1. PP!TypeOK /\ view[r] + 1 \in PP!View
  <2>1. view[r] \in Nat
    BY EngineFacts DEF SystemInv
  <2>. QED  BY <2>1, PaceSets, ConsensusAssumption DEF SystemInv, PP!IInv, View
<1>2. PP!NewNewView(r, view[r] + 1) \in PP!NewViewMsg
  BY <1>1, PaceSets, PaceAssumptions, PP!NewNewViewType
<1>3. PP!NewNewView(r, view[r] + 1).high = rep[r].highQc
  BY DEF PP!NewNewView
<1>. QED  BY <1>2, <1>3 DEF SystemInv, HighsAdoptable

LEMMA StepIsConsensus ==
  ASSUME SystemInv, [SystemNext]_systemVars
  PROVE  [Next]_vars
<1>1. CASE UNCHANGED systemVars
  BY <1>1 DEF systemVars, coreVars, vars
<1>2. ASSUME NEW r \in Replica, RotateBegin(r)
      PROVE  [Next]_vars
  <2>1. active[r] /\ view[r] <= MaxView - 1 /\ active' = [active EXCEPT ![r] = FALSE] /\ view' = view
    BY <1>2 DEF RotateBegin, Pace!RotateBegin
  <2>2. view[r] < MaxView
    BY <2>1, EngineFacts, ConsensusAssumption DEF SystemInv
  <2>3. SetViewInActive(r)
    BY <1>2, <2>1, <2>2 DEF RotateBegin, coreVars, SetViewInActive
  <2>. QED  BY <2>3 DEF Next
<1>3. ASSUME NEW r \in Replica, RotateSend(r)
      PROVE  [Next]_vars
  <2>. DEFINE m == PP!NewNewView(r, view[r] + 1)
  <2>1. m \in PP!NewViewMsg /\ m.high \in Adoptable /\ Alive(r)
    BY <1>3, NewNewViewSent DEF RotateSend
  <2>2. CoreAfter(r, m) /\ UNCHANGED <<node, building, votes, decides, synced>>
    BY <1>3, PaceOperators DEF RotateSend
  <2>3. PP!OnNewView(r, m, TRUE)
    BY <1>3, PaceSteps DEF RotateSend, PP!RotateSend
  <2>. HIDE DEF m
  <2>. QED  BY <2>1, <2>2, <2>3, OnNewViewCore
<1>4. ASSUME NEW r \in Replica, NEW m \in newViews, RecvNewView(r, m)
      PROVE  [Next]_vars
  <2>1. m \in PP!NewViewMsg /\ m.high \in Adoptable
    BY DEF SystemInv, HighsAdoptable, PP!IInv, PP!TypeOK
  <2>2. /\ Alive(r) /\ CoreAfter(r, m) /\ UNCHANGED <<node, building, votes, decides, synced>>
        /\ PP!OnNewView(r, m, FALSE)
    BY <1>4, PaceSteps DEF RecvNewView, PP!RecvNewView
  <2>. QED  BY <2>1, <2>2, OnNewViewCore
<1>5. ASSUME NEW r \in Replica, OnTimeout(r)
      PROVE  [Next]_vars
  <2>1. UNCHANGED <<view, active>>
    BY <1>5 DEF OnTimeout, Pace!OnTimeout
  <2>. QED  BY <1>5, <2>1 DEF OnTimeout, coreVars, vars
<1>6. ASSUME NEW r \in Replica, CoreStep(r)
      PROVE  [Next]_vars
  BY <1>6 DEF CoreStep, Next
<1>. QED  BY <1>1, <1>2, <1>3, <1>4, <1>5, <1>6 DEF SystemNext

-----------------------------------------------------------------------------
(* A step of the engine is one of the pacemaker                             *)

Highs == [r \in Replica |-> rep[r].highQc]

\* A step of the consensus that keeps the view at most raises a certificate.
LEMMA HighIsPace ==
  ASSUME SystemInv, NEW r \in Replica, HighMoves(r), UNCHANGED <<view, active, paceVars>>
  PROVE  PP!Next \/ UNCHANGED PP!vars
<1>1. Highs' = [Highs EXCEPT ![r] = rep'[r].highQc]
  BY DEF Highs, HighMoves
<1>2. CASE rep'[r].highQc = rep[r].highQc
  <2>1. Highs' = Highs
    BY <1>1, <1>2 DEF Highs
  <2>. QED  BY <2>1 DEF PP!vars, Highs, paceVars
<1>3. CASE rep'[r].highQc # rep[r].highQc
  <2>1. rep'[r].highQc \in Qc /\ rep'[r].highQc.sequence > Highs[r].sequence
    BY <1>3 DEF HighMoves, Highs
  <2>2. PICK q \in Qc : q = rep'[r].highQc
    BY <2>1
  <2>3. PP!UpdateHighQc(r, q)
    BY <1>1, <2>1, <2>2 DEF PP!UpdateHighQc, Highs, paceVars
  <2>. QED  BY <2>3, PaceSets DEF PP!Next
<1>. QED  BY <1>2, <1>3

LEMMA SyncIsPace ==
  ASSUME SystemInv, NEW r \in Replica, NEW qc \in proofs, Sync(r, qc), UNCHANGED paceVars
  PROVE  PP!Next \/ UNCHANGED PP!vars
<1>1. ChainInv /\ IInv /\ TypeOK /\ HighQcSeen /\ NodesReached /\ rep[r].highQc \in Qc
      /\ \A q \in Replica : view[q] \in Nat
  BY EngineFacts DEF SystemInv, EngineInv
<1>2. HighMoves(r) /\ rep'[r].highQc \in {rep[r].highQc, qc}
  BY <1>1, SyncHigh
<1>3. /\ view' = [view EXCEPT ![r] = ViewOfProof(r, qc)]
      /\ active' = [active EXCEPT ![r] = @ \/ qc.view >= view[r]]
  BY DEF Sync
<1>4. qc.view \in View /\ qc.view \in Nat /\ qc \in Qc
  BY <1>1, ViewType DEF TypeOK, Qc
<1>5. CASE qc.view >= view[r]
  <2>1. view' = [view EXCEPT ![r] = qc.view] /\ active' = [active EXCEPT ![r] = TRUE]
    BY <1>3, <1>5 DEF ViewOfProof
  <2>2. \E s \in Replica : view[s] >= qc.view
    <3>1. qc # NoQc
      <4>1. qc.sequence > rep[r].ledger.seq /\ rep[r].ledger.seq \in Nat
        BY <1>1, RepFacts DEF Sync, Ahead
      <4>. QED  BY <4>1 DEF NoQc
    <3>2. qc.node \in DOMAIN node /\ qc.view = node[qc.node].view
      BY <1>1, <3>1 DEF IInv, AllBacked, AllQcs, Certificates, Backed
    <3>3. GetLeaderId(qc.view) \in Replica
      BY <1>4, NAssumption DEF GetLeaderId, Replica
    <3>. DEFINE l == GetLeaderId(qc.view)
    <3>4. l \in Replica /\ qc.view <= view[l]
      BY <1>1, <3>2, <3>3 DEF NodesReached
    <3>. HIDE DEF l
    <3>5. view[l] >= qc.view
      BY <1>1, <1>4, <3>4
    <3>. QED  BY <3>4, <3>5
  <2>3. Highs' = [Highs EXCEPT ![r] = rep'[r].highQc]
    BY <1>2 DEF Highs, HighMoves
  <2>4. rep'[r].highQc \in Qc
        /\ (rep'[r].highQc = Highs[r] \/ rep'[r].highQc.sequence > Highs[r].sequence)
    BY <1>1, <1>2, <1>4 DEF HighMoves, Highs
  <2>5. PICK q \in Qc : q = rep'[r].highQc
    BY <2>4
  <2>6. PP!SyncProof(r, qc.view, q)
    BY <1>5, <2>1, <2>2, <2>3, <2>4, <2>5, PaceSets
       DEF PP!SyncProof, PP!ChangeViewTo, Highs, paceVars
  <2>. QED  BY <1>4, <2>6, PaceSets DEF PP!Next
<1>6. CASE ~ (qc.view >= view[r])
  <2>1. UNCHANGED <<view, active>>
    BY <1>1, <1>3, <1>6 DEF ViewOfProof, TypeOK
  <2>. QED  BY <1>2, <2>1, HighIsPace
<1>. QED  BY <1>5, <1>6

LEMMA StepIsPace ==
  ASSUME SystemInv, [SystemNext]_systemVars
  PROVE  PP!Next \/ UNCHANGED PP!vars
<1>1. ChainInv /\ IInv /\ OrderInv /\ TypeOK /\ rep \in [Replica -> Rep]
  BY EngineFacts DEF SystemInv, TypeOK
<1>2. CASE UNCHANGED systemVars
  BY <1>2 DEF systemVars, paceVars, coreVars, PP!vars
<1>3. ASSUME NEW r \in Replica, RotateBegin(r)
      PROVE  PP!Next
  BY <1>3, PaceSteps, PaceSets DEF RotateBegin, PP!Next
<1>4. ASSUME NEW r \in Replica, RotateSend(r)
      PROVE  PP!Next
  BY <1>4, PaceSteps, PaceSets DEF RotateSend, PP!Next
<1>5. ASSUME NEW r \in Replica, NEW m \in newViews, RecvNewView(r, m)
      PROVE  PP!Next
  BY <1>5, PaceSteps, PaceSets DEF RecvNewView, PP!Next
<1>6. ASSUME NEW r \in Replica, OnTimeout(r)
      PROVE  PP!Next
  BY <1>6, PaceSteps, PaceSets DEF OnTimeout, PP!Next
<1>7. ASSUME NEW r \in Replica, UNCHANGED paceVars, StartConsensus(r)
      PROVE  PP!Next \/ UNCHANGED PP!vars
  BY <1>7 DEF StartConsensus, paceVars, PP!vars
<1>8. ASSUME NEW r \in Replica, UNCHANGED paceVars, Propose(r)
      PROVE  PP!Next \/ UNCHANGED PP!vars
  <2>1. UNCHANGED <<view, active>>
    BY <1>8, Zenon DEF Propose
  <2>. QED  BY <1>1, <1>8, <2>1, ProposeHigh, HighIsPace
<1>9. ASSUME NEW r \in Replica, UNCHANGED paceVars,
             NEW h \in DOMAIN node \ {Genesis}, OnPropose(r, h)
      PROVE  PP!Next \/ UNCHANGED PP!vars
  <2>1. UNCHANGED <<view, active>>
    BY <1>9, Zenon DEF OnPropose
  <2>. QED  BY <1>1, <1>9, <2>1, OnProposeHigh, HighIsPace
<1>10. ASSUME NEW r \in Replica, UNCHANGED paceVars, NEW vote \in votes, OnVote(r, vote)
       PROVE  PP!Next \/ UNCHANGED PP!vars
  <2>1. UNCHANGED <<view, active>>
    BY <1>10, Zenon DEF OnVote
  <2>. QED  BY <1>1, <1>10, <2>1, OnVoteHigh, HighIsPace
<1>11. ASSUME NEW r \in Replica, UNCHANGED paceVars, NEW qc \in decides, OnDecide(r, qc)
       PROVE  PP!Next \/ UNCHANGED PP!vars
  <2>1. UNCHANGED <<view, active>>
    BY <1>11, Zenon DEF OnDecide
  <2>. QED  BY <1>1, <1>11, <2>1, OnDecideHigh, HighIsPace
<1>12. ASSUME NEW r \in Replica, UNCHANGED paceVars, NEW qc \in proofs, Sync(r, qc)
       PROVE  PP!Next \/ UNCHANGED PP!vars
  BY <1>12, SyncIsPace
<1>. QED  BY <1>2, <1>3, <1>4, <1>5, <1>6, <1>7, <1>8, <1>9, <1>10, <1>11, <1>12
          DEF SystemNext, CoreStep

-----------------------------------------------------------------------------
(* The invariant is inductive                                              *)

LEMMA InitSystem == SystemInit => SystemInv /\ PP!Init
<1>. SUFFICES ASSUME SystemInit PROVE SystemInv /\ PP!Init
  OBVIOUS
<1>1. Init /\ EngineInv /\ newViews = {}
  BY InitEngine DEF SystemInit
<1>2. \A r \in Replica : rep[r].highQc = NoQc
  BY <1>1 DEF Init, InitialRep
<1>3. PP!Init
  <2>1. nvMap = [r \in Replica |-> [v \in View |-> PP!Absent]]
    BY DEF SystemInit, Pace!Absent, PP!Absent
  <2>2. lastTc = [r \in Replica |-> PP!NoTc]
    BY DEF SystemInit, Pace!NoTc, PP!NoTc
  <2>3. Highs = [r \in Replica |-> NoQc]
    BY <1>2 DEF Highs
  <2>. QED  BY <1>1, <2>1, <2>2, <2>3, PaceSets DEF SystemInit, Init, PP!Init, Highs
<1>4. PP!IInv
  BY <1>3, PaceAssumptions, PP!InitIInv
<1>5. IsFiniteSet(newViews)
  BY <1>1, FS_EmptySet
<1>6. HighsAdoptable
  BY <1>1, <1>2 DEF HighsAdoptable, Adoptable
<1>. QED  BY <1>1, <1>3, <1>4, <1>5, <1>6 DEF SystemInv

\* What is broadcast in a step carries the highest certificate of its sender.
LEMMA NewNewViews ==
  ASSUME SystemInv, [SystemNext]_systemVars
  PROVE  \/ newViews' = newViews
         \/ \E r \in Replica : \E S \in SUBSET View :
              /\ Alive(r)
              /\ newViews' = newViews \cup {PP!NewNewView(r, v) : v \in S}
<1>1. CASE UNCHANGED systemVars
  BY <1>1 DEF systemVars, paceVars
<1>2. ASSUME NEW r \in Replica, RotateBegin(r) \/ \E m \in newViews : RecvNewView(r, m)
      PROVE  newViews' = newViews
  BY <1>2 DEF RotateBegin, Pace!RotateBegin, RecvNewView, Pace!RecvNewView
<1>3. ASSUME NEW r \in Replica, RotateSend(r)
      PROVE  \E S \in SUBSET View : Alive(r) /\ newViews' = newViews \cup {PP!NewNewView(r, v) : v \in S}
  <2>1. view[r] + 1 \in View
    <3>1. view[r] \in Nat /\ view[r] < MaxView
      BY <1>3, EngineFacts DEF RotateSend, SystemInv
    <3>. QED  BY <3>1, ConsensusAssumption DEF View
  <2>2. newViews' = newViews \cup {PP!NewNewView(r, view[r] + 1)}
    BY <1>3, PaceSteps DEF RotateSend, PP!RotateSend
  <2>3. {PP!NewNewView(r, v) : v \in {view[r] + 1}} = {PP!NewNewView(r, view[r] + 1)}
    OBVIOUS
  <2>. QED  BY <1>3, <2>1, <2>2, <2>3 DEF RotateSend
<1>4. ASSUME NEW r \in Replica, OnTimeout(r)
      PROVE  \E S \in SUBSET View : Alive(r) /\ newViews' = newViews \cup {PP!NewNewView(r, v) : v \in S}
  <2>1. PICK due \in SUBSET PP!SentViews(r) :
          newViews' = newViews \cup {PP!NewNewView(r, v) : v \in due}
    BY <1>4, PaceSteps DEF OnTimeout, PP!OnTimeout
  <2>2. due \in SUBSET View
    BY PaceSets DEF PP!SentViews
  <2>. QED  BY <1>4, <2>1, <2>2 DEF OnTimeout
<1>5. ASSUME NEW r \in Replica, UNCHANGED paceVars
      PROVE  newViews' = newViews
  BY <1>5 DEF paceVars
<1>. QED  BY <1>1, <1>2, <1>3, <1>4, <1>5 DEF SystemNext

LEMMA NextSystem == SystemInv /\ [SystemNext]_systemVars => SystemInv'
<1>. SUFFICES ASSUME SystemInv, [SystemNext]_systemVars PROVE SystemInv'
  OBVIOUS
<1>1. [Next]_vars /\ EngineInv /\ EngineInv'
  BY StepIsConsensus, NextKeepsEngine DEF SystemInv
<1>2. PP!IInv'
  BY StepIsPace, PaceAssumptions, PP!NextIInv DEF SystemInv
<1>3. IsFiniteSet(newViews')
  <2>1. CASE newViews' = newViews
    BY <2>1 DEF SystemInv
  <2>2. ASSUME NEW r \in Replica, NEW S \in SUBSET View,
               newViews' = newViews \cup {PP!NewNewView(r, v) : v \in S}
        PROVE  IsFiniteSet(newViews')
    <3>1. IsFiniteSet(View)
      BY ConsensusAssumption, FS_Interval DEF View
    <3>2. IsFiniteSet(S)
      BY <3>1, FS_Subset
    <3>3. IsFiniteSet({PP!NewNewView(r, v) : v \in S})
      <4>. DEFINE T == {PP!NewNewView(r, v) : v \in S}
                  f == [v \in S |-> PP!NewNewView(r, v)]
      <4>1. f \in Surjection(S, T)
        BY DEF Surjection
      <4>. HIDE DEF f, T
      <4>2. IsFiniteSet(T)
        BY <3>2, <4>1, FS_Surjection
      <4>. QED  BY <4>2 DEF T
    <3>. QED  BY <2>2, <3>3, FS_Union DEF SystemInv
  <2>. QED  BY <2>1, <2>2, NewNewViews
<1>4. Certificates \subseteq Certificates'
  <2>1. CASE UNCHANGED vars
    BY <2>1 DEF vars, Certificates
  <2>2. CASE Next
    BY <1>1, <2>2, NextMoves DEF Moves, Certificates
  <2>. QED  BY <1>1, <2>1, <2>2
<1>5. \A m \in newViews' : m.high \in Adoptable'
  <2>1. \A m \in newViews : m.high \in Adoptable'
    BY <1>4 DEF SystemInv, HighsAdoptable, Adoptable
  <2>2. ASSUME NEW r \in Replica, NEW S \in SUBSET View, Alive(r)
        PROVE  \A v \in S : PP!NewNewView(r, v).high \in Adoptable'
    BY <1>4, <2>2 DEF PP!NewNewView, SystemInv, HighsAdoptable, Adoptable
  <2>. QED  BY <2>1, <2>2, NewNewViews
<1>6. \A q \in Replica : Alive(q)' => rep'[q].highQc \in Adoptable'
  <2>1. CASE UNCHANGED vars
    BY <1>4, <2>1 DEF vars, SystemInv, HighsAdoptable, Adoptable, Alive
  <2>2. CASE Next
    <3>1. PICK r \in Replica : HighMoves(r) /\ Alive(r)
      BY <1>1, <2>2, NextMoves DEF Moves
    <3>2. \A q \in Replica \ {r} : Alive(q)' => rep'[q].highQc \in Adoptable'
      BY <1>4, <3>1 DEF HighMoves, SystemInv, HighsAdoptable, Adoptable, Alive
    <3>3. Alive(r)' => rep'[r].highQc \in Adoptable'
      BY <1>4, <3>1 DEF HighMoves, SystemInv, HighsAdoptable, Adoptable, Alive
    <3>. QED  BY <3>2, <3>3
  <2>. QED  BY <1>1, <2>1, <2>2
<1>. QED  BY <1>1, <1>2, <1>3, <1>5, <1>6 DEF SystemInv, HighsAdoptable

-----------------------------------------------------------------------------
(* What the pacemaker does to certificates it does to their sequences       *)

\* What AbstractPace is given for the pacemaker's variables.
AbstractMsg(m) == [m EXCEPT !.high = Abstract(@)]
AbstractEntries(S) == {[from |-> e.from, high |-> Abstract(e.high)] : e \in S}
AbstractHighs == [r \in Replica |-> Abstract(rep[r].highQc)]
AbstractMap == [r \in Replica |-> [v \in View |-> AbstractNv(nvMap[r][v])]]
AbstractSent == {[m EXCEPT !.high = Abstract(@)] : m \in newViews}

\* The sequences that AbstractPace knows.
AbstractHighQc == {[sequence |-> s] : s \in 0 .. (MaxNodes + 1)}

LEMMA AbstractSets == AbstractPace!Replica = Replica /\ AbstractPace!View = View
<1>1. AbstractPace!View = View
  BY SystemAssumption, ConsensusAssumption DEF AbstractPace!View, View
<1>2. AbstractPace!Replica = Replica
  BY DEF AbstractPace!Replica, Replica
<1>. QED  BY <1>1, <1>2

LEMMA AbstractMsgFields ==
  ASSUME NEW m \in PP!NewViewMsg
  PROVE  /\ AbstractMsg(m).from = m.from /\ AbstractMsg(m).view = m.view
         /\ AbstractMsg(m).lastTc = m.lastTc /\ AbstractMsg(m).high = Abstract(m.high)
BY DEF AbstractMsg, PP!NewViewMsg

LEMMA AbstractNvFields ==
  ASSUME NEW i \in PP!NvInstance
  PROVE  /\ AbstractNv(i).newViewProto = AbstractEntries(i.newViewProto)
         /\ AbstractNv(i).sent = i.sent /\ AbstractNv(i).complete = i.complete
         /\ AbstractNv(i) = [newViewProto |-> AbstractEntries(i.newViewProto),
                             sent |-> i.sent, complete |-> i.complete]
BY DEF AbstractNv, AbstractEntries, PP!NvInstance

\* Who sent the NEWVIEWs of an instance does not depend on their certificates.
LEMMA AbstractVoters ==
  ASSUME NEW S
  PROVE  AbstractPace!Voters(AbstractEntries(S)) = PP!Voters(S)
<1>1. \A e \in S : [from |-> e.from, high |-> Abstract(e.high)].from = e.from
  OBVIOUS
<1>2. ASSUME NEW x \in PP!Voters(S)
      PROVE  x \in AbstractPace!Voters(AbstractEntries(S))
  <2>1. PICK e \in S : x = e.from
    BY DEF PP!Voters
  <2>2. [from |-> e.from, high |-> Abstract(e.high)] \in AbstractEntries(S)
    BY DEF AbstractEntries
  <2>. QED  BY <1>1, <2>1, <2>2 DEF AbstractPace!Voters
<1>3. ASSUME NEW x \in AbstractPace!Voters(AbstractEntries(S))
      PROVE  x \in PP!Voters(S)
  <2>1. PICK a \in AbstractEntries(S) : x = a.from
    BY DEF AbstractPace!Voters
  <2>2. PICK e \in S : a = [from |-> e.from, high |-> Abstract(e.high)]
    BY DEF AbstractEntries
  <2>. QED  BY <1>1, <2>1, <2>2 DEF PP!Voters
<1>. QED  BY <1>2, <1>3

LEMMA AbstractQuorum ==
  ASSUME NEW S
  PROVE  AbstractPace!IsQuorum(S) <=> PP!IsQuorum(S)
BY Zenon DEF AbstractPace!IsQuorum, PP!IsQuorum, AbstractPace!GetQuorumSize, PP!GetQuorumSize,
   AbstractPace!Cardinality, PP!Cardinality

\* onNewView takes the message, completes the view change and follows the
\* certificate just as it does with the sequences.
LEMMA AbstractGuards ==
  ASSUME SystemInv, NEW r \in Replica, NEW m \in PP!NewViewMsg
  PROVE  /\ AbstractPace!CatchesUp(r, AbstractMsg(m)) <=> PP!CatchesUp(r, m)
         /\ AbstractPace!Adds(r, AbstractMsg(m)) <=> PP!Adds(r, m)
         /\ AbstractPace!Completes(r, AbstractMsg(m)) <=> PP!Completes(r, m)
         /\ AbstractPace!Added(r, AbstractMsg(m)) = AbstractEntries(PP!Added(r, m))
<1>. DEFINE a == AbstractMsg(m)
<1>1. /\ a.from = m.from /\ a.view = m.view /\ a.lastTc = m.lastTc /\ a.high = Abstract(m.high)
      /\ m.view \in View
  BY AbstractMsgFields, PaceSets DEF PP!NewViewMsg
<1>. HIDE DEF a
<1>2. nvMap[r][m.view] \in PP!NvInstance
  BY <1>1, PaceSets DEF SystemInv, PP!IInv, PP!TypeOK
<1>3. AbstractMap[r][m.view].newViewProto = AbstractEntries(nvMap[r][m.view].newViewProto)
  BY <1>1, <1>2, AbstractNvFields DEF AbstractMap
<1>4. \A tc : AbstractPace!IsValid(tc) <=> PP!IsValid(tc)
  BY AbstractQuorum, AbstractSets, PaceSets DEF AbstractPace!IsValid, PP!IsValid
<1>5. AbstractPace!TcAhead(r, a) <=> PP!TcAhead(r, m)
  BY <1>1 DEF AbstractPace!TcAhead, PP!TcAhead
<1>6. AbstractPace!CatchesUp(r, a) <=> PP!CatchesUp(r, m)
  BY <1>1, <1>4, <1>5 DEF AbstractPace!CatchesUp, PP!CatchesUp
<1>7. AbstractPace!ViewAfterTc(r, a) = PP!ViewAfterTc(r, m)
  BY <1>1, <1>6 DEF AbstractPace!ViewAfterTc, PP!ViewAfterTc
<1>8. AbstractPace!Voters(AbstractMap[r][m.view].newViewProto)
        = PP!Voters(nvMap[r][m.view].newViewProto)
  BY <1>3, AbstractVoters
<1>9. AbstractPace!Adds(r, a) <=> PP!Adds(r, m)
  BY <1>1, <1>4, <1>5, <1>7, <1>8 DEF AbstractPace!Adds, PP!Adds, AbstractMap
<1>10. AbstractPace!Added(r, a) = AbstractEntries(PP!Added(r, m))
  <2>1. AbstractPace!Added(r, a) = AbstractMap[r][m.view].newViewProto
                                     \cup {[from |-> m.from, high |-> Abstract(m.high)]}
    BY <1>1 DEF AbstractPace!Added, AbstractMap
  <2>. DEFINE S == nvMap[r][m.view].newViewProto
              n == [from |-> m.from, high |-> m.high]
  <2>2. n.from = m.from /\ n.high = m.high
    OBVIOUS
  <2>. HIDE DEF n
  <2>3. AbstractEntries(S \cup {n}) = AbstractEntries(S) \cup {[from |-> n.from, high |-> Abstract(n.high)]}
    BY DEF AbstractEntries
  <2>4. AbstractEntries(S \cup {n}) = AbstractEntries(S) \cup {[from |-> m.from, high |-> Abstract(m.high)]}
    BY <2>2, <2>3
  <2>5. PP!Added(r, m) = S \cup {n}
    BY DEF PP!Added, n
  <2>. QED  BY <1>3, <2>1, <2>4, <2>5
<1>11. AbstractPace!Completes(r, a) <=> PP!Completes(r, m)
  BY <1>9, <1>10, AbstractVoters, AbstractQuorum DEF AbstractPace!Completes, PP!Completes
<1>. QED  BY <1>6, <1>9, <1>10, <1>11 DEF a

LEMMA AbstractOnNewView ==
  ASSUME SystemInv, SystemInv', NEW r \in Replica, NEW m \in PP!NewViewMsg, NEW selfMsg,
         PP!OnNewView(r, m, selfMsg)
  PROVE  AbstractPace!OnNewView(r, AbstractMsg(m), selfMsg)
<1>. DEFINE a == AbstractMsg(m)
            w == m.view
            ins == [newViewProto |-> PP!Added(r, m),
                    sent         |-> nvMap[r][w].sent \/ selfMsg,
                    complete     |-> nvMap[r][w].complete \/ PP!Completes(r, m)]
            absIns == [newViewProto |-> AbstractPace!Added(r, a),
                       sent         |-> AbstractMap[r][w].sent \/ selfMsg,
                       complete     |-> AbstractMap[r][w].complete \/ AbstractPace!Completes(r, a)]
<1>1. /\ a.view = w /\ a.lastTc = m.lastTc /\ w \in View
  BY AbstractMsgFields, PaceSets DEF PP!NewViewMsg
<1>2. /\ nvMap \in [Replica -> [View -> PP!NvInstance]]
      /\ nvMap' \in [Replica -> [View -> PP!NvInstance]]
  BY PaceSets DEF SystemInv, PP!IInv, PP!TypeOK
<1>3. /\ AbstractPace!CatchesUp(r, a) <=> PP!CatchesUp(r, m)
      /\ AbstractPace!Adds(r, a) <=> PP!Adds(r, m)
      /\ AbstractPace!Completes(r, a) <=> PP!Completes(r, m)
      /\ AbstractPace!Added(r, a) = AbstractEntries(PP!Added(r, m))
  BY AbstractGuards
<1>4. ASSUME PP!Adds(r, m)
      PROVE  AbstractMap' = [AbstractMap EXCEPT ![r][w] = absIns]
  <2>1. nvMap' = [nvMap EXCEPT ![r][w] = ins]
    BY <1>4 DEF PP!OnNewView
  <2>2. nvMap'[r][w] = ins
    <3>. HIDE DEF ins, w
    <3>. QED  BY <1>1, <1>2, <2>1
  <2>3. AbstractNv(ins) = absIns
    <3>1. ins \in PP!NvInstance
      BY <1>1, <1>2, <2>2
    <3>2. AbstractMap[r][w].sent = nvMap[r][w].sent /\ AbstractMap[r][w].complete = nvMap[r][w].complete
      <4>. HIDE DEF w
      <4>. QED  BY <1>1, <1>2, AbstractNvFields DEF AbstractMap
    <3>3. AbstractNv(ins) = [newViewProto |-> AbstractEntries(ins.newViewProto),
                             sent |-> ins.sent, complete |-> ins.complete]
      <4>. HIDE DEF ins
      <4>. QED  BY <3>1, AbstractNvFields
    <3>. HIDE DEF a, w
    <3>. QED  BY <1>3, <3>2, <3>3
  <2>4. AbstractMap' = [AbstractMap EXCEPT ![r][w] = absIns]
    <3>. HIDE DEF ins, absIns, w
    <3>1. \A q \in Replica, v \in View :
            nvMap'[q][v] = IF q = r /\ v = w THEN ins ELSE nvMap[q][v]
      BY <1>1, <1>2, <2>1
    <3>2. AbstractMap' = [q \in Replica |-> [v \in View |->
                            IF q = r /\ v = w THEN absIns ELSE AbstractNv(nvMap[q][v])]]
      BY <2>3, <3>1 DEF AbstractMap, AbstractNv
    <3>. QED  BY <1>1, <3>2 DEF AbstractMap
  <2>. QED  BY <2>4
<1>5. ASSUME ~ PP!Adds(r, m)
      PROVE  AbstractMap' = AbstractMap
  <2>1. nvMap' = nvMap
    BY <1>5 DEF PP!OnNewView
  <2>. QED  BY <2>1 DEF AbstractMap, AbstractNv
<1>6. IF AbstractPace!Adds(r, a)
      THEN AbstractMap' = [AbstractMap EXCEPT ![r][w] = absIns]
      ELSE AbstractMap' = AbstractMap
  <2>. HIDE DEF absIns, w, a
  <2>. QED  BY <1>3, <1>4, <1>5
<1>7. AbstractPace!GetTc(w, AbstractPace!Added(r, a)) = PP!GetTc(w, PP!Added(r, m))
  BY <1>3, AbstractVoters DEF AbstractPace!GetTc, PP!GetTc
<1>8. \/ /\ PP!Completes(r, m)
         /\ PP!ChangeViewTo(r, w)
         /\ lastTc' = [lastTc EXCEPT ![r] = PP!GetTc(w, PP!Added(r, m))]
      \/ /\ ~ PP!Completes(r, m)
         /\ PP!CatchesUp(r, m)
         /\ PP!ChangeViewTo(r, m.lastTc.view)
         /\ UNCHANGED lastTc
      \/ /\ ~ PP!Completes(r, m)
         /\ ~ PP!CatchesUp(r, m)
         /\ UNCHANGED <<view, active, lastTc>>
  BY Zenon DEF PP!OnNewView
<1>9. \A v : PP!ChangeViewTo(r, v) => AbstractPace!ChangeViewTo(r, v)
  BY DEF PP!ChangeViewTo, AbstractPace!ChangeViewTo
<1>10. \/ /\ AbstractPace!Completes(r, a)
          /\ AbstractPace!ChangeViewTo(r, a.view)
          /\ lastTc' = [lastTc EXCEPT ![r] = AbstractPace!GetTc(a.view, AbstractPace!Added(r, a))]
       \/ /\ ~ AbstractPace!Completes(r, a)
          /\ AbstractPace!CatchesUp(r, a)
          /\ AbstractPace!ChangeViewTo(r, a.lastTc.view)
          /\ UNCHANGED lastTc
       \/ /\ ~ AbstractPace!Completes(r, a)
          /\ ~ AbstractPace!CatchesUp(r, a)
          /\ UNCHANGED <<view, active, lastTc>>
  <2>. HIDE DEF a, w
  <2>. QED  BY <1>1, <1>3, <1>7, <1>8, <1>9
<1>11. \/ ~ AbstractPace!Adds(r, a)
       \/ AbstractMap' = [AbstractMap EXCEPT ![r][a.view] =
                            [newViewProto |-> AbstractPace!Added(r, a),
                             sent         |-> @.sent \/ selfMsg,
                             complete     |-> @.complete \/ AbstractPace!Completes(r, a)]]
  <2>. HIDE DEF a, w
  <2>. QED  BY <1>1, <1>6
<1>. QED  BY <1>6, <1>10, <1>11, Zenon DEF AbstractPace!OnNewView, AbstractMap

LEMMA AbstractNewNewView ==
  ASSUME SystemInv, NEW r \in Replica, NEW v \in View
  PROVE  /\ AbstractPace!NewNewView(r, v) = AbstractMsg(PP!NewNewView(r, v))
         /\ PP!NewNewView(r, v) \in PP!NewViewMsg
<1>1. PP!NewNewView(r, v) \in PP!NewViewMsg
  BY PaceSets DEF SystemInv, PP!IInv, PP!TypeOK, PP!NewNewView, PP!NewViewMsg
<1>2. AbstractPace!NewNewView(r, v) = AbstractMsg(PP!NewNewView(r, v))
  BY DEF AbstractPace!NewNewView, PP!NewNewView, AbstractMsg
<1>. QED  BY <1>1, <1>2

\* Two messages may become one when only the sequence of their certificate
\* counts, so no more are sent than before.
LEMMA AbstractBroadcast ==
  ASSUME SystemInv, NEW S, IsFiniteSet(S), PP!MayBroadcast(S)
  PROVE  AbstractPace!MayBroadcast({AbstractMsg(m) : m \in S})
<1>. DEFINE all == newViews \cup S
            image == {AbstractMsg(m) : m \in all}
            f == [m \in all |-> AbstractMsg(m)]
<1>1. \A T : PP!Cardinality(T) = Cardinality(T) /\ AbstractPace!Cardinality(T) = Cardinality(T)
  BY Zenon DEF PP!Cardinality, AbstractPace!Cardinality, Cardinality
<1>2. IsFiniteSet(all)
  BY FS_Union DEF SystemInv
<1>3. f \in Surjection(all, image)
  BY DEF Surjection
<1>4. Cardinality(image) <= Cardinality(all)
  <2>. HIDE DEF f, image, all
  <2>. QED  BY <1>2, <1>3, FS_Surjection
<1>5. IsFiniteSet(image)
  <2>. HIDE DEF f, image, all
  <2>. QED  BY <1>2, <1>3, FS_Surjection
<1>6. Cardinality(all) <= MaxNewViews
  BY <1>1 DEF PP!MayBroadcast
<1>7. Cardinality(image) \in Nat /\ Cardinality(all) \in Nat
  BY <1>2, <1>5, FS_CardinalityType
<1>8. AbstractSent \cup {AbstractMsg(m) : m \in S} = image
  BY DEF AbstractSent, AbstractMsg
<1>9. Cardinality(image) <= MaxNewViews
  <2>. HIDE DEF image, all
  <2>. QED  BY <1>4, <1>6, <1>7, SystemAssumption
<1>10. AbstractPace!Cardinality(AbstractSent \cup {AbstractMsg(m) : m \in S}) <= MaxNewViews
  <2>. HIDE DEF image
  <2>. QED  BY <1>1, <1>8, <1>9
<1>. QED  BY <1>10 DEF AbstractPace!MayBroadcast, AbstractSent

\* The pacemaker's steps of the engine are those of the abstract pacemaker.
LEMMA AbstractRotateBegin ==
  ASSUME SystemInv, NEW r \in Replica, PP!RotateBegin(r)
  PROVE  AbstractPace!RotateBegin(r)
<1>1. UNCHANGED <<AbstractMap, AbstractHighs, AbstractSent>>
  <2>1. UNCHANGED <<nvMap, newViews>> /\ UNCHANGED [q \in Replica |-> rep[q].highQc]
    BY DEF PP!RotateBegin
  <2>2. \A q \in Replica : rep'[q].highQc = rep[q].highQc
    BY <2>1
  <2>. QED  BY <2>1, <2>2 DEF AbstractMap, AbstractHighs, AbstractSent, Abstract, AbstractNv
<1>. QED  BY <1>1 DEF PP!RotateBegin, AbstractPace!RotateBegin, AbstractMap, AbstractHighs, AbstractSent

LEMMA AbstractRecvNewView ==
  ASSUME SystemInv, SystemInv', NEW r \in Replica, NEW m \in newViews, PP!RecvNewView(r, m)
  PROVE  AbstractPace!RecvNewView(r, AbstractMsg(m)) /\ AbstractMsg(m) \in AbstractSent
<1>1. m \in PP!NewViewMsg
  BY DEF SystemInv, PP!IInv, PP!TypeOK
<1>2. AbstractPace!OnNewView(r, AbstractMsg(m), FALSE)
  BY <1>1, AbstractOnNewView DEF PP!RecvNewView
<1>3. UNCHANGED <<AbstractHighs, AbstractSent>>
  <2>1. UNCHANGED newViews /\ UNCHANGED [q \in Replica |-> rep[q].highQc]
    BY DEF PP!RecvNewView
  <2>2. \A q \in Replica : rep'[q].highQc = rep[q].highQc
    BY <2>1
  <2>. QED  BY <2>1, <2>2 DEF AbstractHighs, AbstractSent, Abstract
<1>4. AbstractMsg(m).from # r
  BY <1>1, AbstractMsgFields DEF PP!RecvNewView
<1>5. UNCHANGED rotating
  BY DEF PP!RecvNewView
<1>6. AbstractMsg(m) \in AbstractSent
  BY DEF AbstractMsg, AbstractSent
<1>. QED  BY <1>2, <1>3, <1>4, <1>5, <1>6 DEF AbstractPace!RecvNewView, AbstractHighs, AbstractSent

LEMMA AbstractRotateSend ==
  ASSUME SystemInv, SystemInv', NEW r \in Replica, PP!RotateSend(r)
  PROVE  AbstractPace!RotateSend(r)
<1>. DEFINE m == PP!NewNewView(r, view[r] + 1)
            a == AbstractPace!NewNewView(r, view[r] + 1)
<1>1. view[r] + 1 \in View
  <2>1. view[r] \in Nat
    BY EngineFacts DEF SystemInv
  <2>2. view[r] <= MaxView - 1
    BY DEF PP!RotateSend
  <2>. QED  BY <2>1, <2>2, ConsensusAssumption DEF View
<1>2. m \in PP!NewViewMsg /\ a = AbstractMsg(m)
  BY <1>1, AbstractNewNewView
<1>3. /\ rotating[r] /\ view[r] <= MaxView - 1 /\ PP!MayBroadcast({m})
      /\ rotating' = [rotating EXCEPT ![r] = FALSE]
      /\ PP!OnNewView(r, m, TRUE)
      /\ newViews' = newViews \cup {m}
      /\ UNCHANGED [q \in Replica |-> rep[q].highQc]
  BY DEF PP!RotateSend
<1>. HIDE DEF m
<1>4. AbstractPace!OnNewView(r, a, TRUE)
  BY <1>2, <1>3, AbstractOnNewView
<1>5. AbstractPace!MayBroadcast({a})
  <2>1. {AbstractMsg(n) : n \in {m}} = {AbstractMsg(m)}
    OBVIOUS
  <2>2. AbstractPace!MayBroadcast({AbstractMsg(n) : n \in {m}})
    BY <1>3, FS_Singleton, AbstractBroadcast
  <2>. QED  BY <1>2, <2>1, <2>2
<1>6. UNCHANGED AbstractHighs
  <2>1. \A q \in Replica : rep'[q].highQc = rep[q].highQc
    BY <1>3
  <2>. QED  BY <2>1 DEF AbstractHighs, Abstract
<1>7. AbstractSent' = AbstractSent \cup {a}
  BY <1>2, <1>3 DEF AbstractSent, AbstractMsg
<1>. QED  BY <1>3, <1>4, <1>5, <1>6, <1>7 DEF AbstractPace!RotateSend, AbstractHighs, AbstractSent

LEMMA AbstractOnTimeout ==
  ASSUME SystemInv, NEW r \in Replica, PP!OnTimeout(r)
  PROVE  AbstractPace!OnTimeout(r)
<1>. DEFINE kept(v) == IF v < view[r] - NewviewMessageOffset THEN PP!Absent ELSE nvMap[r][v]
            absKept(v) == IF v < view[r] - NewviewMessageOffset THEN AbstractPace!Absent
                          ELSE AbstractMap[r][v]
<1>1. PICK due \in SUBSET PP!SentViews(r) :
        /\ PP!MayBroadcast({PP!NewNewView(r, v) : v \in due})
        /\ nvMap' = [nvMap EXCEPT ![r] =
             [v \in PP!View |-> IF v < view[r] - NewviewMessageOffset THEN PP!Absent ELSE @[v]]]
        /\ newViews' = newViews \cup {PP!NewNewView(r, v) : v \in due}
        /\ UNCHANGED <<view, active, rotating, lastTc>>
        /\ UNCHANGED [q \in Replica |-> rep[q].highQc]
  BY DEF PP!OnTimeout
<1>2. nvMap \in [Replica -> [View -> PP!NvInstance]]
  BY PaceSets DEF SystemInv, PP!IInv, PP!TypeOK
<1>3. AbstractPace!SentViews(r) = PP!SentViews(r)
  <2>1. \A v \in View : AbstractMap[r][v].sent = nvMap[r][v].sent
    BY <1>2, AbstractNvFields DEF AbstractMap
  <2>. QED  BY <2>1, PaceSets, AbstractSets DEF AbstractPace!SentViews, PP!SentViews, AbstractMap
<1>4. due \in SUBSET View
  BY PaceSets DEF PP!SentViews
<1>. DEFINE S == {PP!NewNewView(r, v) : v \in due}
<1>5. IsFiniteSet(S)
  <2>. DEFINE f == [v \in due |-> PP!NewNewView(r, v)]
  <2>1. f \in Surjection(due, S)
    BY DEF Surjection
  <2>2. IsFiniteSet(due)
    <3>1. IsFiniteSet(View)
      BY ConsensusAssumption, FS_Interval DEF View
    <3>. QED  BY <1>4, <3>1, FS_Subset
  <2>. HIDE DEF f, S
  <2>. QED  BY <2>1, <2>2, FS_Surjection
<1>6. {AbstractPace!NewNewView(r, v) : v \in due} = {AbstractMsg(m) : m \in S}
  <2>1. \A v \in due : AbstractPace!NewNewView(r, v) = AbstractMsg(PP!NewNewView(r, v))
    BY <1>4, AbstractNewNewView
  <2>. HIDE DEF S
  <2>2. {AbstractPace!NewNewView(r, v) : v \in due} = {AbstractMsg(PP!NewNewView(r, v)) : v \in due}
    BY <2>1
  <2>. QED  BY <2>2 DEF S
<1>7. AbstractPace!MayBroadcast({AbstractPace!NewNewView(r, v) : v \in due})
  <2>1. AbstractPace!MayBroadcast({AbstractMsg(m) : m \in S})
    BY <1>1, <1>5, AbstractBroadcast
  <2>. HIDE DEF S
  <2>. QED  BY <1>6, <2>1
<1>8. AbstractMap' = [AbstractMap EXCEPT ![r] = [v \in View |-> absKept(v)]]
  <2>1. nvMap' = [nvMap EXCEPT ![r] = [v \in View |-> kept(v)]]
    BY <1>1, <1>2, PaceSets
  <2>2. AbstractNv(PP!Absent) = AbstractPace!Absent
    BY DEF AbstractNv, PP!Absent, AbstractPace!Absent
  <2>3. \A v \in View : AbstractNv(kept(v)) = absKept(v)
    BY <1>2, <2>2 DEF AbstractMap
  <2>4. \A q \in Replica, v \in View :
          nvMap'[q][v] = IF q = r THEN kept(v) ELSE nvMap[q][v]
    <3>. HIDE DEF kept
    <3>. QED  BY <1>2, <2>1
  <2>. HIDE DEF kept, absKept
  <2>5. AbstractMap' = [q \in Replica |-> [v \in View |->
                          IF q = r THEN absKept(v) ELSE AbstractNv(nvMap[q][v])]]
    BY <2>3, <2>4 DEF AbstractMap, AbstractNv
  <2>. QED  BY <2>5 DEF AbstractMap
<1>9. AbstractSent' = AbstractSent \cup {AbstractPace!NewNewView(r, v) : v \in due}
  BY <1>1, <1>6 DEF AbstractSent, AbstractMsg
<1>10. UNCHANGED AbstractHighs
  <2>1. \A q \in Replica : rep'[q].highQc = rep[q].highQc
    BY <1>1
  <2>. QED  BY <2>1 DEF AbstractHighs, Abstract
<1>11. AbstractMap' = [AbstractMap EXCEPT ![r] =
          [v \in AbstractPace!View |->
             IF v < view[r] - NewviewMessageOffset THEN AbstractPace!Absent ELSE @[v]]]
  BY <1>8, AbstractSets DEF AbstractMap
<1>12. due \in SUBSET AbstractPace!SentViews(r)
  BY <1>3
<1>. QED  BY <1>1, <1>7, <1>9, <1>10, <1>11, <1>12, Zenon
          DEF AbstractPace!OnTimeout, AbstractMap, AbstractSent, AbstractHighs

\* What the engine does to the highest certificate: the environment of the
\* abstract pacemaker does it to the sequence.
LEMMA AbstractHigh ==
  ASSUME SystemInv, SystemInv', NEW r \in Replica, NEW q \in Qc,
         Highs' = [Highs EXCEPT ![r] = q]
  PROVE  /\ AbstractHighs' = [AbstractHighs EXCEPT ![r] = Abstract(q)]
         /\ Abstract(q) \in AbstractHighQc
<1>1. \A s \in Replica : rep'[s].highQc = IF s = r THEN q ELSE rep[s].highQc
  BY DEF Highs
<1>2. AbstractHighs' = [AbstractHighs EXCEPT ![r] = Abstract(q)]
  BY <1>1 DEF AbstractHighs, Abstract
<1>3. q.sequence \in Nat /\ q.sequence <= MaxNodes + 1
  BY <1>1 DEF SystemInv, EngineInv, HighQcSeen, Qc
<1>. QED  BY <1>2, <1>3, ConsensusAssumption DEF Abstract, AbstractHighQc

LEMMA AbstractSyncProof ==
  ASSUME SystemInv, SystemInv', NEW r \in Replica, NEW v \in View, NEW q \in Qc,
         PP!SyncProof(r, v, q)
  PROVE  AbstractPace!SyncProof(r, v, Abstract(q)) /\ Abstract(q) \in AbstractHighQc
<1>1. /\ v >= view[r] /\ \E s \in Replica : view[s] >= v
      /\ q = rep[r].highQc \/ q.sequence > rep[r].highQc.sequence
      /\ PP!ChangeViewTo(r, v)
      /\ Highs' = [Highs EXCEPT ![r] = q]
      /\ UNCHANGED <<rotating, nvMap, lastTc, newViews>>
  BY PaceSets DEF PP!SyncProof, Highs
<1>2. /\ AbstractHighs' = [AbstractHighs EXCEPT ![r] = Abstract(q)]
      /\ Abstract(q) \in AbstractHighQc
  BY <1>1, AbstractHigh
<1>3. UNCHANGED <<AbstractMap, AbstractSent>>
  BY <1>1 DEF AbstractMap, AbstractSent, AbstractNv
<1>4. Abstract(q) = AbstractHighs[r] \/ Abstract(q).sequence > AbstractHighs[r].sequence
  BY <1>1 DEF AbstractHighs, Abstract
<1>5. AbstractPace!ChangeViewTo(r, v)
  BY <1>1 DEF PP!ChangeViewTo, AbstractPace!ChangeViewTo
<1>. QED  BY <1>1, <1>2, <1>3, <1>4, <1>5, AbstractSets
          DEF AbstractPace!SyncProof, AbstractMap, AbstractSent, AbstractHighs

LEMMA AbstractUpdateHighQc ==
  ASSUME SystemInv, SystemInv', NEW r \in Replica, NEW q \in Qc, PP!UpdateHighQc(r, q)
  PROVE  AbstractPace!UpdateHighQc(r, Abstract(q)) /\ Abstract(q) \in AbstractHighQc
<1>1. /\ q.sequence > rep[r].highQc.sequence
      /\ Highs' = [Highs EXCEPT ![r] = q]
      /\ UNCHANGED <<view, active, rotating, nvMap, lastTc, newViews>>
  BY DEF PP!UpdateHighQc, Highs
<1>2. /\ AbstractHighs' = [AbstractHighs EXCEPT ![r] = Abstract(q)]
      /\ Abstract(q) \in AbstractHighQc
  BY <1>1, AbstractHigh
<1>3. UNCHANGED <<AbstractMap, AbstractSent>>
  BY <1>1 DEF AbstractMap, AbstractSent, AbstractNv
<1>4. Abstract(q).sequence > AbstractHighs[r].sequence
  BY <1>1 DEF AbstractHighs, Abstract
<1>. QED  BY <1>1, <1>2, <1>3, <1>4
          DEF AbstractPace!UpdateHighQc, AbstractMap, AbstractSent, AbstractHighs

LEMMA AbstractStep ==
  ASSUME SystemInv, SystemInv', PP!Next \/ UNCHANGED PP!vars
  PROVE  AbstractPace!Next \/ UNCHANGED AbstractPace!vars
<1>1. CASE UNCHANGED PP!vars
  <2>1. /\ UNCHANGED <<view, active, rotating, nvMap, lastTc, newViews>>
        /\ UNCHANGED [q \in Replica |-> rep[q].highQc]
    BY <1>1 DEF PP!vars
  <2>2. \A q \in Replica : rep'[q].highQc = rep[q].highQc
    BY <2>1
  <2>3. UNCHANGED <<AbstractMap, AbstractHighs, AbstractSent>>
    BY <2>1, <2>2 DEF AbstractMap, AbstractSent, AbstractHighs, Abstract, AbstractNv
  <2>. QED  BY <2>1, <2>3 DEF AbstractPace!vars, AbstractMap, AbstractSent, AbstractHighs
<1>2. ASSUME NEW r \in Replica, PP!RotateBegin(r)
      PROVE  AbstractPace!Next
  BY <1>2, AbstractRotateBegin, AbstractSets DEF AbstractPace!Next
<1>3. ASSUME NEW r \in Replica, PP!RotateSend(r)
      PROVE  AbstractPace!Next
  BY <1>3, AbstractRotateSend, AbstractSets DEF AbstractPace!Next
<1>4. ASSUME NEW r \in Replica, NEW m \in newViews, PP!RecvNewView(r, m)
      PROVE  AbstractPace!Next
  BY <1>4, AbstractRecvNewView, AbstractSets DEF AbstractPace!Next, AbstractSent
<1>5. ASSUME NEW r \in Replica, PP!OnTimeout(r)
      PROVE  AbstractPace!Next
  BY <1>5, AbstractOnTimeout, AbstractSets DEF AbstractPace!Next
<1>6. ASSUME NEW r \in Replica, NEW v \in View, NEW q \in Qc, PP!SyncProof(r, v, q)
      PROVE  AbstractPace!Next
  BY <1>6, AbstractSyncProof, AbstractSets DEF AbstractPace!Next, AbstractHighQc
<1>7. ASSUME NEW r \in Replica, NEW q \in Qc, PP!UpdateHighQc(r, q)
      PROVE  AbstractPace!Next
  BY <1>7, AbstractUpdateHighQc, AbstractSets DEF AbstractPace!Next, AbstractHighQc
<1>. QED  BY <1>1, <1>2, <1>3, <1>4, <1>5, <1>6, <1>7, PaceSets DEF PP!Next

LEMMA AbstractInit == SystemInit => AbstractPace!Init
<1>. SUFFICES ASSUME SystemInit PROVE AbstractPace!Init
  OBVIOUS
<1>1. Init /\ newViews = {} /\ \A r \in Replica : rep[r].highQc = NoQc
  BY DEF SystemInit, Init, InitialRep
<1>2. AbstractHighs = [r \in Replica |-> [sequence |-> 0]]
  BY <1>1 DEF AbstractHighs, Abstract, NoQc
<1>3. AbstractMap = [r \in Replica |-> [v \in View |-> AbstractPace!Absent]]
  <2>1. AbstractNv(Pace!Absent) = AbstractPace!Absent
    BY DEF AbstractNv, Pace!Absent, AbstractPace!Absent
  <2>2. \A r \in Replica, v \in View : nvMap[r][v] = Pace!Absent
    BY DEF SystemInit
  <2>. QED  BY <2>1, <2>2 DEF AbstractMap
<1>4. AbstractSent = {}
  BY <1>1 DEF AbstractSent
<1>5. lastTc = [r \in Replica |-> AbstractPace!NoTc]
  BY DEF SystemInit, Pace!NoTc, AbstractPace!NoTc
<1>. QED  BY <1>1, <1>2, <1>3, <1>4, <1>5, AbstractSets
          DEF AbstractPace!Init, AbstractHighs, AbstractMap, AbstractSent, Init, SystemInit

-----------------------------------------------------------------------------
(* The theorems                                                            *)

\* The engine's inductive invariant holds in every state: those of its
\* consensus and of its pacemaker, and that each certificate a replica holds or
\* a NEWVIEW carries is one that a leader of the engine made.
THEOREM SystemInvariance == SystemSpec => []SystemInv
<1>1. SystemInit => SystemInv
  BY InitSystem
<1>2. SystemInv /\ [SystemNext]_systemVars => SystemInv'
  BY NextSystem
<1>. QED  BY <1>1, <1>2, PTL DEF SystemSpec

\* Driven by its own pacemaker the consensus behaves as its specification says:
\* the views a replica enters and the certificates that ViewChanged
\* (XbftConsensus.cpp:681) adopts are among those XbftConsensus lets its
\* environment choose.
THEOREM EngineIsConsensus == SystemSpec => RefinesConsensus
<1>1. SystemInit => Init
  BY DEF SystemInit
<1>2. SystemInv /\ [SystemNext]_systemVars => [Next]_vars
  BY StepIsConsensus
<1>. QED  BY <1>1, <1>2, SystemInvariance, PTL DEF SystemSpec, RefinesConsensus, Spec

\* Proposals, votes, decisions and synchronised proofs do to the view and to the
\* highest certificate only what XbftPaceMaker lets its environment do, whether
\* a certificate is itself or the sequence that the pacemaker compares.
THEOREM EngineIsPaceMaker == SystemSpec => RefinesPaceMaker
<1>1. SystemInit => AbstractPace!Init
  BY AbstractInit
<1>2. SystemInv /\ SystemInv' /\ [SystemNext]_systemVars => [AbstractPace!Next]_AbstractPace!vars
  BY StepIsPace, AbstractStep
<1>. QED  BY <1>1, <1>2, SystemInvariance, PTL DEF SystemSpec, RefinesPaceMaker, AbstractPace!Spec

\* What was proved of each component in an environment of its own holds of the
\* two together: values are handed over in the order of their chain and, before
\* the first view change, on one branch; no view is entered that a quorum did not
\* ask for; a completed view change loses no certificate that a quorum reported.
THEOREM EngineKeeps ==
  SystemSpec => [](/\ CertificatesBacked /\ ChainGrows /\ Agreement
                   /\ DeliveryFollowsChain /\ ExecutedOnThreeChain
                   /\ PP!EveryViewBacked /\ PP!TcSound /\ PP!HighQcSurvives)
<1>1. SystemSpec => Spec
  BY EngineIsConsensus DEF RefinesConsensus
<1>2. SystemSpec => PP!Spec
  <2>1. SystemInit => PP!Init
    BY InitSystem
  <2>2. SystemInv /\ [SystemNext]_systemVars => [PP!Next]_PP!vars
    BY StepIsPace
  <2>. QED  BY <2>1, <2>2, SystemInvariance, PTL DEF SystemSpec, PP!Spec
<1>3. Spec => [](CertificatesBacked /\ ChainGrows /\ Agreement
                 /\ DeliveryFollowsChain /\ ExecutedOnThreeChain)
  BY CertificatesHeld, CertificatesChain, BranchesAgree, DeliveryInOrder, ThreeChainExecuted, PTL
<1>4. PP!Spec => []PP!EveryViewBacked /\ []PP!TcSound /\ []PP!HighQcSurvives
  BY PaceAssumptions, PP!ViewsBacked, PP!TcsSound, PP!HighQcKept
<1>. QED  BY <1>1, <1>2, <1>3, <1>4, PTL

=============================================================================
