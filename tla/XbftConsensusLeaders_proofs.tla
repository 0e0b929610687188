-------------------- MODULE XbftConsensusLeaders_proofs --------------------
(***************************************************************************)
(* What one leader proposes, for every number of validators and every      *)
(* bound: that a leader whose ledger moves by its own certificates only    *)
(* makes one certificate for a sequence of its view, and that the values   *)
(* handed over of one view, and so before the first view change all of     *)
(* them, are of one branch. The invariant says why: of the nodes a leader made in its view at most one  *)
(* waits for votes, the one of the sequence after its ledger's, and while  *)
(* it waits m_lastConsSeq keeps the leader from proposing.                 *)
(***************************************************************************)
EXTENDS XbftConsensusChain_proofs

-----------------------------------------------------------------------------
(* The invariant                                                           *)

\* The nodes that r made as a leader.
Own(r) == {h \in DOMAIN node \ {Genesis} : GetLeaderId(node[h].view) = r}

OneProposal ==
  \A h, g \in DOMAIN node \ {Genesis} :
    /\ node[h].view = node[g].view
    /\ node[h].sequence = node[g].sequence
    /\ synced[GetLeaderId(node[h].view)] = {}
    => h = g

\* A node that is not the lowest of its view has a parent of the view.
ViewLinked ==
  \A h, g \in DOMAIN node \ {Genesis} :
    /\ node[h].view = node[g].view
    /\ node[g].sequence < node[h].sequence
    /\ synced[GetLeaderId(node[h].view)] = {}
    => node[h].parent \in DOMAIN node /\ node[node[h].parent].view = node[h].view

\* s, in view v, has one object of each node it made. It hands its value over with
\* the votes that make a quorum, and no other certificate is ever made of it.
OwnKept(r, s, v, C) ==
  \A h \in Own(r) :
    /\ node[h].view <= v
    /\ s.tree[h] = 1
    /\ \A qc \in C : qc.node = h => qc.signers = s.obj[<<h, 1>>].votes
    /\ s.obj[<<h, 1>>].preCommit => IsQuorum(s.obj[<<h, 1>>].votes)

\* Of the nodes r made in view v, h waits for votes and is for the next sequence
\* of its ledger, which m_lastConsSeq keeps it from proposing again; b: building.
IsWaiting(r, s, v, b, C, h) ==
  /\ \A qc \in C : qc.node # h
  /\ \A g \in Own(r) : node[g].view = v => node[g].sequence <= node[h].sequence
  /\ s.ledger.seq = node[h].sequence - 1
  /\ s.ledger.lastConsSeq = node[h].sequence
  /\ b = 0

\* h was certified; the ledger, whose proof is of the same view, and what is being
\* built are beyond it.
IsPast(s, b, h) ==
  /\ IsQuorum(s.obj[<<h, 1>>].votes)
  /\ node[h].sequence <= s.ledger.seq
  /\ s.ledger.proof # NoQc
  /\ node[s.ledger.proof.node].view = node[h].view
  /\ b = 0 \/ b > s.ledger.seq

LeaderMoves(r, s, v, b, C) ==
  \A h \in Own(r) : node[h].view = v => IsWaiting(r, s, v, b, C, h) \/ IsPast(s, b, h)

LeadersInv ==
  /\ ChainInv
  /\ OneProposal
  /\ ViewLinked
  /\ \A r \in Replica : synced[r] = {} =>
       /\ OwnKept(r, rep[r], view[r], Certificates)
       /\ LeaderMoves(r, rep[r], view[r], building[r], Certificates)

-----------------------------------------------------------------------------
(* What update hands over                                                  *)

\* Only the value of p is handed over, and if it is the ledger has its sequence and
\* certificate.
Hands(s, u, p, qc) ==
  /\ \A q \in Ptr : u.obj[q].preCommit => s.obj[q].preCommit \/ q = p
  /\ u.ledger.lastConsSeq = s.ledger.lastConsSeq
  /\ Undecided(s, p) /\ ~ s.obj[p].preCommit => u.ledger.seq = Sequence(p) /\ u.ledger.proof = qc

LEMMA CommitHands ==
  ASSUME NEW s \in Rep, NEW p \in Ptr
  PROVE  /\ Commit(s, p).ledger = s.ledger
         /\ \A q \in Ptr : Commit(s, p).obj[q].preCommit = s.obj[q].preCommit
<1>. DEFINE trail == Walk(s, p)
            o == [q \in Ptr |-> IF q \in ToSet(Front(trail))
                                THEN [s.obj[q] EXCEPT !.decision = TRUE]
                                ELSE s.obj[q]]
<1>1. \/ Commit(s, p) = [s EXCEPT !.crashed = TRUE]
      \/ Commit(s, p) = [s EXCEPT !.exec = p, !.obj = o]
      \/ Commit(s, p) = s
  <2>1. Commit(s, p) = CASE Last(trail) = Null -> [s EXCEPT !.crashed = TRUE]
                         [] Last(trail) = s.exec -> [s EXCEPT !.exec = p, !.obj = o]
                         [] OTHER -> s
    BY DEF Commit
  <2>. HIDE DEF trail, o
  <2>. QED  BY <2>1
<1>2. s.obj \in [Ptr -> Object]
  BY DEF Rep
<1>3. \A x \in Object : [x EXCEPT !.decision = TRUE].preCommit = x.preCommit
  BY DEF Object
<1>4. \A q \in Ptr : o[q].preCommit = s.obj[q].preCommit
  BY <1>2, <1>3
<1>. HIDE DEF o
<1>. QED  BY <1>1, <1>4 DEF Rep

LEMMA UpdateHands ==
  ASSUME TypeOK, NEW s \in Rep, NEW p \in Ref, NEW qc \in Qc,
         p # Null => p[1] \in DOMAIN node
  PROVE  Hands(s, Update(s, p, qc), p, qc)
<1>1. CASE ~ Undecided(s, p)
  BY <1>1 DEF Update, Hands
<1>2. CASE Undecided(s, p)
  <2>. DEFINE t    == PreCommit(s, p, qc)
              blk1 == t.obj[p].qcRef
              w    == Lock(t, blk1)
              blk  == w.obj[blk1].qcRef
              u    == Update(s, p, qc)
  <2>1. p \in Ptr /\ p[1] \in DOMAIN node
    BY <1>2 DEF Undecided, Ref
  <2>2. t \in Rep
    BY <2>1, PreCommitUpdates DEF Updated
  <2>3. Hands(s, t, p, qc)
    <3>1. CASE s.obj[p].preCommit
      BY <3>1 DEF PreCommit, Hands
    <3>2. CASE ~ s.obj[p].preCommit
      <4>. DEFINE x == [s.obj[p] EXCEPT !.preCommit = TRUE]
                  o == [s.obj EXCEPT ![p] = x]
                  l == [s.ledger EXCEPT !.seq = Sequence(p), !.proof = qc]
      <4>1. s.ledger \in Ledger /\ s.obj \in [Ptr -> Object]
        BY DEF Rep
      <4>2. l.seq = Sequence(p) /\ l.proof = qc /\ l.lastConsSeq = s.ledger.lastConsSeq
        BY <4>1 DEF Ledger
      <4>3. t = [s EXCEPT !.obj = o, !.ledger = l]
        BY <3>2, Zenon DEF PreCommit
      <4>. HIDE DEF x, l
      <4>4. \A q \in Ptr : q # p => o[q] = s.obj[q]
        BY <4>1
      <4>. HIDE DEF o, t
      <4>5. t.obj = o /\ t.ledger = l
        BY <4>3 DEF Rep
      <4>. QED  BY <4>2, <4>4, <4>5 DEF Hands
    <3>. QED  BY <3>1, <3>2
  <2>4. u = IF ~ Undecided(t, blk1) THEN t ELSE Execute(w, p, blk1)
    BY <1>2, Zenon DEF Update
  <2>5. CASE ~ Undecided(t, blk1)
    BY <2>3, <2>4, <2>5
  <2>6. CASE Undecided(t, blk1)
    <3>1. blk1 \in Ptr
      BY <2>1, <2>2, <2>6 DEF Undecided, Ref, Rep, Object
    <3>2. w = [t EXCEPT !.lock = blk1] \/ w = t
      BY DEF Lock
    <3>3. w \in Rep /\ w.ledger = t.ledger /\ w.obj = t.obj
      <4>. HIDE DEF t, blk1, w
      <4>. QED  BY <2>2, <3>1, <3>2 DEF Rep
    <3>4. \/ Execute(w, p, blk1) = w
          \/ Undecided(w, blk) /\ Execute(w, p, blk1) = Commit(w, blk)
      BY Zenon DEF Execute
    <3>5. Undecided(w, blk) => blk \in Ptr
      BY <3>1, <3>3 DEF Rep, Object, Undecided, Ref
    <3>6. u.ledger = t.ledger /\ \A q \in Ptr : u.obj[q].preCommit = t.obj[q].preCommit
      <4>. HIDE DEF w, blk, blk1, t
      <4>. QED  BY <2>4, <2>6, <3>3, <3>4, <3>5, CommitHands
    <3>. HIDE DEF t, u
    <3>7. Hands(s, u, p, qc)
      BY <2>3, <3>6 DEF Hands
    <3>. QED  BY <3>7 DEF u
  <2>. QED  BY <2>5, <2>6
<1>. QED  BY <1>1, <1>2

-----------------------------------------------------------------------------
(* The steps                                                               *)

\* What holds of each replica that has not synchronised.
LeaderGood(r, s, v, b, C) == OwnKept(r, s, v, C) /\ LeaderMoves(r, s, v, b, C)

LEMMA LeaderIsReplica ==
  ASSUME TypeOK, NEW h \in DOMAIN node
  PROVE  GetLeaderId(node[h].view) \in Replica
<1>1. node[h].view \in Nat
  BY NodeType, ViewType
<1>. PICK v \in Nat : v = node[h].view
  BY <1>1
<1>2. v % N \in 0 .. (N - 1)
  BY NAssumption
<1>. QED  BY <1>2 DEF GetLeaderId, Replica

\* Only r takes the step, makes no node, and makes certificates of its own only.
LEMMA LeadersStep ==
  ASSUME LeadersInv, ChainInv', node' = node, NEW r \in Replica,
         \A q \in Replica \ {r} : /\ rep'[q] = rep[q] /\ view'[q] = view[q]
                                  /\ building'[q] = building[q] /\ synced'[q] = synced[q],
         synced'[r] = {} => /\ synced[r] = {}
                            /\ LeaderGood(r, rep'[r], view'[r], building'[r], Certificates'),
         \A qc \in Certificates' : qc \in Certificates \/ qc.node \in Own(r)
  PROVE  LeadersInv'
<1>1. \A q \in Replica : synced'[q] = {} => synced[q] = {}
  OBVIOUS
<1>2. OneProposal' /\ ViewLinked'
  <2>1. \A h \in DOMAIN node : GetLeaderId(node[h].view) \in Replica
    BY LeaderIsReplica DEF LeadersInv, ChainInv, IInv
  <2>2. OneProposal'
    BY <1>1, <2>1 DEF LeadersInv, OneProposal, GetLeaderId
  <2>3. ViewLinked'
    BY <1>1, <2>1 DEF LeadersInv, ViewLinked, GetLeaderId
  <2>. QED  BY <2>2, <2>3
<1>3. ASSUME NEW q \in Replica, synced'[q] = {}
      PROVE  LeaderGood(q, rep'[q], view'[q], building'[q], Certificates')
  <2>1. CASE q = r
    BY <1>3, <2>1
  <2>2. CASE q # r
    <3>1. LeaderGood(q, rep'[q], view'[q], building'[q], Certificates)
      BY <1>1, <1>3, <2>2 DEF LeadersInv, LeaderGood
    <3>2. \A h \in Own(q) : h \notin Own(r)
      BY <2>2 DEF Own
    <3>3. \A qc \in Certificates' : qc.node \in Own(q) => qc \in Certificates
      BY <3>2
    <3>4. OwnKept(q, rep'[q], view'[q], Certificates')
      BY <3>1, <3>3 DEF LeaderGood, OwnKept
    <3>5. LeaderMoves(q, rep'[q], view'[q], building'[q], Certificates')
      BY <3>1, <3>3 DEF LeaderGood, LeaderMoves, IsWaiting
    <3>. QED  BY <3>4, <3>5 DEF LeaderGood
  <2>. QED  BY <2>1, <2>2
<1>4. ASSUME NEW q \in Replica, synced'[q] = {}
      PROVE  OwnKept(q, rep[q], view[q], Certificates)' /\ LeaderMoves(q, rep[q], view[q], building[q], Certificates)'
  <2>1. LeaderGood(q, rep'[q], view'[q], building'[q], Certificates')
    BY <1>3, <1>4
  <2>2. Own(q)' = Own(q)
    BY DEF Own, GetLeaderId
  <2>. QED  BY <2>1, <2>2 DEF LeaderGood, OwnKept, LeaderMoves, IsWaiting, IsPast, IsQuorum, GetQuorumSize
<1>. QED  BY <1>2, <1>4 DEF LeadersInv

\* What LeadersInv says of a replica that has not synchronised.
LEMMA LeaderFacts ==
  ASSUME LeadersInv, NEW r \in Replica
  PROVE  /\ TypeOK /\ rep[r] \in Rep /\ view[r] \in Nat
         /\ \A h \in Own(r) : h \in DOMAIN node \ {Genesis} /\ h \in Hash /\ <<h, 1>> \in Ptr
                              /\ node[h].view \in Nat /\ node[h].sequence \in Nat
         /\ synced[r] = {} => LeaderGood(r, rep[r], view[r], building[r], Certificates)
         /\ \A qc \in Certificates : qc.node \in DOMAIN node \ {Genesis} /\ IsQuorum(qc.signers)
<1>1. TypeOK /\ rep[r] \in Rep /\ view[r] \in Nat /\ CertsLinked(Certificates)
  BY ChainFacts, ViewType DEF LeadersInv, ChainInv, IInv, TypeOK
<1>2. ASSUME NEW h \in Own(r)
      PROVE  /\ h \in DOMAIN node \ {Genesis} /\ h \in Hash /\ <<h, 1>> \in Ptr
             /\ node[h].view \in Nat /\ node[h].sequence \in Nat
  <2>1. h \in DOMAIN node \ {Genesis} /\ h \in Hash
    BY <1>1, NodeType DEF Own
  <2>2. node[h].view \in Nat /\ node[h].sequence \in Nat
    BY <1>1, <2>1, NodeNumbers DEF NodesNumbered
  <2>. QED  BY <2>1, <2>2, HashType DEF Ptr
<1>3. ASSUME NEW qc \in Certificates
      PROVE  qc.node \in DOMAIN node \ {Genesis} /\ IsQuorum(qc.signers)
  <2>1. qc.node \in DOMAIN node \ {Genesis}
    BY <1>1 DEF CertsLinked
  <2>2. qc # NoQc
    BY <1>1, <2>1, NodeType, HashType DEF NoQc
  <2>. QED  BY <2>1, <2>2 DEF LeadersInv, ChainInv, IInv, AllBacked, AllQcs, Backed
<1>. QED  BY <1>1, <1>2, <1>3 DEF LeadersInv, LeaderGood

\* r is then not the leader of its view, or has just entered it.
LEMMA FollowerGood ==
  ASSUME LeadersInv, NEW r \in Replica, synced[r] = {}, NEW u, NEW v, NEW b, NEW C,
         \A h \in Own(r) : node[h].view # v, v >= view[r], v \in Nat,
         \A h \in Own(r) :
           /\ u.tree[h] = rep[r].tree[h]
           /\ u.obj[<<h, 1>>].votes = rep[r].obj[<<h, 1>>].votes
           /\ u.obj[<<h, 1>>].preCommit =>
                rep[r].obj[<<h, 1>>].preCommit \/ \E qc \in Certificates : qc.node = h,
         C \subseteq Certificates
  PROVE  LeaderGood(r, u, v, b, C)
<1>1. OwnKept(r, rep[r], view[r], Certificates)
  BY LeaderFacts DEF LeaderGood
<1>2. LeaderMoves(r, u, v, b, C)
  BY DEF LeaderMoves
<1>3. ASSUME NEW h \in Own(r)
      PROVE  /\ node[h].view <= v
             /\ u.tree[h] = 1
             /\ \A qc \in C : qc.node = h => qc.signers = u.obj[<<h, 1>>].votes
             /\ u.obj[<<h, 1>>].preCommit => IsQuorum(u.obj[<<h, 1>>].votes)
  <2>0. node[h].view \in Nat /\ view[r] \in Nat /\ h \in Own(r)
    BY LeaderFacts
  <2>1. node[h].view <= view[r]
    BY <1>1, Zenon DEF OwnKept
  <2>2. \A qc \in Certificates : qc.node = h =>
          qc.signers = rep[r].obj[<<h, 1>>].votes /\ IsQuorum(qc.signers)
    BY <1>1, LeaderFacts DEF OwnKept
  <2>3. node[h].view <= v
    BY <2>0, <2>1
  <2>. QED  BY <1>1, <2>2, <2>3 DEF OwnKept
<1>. QED  BY <1>2, <1>3 DEF LeaderGood, OwnKept

\* u is what r, of whose own nodes s has what r had, becomes with a certificate qc
\* of p.
Follows(r, s, p, qc, u) ==
  /\ s \in Rep /\ p \in Ref /\ qc \in Qc
  /\ p # Null => p[1] = qc.node /\ qc \in Certificates
  /\ qc \in Certificates \cup {NoQc}
  /\ s.ledger.proof = rep[r].ledger.proof
  /\ \A h \in Own(r) : /\ s.tree[h] = rep[r].tree[h]
                       /\ s.obj[<<h, 1>>].votes = rep[r].obj[<<h, 1>>].votes
                       /\ s.obj[<<h, 1>>].preCommit = rep[r].obj[<<h, 1>>].preCommit
  /\ u.tree = Update(s, p, qc).tree
  /\ u.obj = Update(s, p, qc).obj
  /\ u.ledger = Update(s, p, qc).ledger

\* A certificate of DECIDEs, proofs or nodes reaches a replica that is not the
\* leader of its view then.
LEMMA FollowerUpdates ==
  ASSUME LeadersInv, ChainInv', NEW r \in Replica,
         NEW s, NEW p, NEW qc, NEW u, Follows(r, s, p, qc, u),
         node' = node, rep' = [rep EXCEPT ![r] = u], proofs' = proofs \cup Recorded(u),
         UNCHANGED <<building, decides, synced>>,
         \A q \in Replica \ {r} : view'[q] = view[q],
         view'[r] \in Nat, view'[r] >= view[r], \A h \in Own(r) : node[h].view # view'[r]
  PROVE  LeadersInv'
<1>1. TypeOK /\ rep \in [Replica -> Rep]
  BY LeaderFacts DEF TypeOK
<1>. PICK w : w = Update(s, p, qc)
  OBVIOUS
<1>2. p # Null => p[1] \in DOMAIN node
  BY LeaderFacts DEF Follows
<1>3. Updated(s, w, qc) /\ Hands(s, w, p, qc)
  BY <1>1, <1>2, UpdateUpdates, UpdateHands DEF Follows
<1>4. /\ u.tree = w.tree /\ u.obj = w.obj /\ u.ledger = w.ledger
      /\ s.ledger.proof = rep[r].ledger.proof /\ qc \in Certificates \cup {NoQc}
  BY DEF Follows
<1>5. rep[r].ledger.proof = NoQc \/ rep[r].ledger.proof \in Certificates
  BY ChainFacts DEF LeadersInv
<1>6. Certificates' \subseteq Certificates
  BY <1>3, <1>4, <1>5 DEF Updated, Certificates, Recorded
<1>7. rep'[r] = u /\ \A q \in Replica \ {r} : rep'[q] = rep[q]
  BY <1>1
<1>8. ASSUME NEW h \in Own(r)
      PROVE  /\ u.tree[h] = rep[r].tree[h]
             /\ u.obj[<<h, 1>>].votes = rep[r].obj[<<h, 1>>].votes
             /\ u.obj[<<h, 1>>].preCommit =>
                  rep[r].obj[<<h, 1>>].preCommit \/ \E c \in Certificates : c.node = h
  <2>1. <<h, 1>> \in Ptr /\ <<h, 1>> # Null
    BY LeaderFacts, HashType DEF Null
  <2>2. <<h, 1>> = p => qc \in Certificates /\ qc.node = h
    BY <2>1 DEF Follows
  <2>. QED  BY <1>3, <1>4, <2>1, <2>2 DEF Updated, Hands, Follows
<1>9. synced[r] = {} => LeaderGood(r, u, view'[r], building'[r], Certificates')
  <2>. PICK v, b, C : v = view'[r] /\ b = building'[r] /\ C = Certificates'
    OBVIOUS
  <2>1. synced[r] = {} => LeaderGood(r, u, v, b, C)
    BY <1>6, <1>8, FollowerGood
  <2>. QED  BY <2>1
<1>. QED  BY <1>6, <1>7, <1>9, LeadersStep

LEMMA OnDecideLeaders ==
  ASSUME LeadersInv, NEW r \in Replica, NEW qc \in decides, OnDecide(r, qc)
  PROVE  LeadersInv'
<1>. DEFINE p == GetNode(rep[r], qc.node)
<1>1. ChainInv'
  BY OnDecideChain DEF LeadersInv
<1>2. TypeOK /\ rep[r] \in Rep /\ qc \in Qc /\ qc \in Certificates /\ view[r] \in Nat
  BY LeaderFacts DEF TypeOK, Certificates
<1>3. p \in Ref /\ p # Null /\ p[1] = qc.node
  BY <1>2, GetNodeType DEF OnDecide
<1>4. /\ Become(r, Update(rep[r], p, qc))
      /\ UNCHANGED <<view, node, building, decides, synced>>
      /\ ~ IsLeader(r)
  BY Zenon DEF OnDecide, FromLeader
<1>5. \A h \in Own(r) : node[h].view # view[r]
  BY <1>4 DEF Own, IsLeader
<1>. HIDE DEF p
<1>. PICK u, y : u = Update(rep[r], p, qc) /\ y = p
  OBVIOUS
<1>6. rep' = [rep EXCEPT ![r] = u] /\ proofs' = proofs \cup Recorded(u)
  BY <1>4 DEF Become
<1>7. \A q \in Replica : view'[q] = view[q]
  BY <1>4
<1>. PICK s : s = rep[r]
  OBVIOUS
<1>8. Follows(r, s, y, qc, u)
  BY <1>2, <1>3 DEF Follows
<1>9. /\ node' = node /\ UNCHANGED <<building, decides, synced>>
      /\ \A q \in Replica \ {r} : view'[q] = view[q]
      /\ view'[r] \in Nat /\ view'[r] >= view[r]
      /\ \A h \in Own(r) : node[h].view # view'[r]
  BY <1>2, <1>4, <1>5, <1>7
<1>. QED  BY <1>1, <1>6, <1>8, <1>9, FollowerUpdates

LEMMA ViewChangedLeaders ==
  ASSUME LeadersInv, NEW r \in Replica, NEW v \in View,
         NEW qc \in decides \cup proofs \cup {NoQc}, ViewChanged(r, v, qc)
  PROVE  LeadersInv'
<1>. DEFINE p == GetNode(rep[r], qc.node)
<1>1. ChainInv'
  BY ViewChangedChain DEF LeadersInv
<1>2. TypeOK /\ rep[r] \in Rep /\ qc \in Qc /\ qc \in Certificates \cup {NoQc} /\ view[r] \in Nat
      /\ v \in Nat /\ view \in [Replica -> View]
  BY LeaderFacts, NoQcType, ViewType DEF TypeOK, Certificates
<1>3. p \in Ref /\ (p # Null => p[1] = qc.node /\ qc \in Certificates)
  <2>1. p \in Ref /\ (p # Null => p[1] = qc.node /\ qc.node \in Hash)
    BY <1>2, GetNodeType
  <2>2. qc = NoQc => qc.node \notin Hash
    BY HashType DEF NoQc
  <2>. QED  BY <1>2, <2>1, <2>2
<1>4. /\ Become(r, Update(rep[r], p, qc))
      /\ UNCHANGED <<node, building, decides, synced>>
      /\ v > view[r] /\ view' = [view EXCEPT ![r] = v]
  BY Zenon DEF ViewChanged, AdoptQc
<1>5. view'[r] = v /\ \A q \in Replica \ {r} : view'[q] = view[q]
  BY <1>2, <1>4
<1>. HIDE DEF p
<1>. PICK u, y : u = Update(rep[r], p, qc) /\ y = p
  OBVIOUS
<1>6. rep' = [rep EXCEPT ![r] = u] /\ proofs' = proofs \cup Recorded(u)
  BY <1>4 DEF Become
<1>7. CASE synced[r] = {}
  <2>1. OwnKept(r, rep[r], view[r], Certificates)
    BY <1>7, LeaderFacts DEF LeaderGood
  <2>2. \A h \in Own(r) : node[h].view \in Nat
    BY LeaderFacts
  <2>3. \A h \in Own(r) : node[h].view <= view[r]
    BY <2>1, Zenon DEF OwnKept
  <2>4. \A h \in Own(r) : node[h].view # v
    BY <1>2, <1>4, <2>2, <2>3
  <2>. PICK s : s = rep[r]
    OBVIOUS
  <2>5. Follows(r, s, y, qc, u)
    BY <1>2, <1>3 DEF Follows
  <2>6. /\ node' = node /\ UNCHANGED <<building, decides, synced>>
        /\ \A q \in Replica \ {r} : view'[q] = view[q]
        /\ view'[r] \in Nat /\ view'[r] >= view[r]
        /\ \A h \in Own(r) : node[h].view # view'[r]
    BY <1>2, <1>4, <1>5, <2>4
  <2>. QED  BY <1>1, <1>6, <2>5, <2>6, FollowerUpdates
<1>8. CASE synced[r] # {}
  <2>1. Certificates' \subseteq Certificates
    <3>1. Updated(rep[r], u, qc)
      BY <1>2, <1>3, LeaderFacts, UpdateUpdates
    <3>2. rep[r].ledger.proof = NoQc \/ rep[r].ledger.proof \in Certificates
      BY ChainFacts DEF LeadersInv
    <3>. QED  BY <1>2, <1>4, <1>6, <3>1, <3>2 DEF Updated, Certificates, Recorded
  <2>2. \A q \in Replica \ {r} : rep'[q] = rep[q]
    BY <1>2, <1>6 DEF TypeOK
  <2>. QED  BY <1>1, <1>4, <1>5, <1>8, <2>1, <2>2, LeadersStep
<1>. QED  BY <1>7, <1>8

\* The steps that make no certificate, or are of a replica that synchronises.
LEMMA StartConsensusLeaders ==
  ASSUME LeadersInv, NEW r \in Replica, StartConsensus(r)
  PROVE  LeadersInv'
<1>1. ChainInv'
  BY StartConsensusChain DEF LeadersInv
<1>2. /\ ProposesNext(r) /\ building[r] = 0
      /\ building' = [building EXCEPT ![r] = rep[r].ledger.seq + 1]
      /\ UNCHANGED <<view, node, rep, decides, proofs, synced>>
  BY DEF StartConsensus
<1>3. /\ building'[r] = rep[r].ledger.seq + 1
      /\ \A q \in Replica \ {r} : building'[q] = building[q]
  BY <1>2, LeaderFacts DEF TypeOK
<1>4. rep[r].ledger.seq \in Nat
  BY LeaderFacts DEF Rep, Ledger
<1>5. Certificates' = Certificates
  BY <1>2 DEF Certificates
<1>6. synced[r] = {} => LeaderGood(r, rep[r], view[r], building'[r], Certificates)
  <2>. SUFFICES ASSUME synced[r] = {}
                PROVE  LeaderGood(r, rep[r], view[r], building'[r], Certificates)
    OBVIOUS
  <2>1. LeaderGood(r, rep[r], view[r], 0, Certificates)
    BY <1>2, LeaderFacts
  <2>2. ASSUME NEW h \in Own(r), node[h].view = view[r]
        PROVE  IsPast(rep[r], building'[r], h)
    <3>1. IsWaiting(r, rep[r], view[r], 0, Certificates, h) \/ IsPast(rep[r], 0, h)
      BY <2>1, <2>2 DEF LeaderGood, LeaderMoves
    <3>2. node[h].sequence \in Nat
      BY LeaderFacts
    <3>3. ~ IsWaiting(r, rep[r], view[r], 0, Certificates, h)
      BY <1>2, <1>4, <3>2 DEF IsWaiting, ProposesNext
    <3>4. building'[r] > rep[r].ledger.seq
      BY <1>3, <1>4
    <3>. QED  BY <3>1, <3>3, <3>4 DEF IsPast
  <2>. QED  BY <2>1, <2>2 DEF LeaderGood, LeaderMoves
<1>. QED  BY <1>1, <1>2, <1>3, <1>5, <1>6, LeadersStep

LEMMA SetViewInActiveLeaders ==
  ASSUME LeadersInv, NEW r \in Replica, SetViewInActive(r)
  PROVE  LeadersInv'
<1>1. ChainInv'
  BY SetViewInActiveChain DEF LeadersInv
<1>2. UNCHANGED <<view, node, rep, building, decides, proofs, synced>>
  BY DEF SetViewInActive
<1>3. Certificates' = Certificates
  BY <1>2 DEF Certificates
<1>4. synced[r] = {} => LeaderGood(r, rep'[r], view'[r], building'[r], Certificates')
  BY <1>2, <1>3, LeaderFacts
<1>. QED  BY <1>1, <1>2, <1>3, <1>4, LeadersStep

LEMMA SyncLeaders ==
  ASSUME LeadersInv, NEW r \in Replica, NEW qc \in proofs, Sync(r, qc)
  PROVE  LeadersInv'
<1>. DEFINE l == [rep[r].ledger EXCEPT !.seq = qc.sequence, !.proof = qc]
            s == [rep[r] EXCEPT !.ledger = l]
            u == UpdateProof(s, qc)
<1>1. ChainInv'
  BY SyncChain DEF LeadersInv
<1>2. TypeOK /\ rep[r] \in Rep /\ rep[r].ledger \in Ledger
  BY LeaderFacts DEF Rep
<1>3. l.proof = qc
  BY <1>2 DEF Ledger
<1>4. s = [rep[r] EXCEPT !.ledger = [@ EXCEPT !.seq = qc.sequence, !.proof = qc]]
  OBVIOUS
<1>5. /\ Become(r, u) /\ UNCHANGED <<node, building, decides>>
      /\ view' = [view EXCEPT ![r] = ViewOfProof(r, qc)]
      /\ synced' = [synced EXCEPT ![r] = @ \cup {qc.node}]
  <2>. HIDE DEF u
  <2>. QED  BY <1>4, Zenon DEF Sync, u
<1>6. u.ledger.proof = qc
  <2>. HIDE DEF l
  <2>1. s.ledger.proof = qc
    BY <1>2, <1>3 DEF Rep
  <2>. HIDE DEF s
  <2>2. AppendNode(s, qc.node, [NewObject EXCEPT !.decision = TRUE]).ledger = s.ledger
    BY <1>2 DEF AppendNode, Rep, s
  <2>. QED  BY <2>1, <2>2 DEF UpdateProof
<1>. HIDE DEF u, s, l
<1>7. Certificates' = Certificates
  BY <1>5, <1>6 DEF Become, Recorded, Certificates
<1>8. /\ \A q \in Replica \ {r} : rep'[q] = rep[q] /\ view'[q] = view[q] /\ synced'[q] = synced[q]
      /\ synced'[r] # {}
  BY <1>2, <1>5 DEF Become, TypeOK
<1>. QED  BY <1>1, <1>5, <1>7, <1>8, LeadersStep

LEMMA OnProposeLeaders ==
  ASSUME LeadersInv, NEW r \in Replica, NEW h \in DOMAIN node \ {Genesis}, OnPropose(r, h)
  PROVE  LeadersInv'
<1>. DEFINE qc     == node[h].qc
            qcNode == GetNode(rep[r], qc.node)
            o      == [NewObject EXCEPT !.qcRef = qcNode]
            s      == AppendNode(rep[r], h, o)
            p      == GetNode(s, h)
            w      == Update(s, qcNode, qc)
            voted  == [w EXCEPT !.lastSequence = node[h].sequence]
<1>1. ChainInv'
  BY OnProposeChain DEF LeadersInv
<1>2. /\ TypeOK /\ rep[r] \in Rep /\ h \in Hash /\ qc \in Qc /\ view[r] \in Nat
      /\ qc \in Certificates \cup {NoQc}
  BY LeaderFacts, ChainFacts, NodeType DEF NodesLinked, LeadersInv
<1>3. /\ ~ IsLeader(r) /\ GetLeaderId(node[h].view) = GetLeaderId(view[r]) /\ MayAppend(r, h)
      /\ Become(r, voted) \/ Become(r, w)
      /\ UNCHANGED <<view, node, building, decides, synced>>
  BY Zenon DEF OnPropose, FromLeader
<1>4. h \notin Own(r) /\ \A g \in Own(r) : node[g].view # view[r]
  BY <1>3 DEF Own, IsLeader
<1>5. qcNode \in Ref /\ (qcNode # Null => qcNode[1] = qc.node /\ qc \in Certificates)
  <2>1. qcNode \in Ref /\ (qcNode # Null => qcNode[1] = qc.node /\ qc.node \in Hash)
    BY <1>2, GetNodeType
  <2>2. qc = NoQc => qc.node \notin Hash
    BY HashType DEF NoQc
  <2>. QED  BY <1>2, <2>1, <2>2
<1>6. o \in Object
  BY <1>5 DEF NewObject, Object
<1>7. rep[r].tree[h] + 1 \in Generation
  BY <1>2, <1>3, MayAppendType
<1>. HIDE DEF o, qcNode, qc
<1>8. /\ s \in Rep /\ s.ledger = rep[r].ledger
      /\ s.tree = [rep[r].tree EXCEPT ![h] = @ + 1]
      /\ s.obj = [rep[r].obj EXCEPT ![<<h, rep[r].tree[h] + 1>>] = o]
  BY <1>2, <1>6, <1>7, AppendNodeType
<1>. HIDE DEF s
<1>9. ASSUME NEW g \in Own(r)
      PROVE  s.tree[g] = rep[r].tree[g] /\ s.obj[<<g, 1>>] = rep[r].obj[<<g, 1>>]
  <2>1. g \in Hash /\ <<g, 1>> \in Ptr /\ g # h
    BY <1>4, LeaderFacts
  <2>2. <<g, 1>> # <<h, rep[r].tree[h] + 1>>
    BY <2>1
  <2>3. rep[r].tree \in [Hash -> {0} \cup Generation] /\ rep[r].obj \in [Ptr -> Object]
    BY <1>2 DEF Rep
  <2>. QED  BY <1>8, <2>1, <2>2, <2>3
<1>10. w \in Rep /\ \A u : u = voted \/ u = w => u.tree = w.tree /\ u.obj = w.obj /\ u.ledger = w.ledger
  <2>1. qcNode # Null => qcNode[1] \in DOMAIN node
    BY <1>5, LeaderFacts
  <2>2. w \in Rep
    BY <1>2, <1>5, <1>8, <2>1, UpdateUpdates DEF Updated
  <2>. HIDE DEF w
  <2>. QED  BY <2>2 DEF Rep
<1>. HIDE DEF w, voted
<1>. PICK y, u, x, c : y = qcNode /\ x = s /\ c = qc
                          /\ (u = voted \/ u = w) /\ Become(r, u)
  BY <1>3
<1>11. Follows(r, x, y, c, u)
  BY <1>2, <1>5, <1>8, <1>9, <1>10 DEF Follows, w
<1>12. /\ rep' = [rep EXCEPT ![r] = u] /\ proofs' = proofs \cup Recorded(u)
       /\ node' = node /\ UNCHANGED <<building, decides, synced>>
       /\ \A q \in Replica \ {r} : view'[q] = view[q]
       /\ view'[r] \in Nat /\ view'[r] >= view[r]
       /\ \A g \in Own(r) : node[g].view # view'[r]
  BY <1>2, <1>3, <1>4 DEF Become
<1>. QED  BY <1>1, <1>11, <1>12, FollowerUpdates

\* u is what r becomes, and C are then the certificates, when the votes for its
\* node h are voted: with a quorum of them it hands the value over.
Counts(r, h, u, voted, C) ==
  /\ u.tree = rep[r].tree
  /\ u.obj[<<h, 1>>].votes = voted
  /\ \A q \in Ptr \ {<<h, 1>>} : u.obj[q].votes = rep[r].obj[q].votes
  /\ \A q \in Ptr : u.obj[q].preCommit =>
       rep[r].obj[q].preCommit \/ (q = <<h, 1>> /\ IsQuorum(voted))
  /\ u.ledger.lastConsSeq = rep[r].ledger.lastConsSeq
  /\ \/ u.ledger = rep[r].ledger /\ C \subseteq Certificates
     \/ /\ IsQuorum(voted) /\ u.ledger.seq = node[h].sequence
        /\ u.ledger.proof # NoQc /\ u.ledger.proof.node = h
        /\ \A qc \in C : qc \in Certificates \/ (qc.node = h /\ qc.signers = voted)

LEMMA CountGood ==
  ASSUME LeadersInv, NEW r \in Replica, synced[r] = {}, NEW h \in Own(r),
         node[h].view = view[r], ~ IsQuorum(rep[r].obj[<<h, 1>>].votes),
         NEW u, NEW voted, NEW C, Counts(r, h, u, voted, C)
  PROVE  LeaderGood(r, u, view[r], building[r], C)
<1>1. OwnKept(r, rep[r], view[r], Certificates) /\ LeaderMoves(r, rep[r], view[r], building[r], Certificates)
  BY LeaderFacts DEF LeaderGood
<1>2. /\ ~ rep[r].obj[<<h, 1>>].preCommit
      /\ \A qc \in Certificates : qc.node # h
  BY <1>1, LeaderFacts DEF OwnKept
<1>3. IsWaiting(r, rep[r], view[r], building[r], Certificates, h)
  BY <1>1 DEF LeaderMoves, IsPast
<1>4. ASSUME NEW g \in Own(r), g # h
      PROVE  u.obj[<<g, 1>>].votes = rep[r].obj[<<g, 1>>].votes
             /\ (u.obj[<<g, 1>>].preCommit => rep[r].obj[<<g, 1>>].preCommit)
  <2>1. <<g, 1>> \in Ptr /\ <<g, 1>> # <<h, 1>>
    BY <1>4, LeaderFacts
  <2>. QED  BY <2>1 DEF Counts
<1>5. OwnKept(r, u, view[r], C)
  <2>. SUFFICES ASSUME NEW g \in Own(r)
                PROVE  /\ node[g].view <= view[r]
                       /\ u.tree[g] = 1
                       /\ \A qc \in C : qc.node = g => qc.signers = u.obj[<<g, 1>>].votes
                       /\ u.obj[<<g, 1>>].preCommit => IsQuorum(u.obj[<<g, 1>>].votes)
    BY DEF OwnKept
  <2>1. node[g].view <= view[r] /\ u.tree[g] = 1
    BY <1>1 DEF OwnKept, Counts
  <2>2. CASE g = h
    <3>1. <<h, 1>> \in Ptr
      BY LeaderFacts
    <3>. QED  BY <1>2, <2>1, <2>2, <3>1 DEF Counts
  <2>3. CASE g # h
    <3>1. \A qc \in C : qc.node = g => qc \in Certificates
      BY <2>3 DEF Counts
    <3>. QED  BY <1>1, <1>4, <2>1, <2>3, <3>1 DEF OwnKept
  <2>. QED  BY <2>2, <2>3
<1>6. LeaderMoves(r, u, view[r], building[r], C)
  <2>. SUFFICES ASSUME NEW g \in Own(r), node[g].view = view[r]
                PROVE  \/ IsWaiting(r, u, view[r], building[r], C, g)
                       \/ IsPast(u, building[r], g)
    BY DEF LeaderMoves
  <2>1. node[g].sequence \in Nat /\ node[h].sequence \in Nat /\ building[r] = 0
    BY <1>3, LeaderFacts DEF IsWaiting
  <2>2. CASE g = h
    <3>1. CASE u.ledger = rep[r].ledger /\ C \subseteq Certificates
      BY <1>3, <2>2, <3>1 DEF Counts, IsWaiting
    <3>2. CASE /\ IsQuorum(voted) /\ u.ledger.seq = node[h].sequence
               /\ u.ledger.proof # NoQc /\ u.ledger.proof.node = h
      BY <2>1, <2>2, <3>2 DEF Counts, IsPast
    <3>. QED  BY <3>1, <3>2 DEF Counts
  <2>3. CASE g # h
    <3>1. ~ IsWaiting(r, rep[r], view[r], building[r], Certificates, g)
      <4>. SUFFICES ASSUME IsWaiting(r, rep[r], view[r], building[r], Certificates, g) PROVE FALSE
        OBVIOUS
      <4>1. node[g].sequence = node[h].sequence
        BY <1>3, <2>1 DEF IsWaiting
      <4>2. g \in DOMAIN node \ {Genesis} /\ h \in DOMAIN node \ {Genesis}
            /\ GetLeaderId(node[h].view) = r
        BY DEF Own
      <4>. QED  BY <2>3, <4>1, <4>2 DEF LeadersInv, OneProposal
    <3>2. IsPast(rep[r], building[r], g)
      BY <1>1, <3>1 DEF LeaderMoves
    <3>3. node[g].sequence <= node[h].sequence
      BY <1>3 DEF IsWaiting
    <3>. QED  BY <1>4, <2>1, <2>3, <3>2, <3>3 DEF IsPast, Counts
  <2>. QED  BY <2>2, <2>3
<1>. QED  BY <1>5, <1>6 DEF LeaderGood

LEMMA OnVoteLeaders ==
  ASSUME LeadersInv, NEW r \in Replica, NEW vote \in votes, OnVote(r, vote)
  PROVE  LeadersInv'
<1>. DEFINE h     == vote.node
            p     == GetNode(rep[r], h)
            voted == rep[r].obj[p].votes \cup {vote.from}
            o     == [rep[r].obj[p] EXCEPT !.votes = voted]
            m     == [rep[r].obj EXCEPT ![p] = o]
            s     == [rep[r] EXCEPT !.obj = m]
            qc    == [node |-> h, view |-> node[h].view, sequence |-> node[h].sequence,
                      signers |-> voted]
            high  == IF qc.sequence > s.highQc.sequence THEN [s EXCEPT !.highQc = qc] ELSE s
            w     == Update(high, p, qc)
<1>1. ChainInv'
  BY OnVoteChain DEF LeadersInv
<1>2. /\ h \in DOMAIN node \ {Genesis} /\ h \in Hash /\ vote \in Vote
      /\ GetLeaderId(node[h].view) = r
  BY LeaderFacts, NodeType DEF LeadersInv, ChainInv, IInv, TypeOK, VotesForNodes, VotesLinked, OnVote
<1>3. h \in Own(r) /\ node[h].view \in Nat /\ node[h].sequence \in Nat /\ view[r] \in Nat
  BY <1>2, LeaderFacts DEF Own
<1>4. p # Null /\ p \in Ptr /\ p = <<h, rep[r].tree[h]>>
  <2>1. p # Null
    BY DEF OnVote
  <2>. QED  BY <2>1, LeaderFacts, GetNodeType
<1>5. rep[r] \in Rep /\ rep[r].obj \in [Ptr -> Object] /\ rep[r].obj[p] \in Object
  BY <1>4, LeaderFacts DEF Rep
<1>6. voted \in SUBSET Replica
  BY <1>2, <1>5 DEF Vote, Object
<1>7. /\ o \in Object /\ o.votes = voted
      /\ o.decision = rep[r].obj[p].decision /\ o.preCommit = rep[r].obj[p].preCommit
  <2>. HIDE DEF voted
  <2>. QED  BY <1>5, <1>6 DEF Object
<1>8. m \in [Ptr -> Object] /\ \A q \in Ptr : m[q] = IF q = p THEN o ELSE rep[r].obj[q]
  <2>. HIDE DEF o
  <2>. QED  BY <1>4, <1>5, <1>7
<1>9. s = [rep[r] EXCEPT !.obj[p].votes = voted]
  OBVIOUS
<1>10. /\ IF MakesQuorum(voted)
          THEN Become(r, w) /\ decides' = IF rep'[r].crashed THEN decides ELSE decides \cup {qc}
          ELSE Become(r, s) /\ UNCHANGED decides
       /\ UNCHANGED <<view, active, node, building, votes, synced>>
       /\ Accepts(r, node[h].view)
       /\ ~ IsQuorum(rep[r].obj[p].votes)
  BY <1>9 DEF OnVote
<1>11. s \in Rep /\ s.tree = rep[r].tree /\ s.ledger = rep[r].ledger /\ s.obj = m
  <2>. HIDE DEF m
  <2>. QED  BY <1>5, <1>8 DEF Rep
<1>12. qc \in Qc
  <2>1. node[h].view \in View
    BY <1>2, LeaderFacts, NodeType
  <2>. HIDE DEF h, voted
  <2>. QED  BY <1>2, <1>3, <1>6, <2>1 DEF Qc
<1>13. high \in Rep /\ high.tree = s.tree /\ high.obj = s.obj /\ high.ledger = s.ledger
  <2>. HIDE DEF s, qc
  <2>. QED  BY <1>11, <1>12 DEF Rep
<1>14. qc.node = h /\ qc.signers = voted
  OBVIOUS
<1>. HIDE DEF s, m, o, qc, voted, high, h, p, w
<1>15. Updated(high, w, qc) /\ Hands(high, w, p, qc)
  <2>1. p \in Ref /\ p[1] \in DOMAIN node
    BY <1>2, <1>4 DEF Ref
  <2>. QED  BY <1>12, <1>13, <2>1, LeaderFacts, UpdateUpdates, UpdateHands DEF w
<1>16. ASSUME NEW made \in BOOLEAN, NEW u, synced[r] = {},
              (~ made /\ u = s) \/ (made /\ u = w /\ MakesQuorum(voted)),
              NEW C, \A c \in C : c \in Certificates \/ (made /\ c = qc)
       PROVE  LeaderGood(r, u, view[r], building[r], C)
  <2>1. OwnKept(r, rep[r], view[r], Certificates)
    BY <1>16, LeaderFacts DEF LeaderGood
  <2>2. rep[r].tree[h] = 1 /\ node[h].view <= view[r]
    BY <1>3, <2>1 DEF OwnKept
  <2>3. p = <<h, 1>> /\ node[h].view = view[r]
    BY <1>3, <1>4, <1>10, <2>2 DEF Accepts
  <2>4. ~ rep[r].obj[p].preCommit
    BY <1>3, <1>10, <2>1, <2>3 DEF OwnKept
  <2>5. ~ rep[r].obj[p].decision
    <3>. SUFFICES ASSUME rep[r].obj[p].decision PROVE FALSE
      OBVIOUS
    <3>1. p \in Held(rep[r]) /\ p[1] = h
      BY <1>4, <2>2, <2>3 DEF Held
    <3>2. h \in Handed(rep[r])
      <4>1. DecidedHanded(rep[r], synced[r])
        BY ChainFacts DEF RepGood, LeadersInv
      <4>. QED  BY <1>16, <3>1, <4>1 DEF DecidedHanded
    <3>3. PICK q \in Held(rep[r]) : rep[r].obj[q].preCommit /\ q[1] = h
      BY <3>2 DEF Handed
    <3>4. q \in Hash \X Generation /\ q[2] <= rep[r].tree[q[1]]
      BY <3>3 DEF Held, Ptr
    <3>5. q[2] = 1
      <4>1. q[2] \in Nat /\ q[2] >= 1
        BY <3>4, ConsensusAssumption DEF Generation
      <4>2. q[2] <= 1
        BY <2>2, <3>3, <3>4
      <4>. QED  BY <4>1, <4>2
    <3>6. q = <<h, 1>>
      BY <3>3, <3>4, <3>5
    <3>. QED  BY <2>3, <2>4, <3>3, <3>6
  <2>6. CASE ~ made /\ u = s
    <3>1. Counts(r, h, u, voted, C)
      BY <1>4, <1>7, <1>8, <1>11, <1>14, <1>16, <2>3, <2>6 DEF Counts
    <3>. QED  BY <1>3, <1>10, <1>16, <2>3, <3>1, CountGood
  <2>7. CASE made /\ u = w /\ MakesQuorum(voted)
    <3>1. IsQuorum(voted)
      BY <2>7, NAssumption DEF MakesQuorum, IsQuorum, GetQuorumSize
    <3>2. Undecided(high, p) /\ ~ high.obj[p].preCommit
      BY <1>4, <1>7, <1>8, <1>11, <1>13, <2>4, <2>5 DEF Undecided
    <3>3. /\ u.ledger.seq = node[h].sequence /\ u.ledger.proof = qc
          /\ u.ledger.lastConsSeq = rep[r].ledger.lastConsSeq
      BY <1>4, <1>11, <1>13, <1>15, <2>7, <3>2 DEF Hands, Sequence
    <3>4. u.ledger.proof # NoQc /\ u.ledger.proof.node = h
      BY <1>2, <1>14, <3>3, HashType DEF NoQc
    <3>5. \A q \in Ptr : /\ u.obj[q].votes = IF q = p THEN voted ELSE rep[r].obj[q].votes
                         /\ u.obj[q].preCommit => rep[r].obj[q].preCommit \/ q = p
      BY <1>7, <1>8, <1>11, <1>13, <1>15, <2>7 DEF Updated, Hands
    <3>6. u.tree = rep[r].tree
      BY <1>11, <1>13, <1>15, <2>7 DEF Updated
    <3>7. Counts(r, h, u, voted, C)
      BY <1>4, <1>14, <1>16, <2>3, <3>1, <3>3, <3>5, <3>6, <3>4 DEF Counts
    <3>. QED  BY <1>3, <1>10, <1>16, <2>3, <3>7, CountGood
  <2>. QED  BY <1>16, <2>6, <2>7
<1>. DEFINE Makes(d, x) == /\ d \in BOOLEAN
                           /\ (~ d /\ x = s) \/ (d /\ x = w /\ MakesQuorum(voted))
                           /\ Become(r, x)
                           /\ \A c \in decides' : c \in decides \/ (d /\ c = qc)
<1>17. PICK made, u : Makes(made, u)
  <2>1. CASE MakesQuorum(voted)
    <3>1. Become(r, w) /\ decides' \subseteq decides \cup {qc}
      BY <1>10, <2>1
    <3>2. Makes(TRUE, w)
      BY <2>1, <3>1
    <3>. HIDE DEF Makes
    <3>. QED  BY <3>2
  <2>2. CASE ~ MakesQuorum(voted)
    <3>1. Become(r, s) /\ decides' = decides
      BY <1>10, <2>2
    <3>2. Makes(FALSE, s)
      BY <3>1
    <3>. HIDE DEF Makes
    <3>. QED  BY <3>2
  <2>. QED  BY <2>1, <2>2
<1>18. rep'[r] = u /\ \A q \in Replica \ {r} : rep'[q] = rep[q]
  BY <1>17, LeaderFacts DEF Become, TypeOK
<1>19. \A c \in Certificates' : c \in Certificates \/ (made /\ c = qc)
  <2>1. u.ledger.proof = rep[r].ledger.proof \/ (made /\ u.ledger.proof = qc)
    BY <1>11, <1>13, <1>15, <1>17 DEF Updated
  <2>2. rep[r].ledger.proof = NoQc \/ rep[r].ledger.proof \in Certificates
    BY ChainFacts DEF LeadersInv
  <2>. QED  BY <1>17, <2>1, <2>2 DEF Certificates, Become, Recorded
<1>20. synced'[r] = {} => /\ synced[r] = {}
                          /\ LeaderGood(r, rep'[r], view'[r], building'[r], Certificates')
  <2>. PICK C : C = Certificates'
    OBVIOUS
  <2>. QED  BY <1>10, <1>16, <1>17, <1>18, <1>19
<1>. QED  BY <1>1, <1>3, <1>10, <1>14, <1>18, <1>19, <1>20, LeadersStep

\* Without a proof taken, what r has proposed of the sequence that its ledger is
\* waiting for is waiting too.
LEMMA ProposeLeaders ==
  ASSUME LeadersInv, NEW r \in Replica, Propose(r)
  PROVE  LeadersInv'
<1>. DEFINE seq  == building[r]
            led  == [rep[r].ledger EXCEPT !.lastConsSeq = rep[r].ledger.seq + 1]
            s    == [rep[r] EXCEPT !.ledger = led]
            used == [s EXCEPT !.lastSequence = seq]
            n    == NewNode(r, seq, s.ledger.proof)
            h    == Cardinality(DOMAIN node)
            own  == [NewObject EXCEPT !.qcRef = GetNode(s, n.qc.node), !.votes = {r}]
            w    == AppendNode(used, h, own)
            grown == [g \in 0 .. h |-> IF g = h THEN n ELSE node[g]]
<1>1. ChainInv'
  BY ProposeChain DEF LeadersInv
<1>2. /\ TypeOK /\ rep[r] \in Rep /\ rep[r].ledger \in Ledger /\ view[r] \in Nat
      /\ seq \in Nat /\ rep[r].ledger.seq \in Nat
  BY LeaderFacts DEF Rep, TypeOK, Ledger
<1>3. led \in Ledger /\ led.proof = rep[r].ledger.proof /\ led.seq = rep[r].ledger.seq
      /\ led.lastConsSeq = rep[r].ledger.seq + 1
  BY <1>2 DEF Ledger
<1>4. s = [rep[r] EXCEPT !.ledger.lastConsSeq = rep[r].ledger.seq + 1]
  OBVIOUS
<1>5. s \in Rep /\ s.tree = rep[r].tree /\ s.obj = rep[r].obj /\ s.ledger = led
  <2>. HIDE DEF led
  <2>. QED  BY <1>2, <1>3 DEF Rep
<1>6. used \in Rep /\ used.tree = rep[r].tree /\ used.obj = rep[r].obj /\ used.ledger = led
  <2>. HIDE DEF s
  <2>. QED  BY <1>2, <1>5 DEF Rep
<1>7. /\ seq > 0 /\ h <= MaxNodes
      /\ building' = [building EXCEPT ![r] = 0]
      /\ UNCHANGED <<view, active, votes, decides, proofs, synced>>
      /\ \/ rep' = [rep EXCEPT ![r] = s] /\ node' = node
         \/ rep' = [rep EXCEPT ![r] = used] /\ node' = node
         \/ /\ rep' = [rep EXCEPT ![r] = w] /\ node' = grown
            /\ CanAppend(s, n) /\ IsLeader(r)
  <2>. HIDE DEF own
  <2>. QED  BY <1>4, Zenon DEF Propose, own
<1>8. /\ n.sequence = seq /\ n.view = view[r] /\ n.qc = rep[r].ledger.proof
      /\ rep[r].ledger.proof # NoQc => n.parent = rep[r].ledger.proof.node
  <2>. HIDE DEF s
  <2>. QED  BY <1>3, <1>5 DEF NewNode
<1>9. building'[r] = 0 /\ \A q \in Replica \ {r} : building'[q] = building[q]
  BY <1>2, <1>7 DEF TypeOK
<1>10. Certificates' = Certificates
  BY <1>7 DEF Certificates
<1>11. own.votes = {r} /\ ~ own.preCommit
  <2>. HIDE DEF s, n
  <2>. QED  BY DEF own, NewObject
<1>. HIDE DEF led, s, used, n, own, h, w, seq
<1>12. ASSUME synced[r] = {}
       PROVE  /\ OwnKept(r, rep[r], view[r], Certificates)
              /\ \A g \in Own(r) : node[g].view = view[r] =>
                   IsPast(rep[r], 0, g) /\ node[g].sequence < seq
  <2>1. OwnKept(r, rep[r], view[r], Certificates) /\ LeaderMoves(r, rep[r], view[r], seq, Certificates)
    BY <1>12, LeaderFacts DEF LeaderGood, seq
  <2>2. ASSUME NEW g \in Own(r), node[g].view = view[r]
        PROVE  IsPast(rep[r], 0, g) /\ node[g].sequence < seq
    <3>1. IsPast(rep[r], seq, g)
      BY <1>2, <1>7, <2>1, <2>2 DEF LeaderMoves, IsWaiting
    <3>2. node[g].sequence \in Nat
      BY LeaderFacts
    <3>. QED  BY <1>2, <1>7, <3>1, <3>2 DEF IsPast
  <2>. QED  BY <2>1, <2>2
<1>13. ASSUME NEW u, rep' = [rep EXCEPT ![r] = u], node' = node,
              u.tree = rep[r].tree, u.obj = rep[r].obj, u.ledger = led
       PROVE  LeadersInv'
  <2>1. rep'[r] = u /\ \A q \in Replica \ {r} : rep'[q] = rep[q]
    BY <1>2, <1>13 DEF TypeOK
  <2>2. synced[r] = {} => LeaderGood(r, u, view[r], 0, Certificates)
    BY <1>3, <1>12, <1>13 DEF LeaderGood, OwnKept, LeaderMoves, IsPast
  <2>. QED  BY <1>1, <1>7, <1>9, <1>10, <1>13, <2>1, <2>2, LeadersStep
<1>14. CASE rep' = [rep EXCEPT ![r] = s] /\ node' = node
  BY <1>5, <1>13, <1>14
<1>15. CASE rep' = [rep EXCEPT ![r] = used] /\ node' = node
  BY <1>6, <1>13, <1>15
<1>16. CASE /\ rep' = [rep EXCEPT ![r] = w] /\ node' = grown
            /\ CanAppend(s, n) /\ IsLeader(r)
  <2>1. /\ DOMAIN node = 0 .. (h - 1) /\ h \in Nat
        /\ h \in Hash /\ h \notin DOMAIN node /\ h # Genesis
    <3>1. DOMAIN node = 0 .. (h - 1) /\ h \in Nat /\ 0 \in DOMAIN node
      BY <1>2, NodeType DEF Genesis, h
    <3>. QED  BY <1>7, <3>1, ConsensusAssumption DEF Hash, Genesis
  <2>. PICK k, x : k = h /\ x = w
    OBVIOUS
  <2>2. /\ DOMAIN node' = DOMAIN node \cup {k} /\ node'[k] = n
        /\ \A g \in DOMAIN node : node'[g] = node[g]
    BY <1>16, <2>1
  <2>. HIDE DEF grown
  <2>3. GetLeaderId(n.view) = r
    BY <1>8, <1>16 DEF IsLeader
  <2>4. \A q \in Replica : Own(q)' = IF q = r THEN Own(r) \cup {k} ELSE Own(q)
    BY <2>1, <2>2, <2>3 DEF Own, GetLeaderId
  <2>5. used.tree[k] = 0
    <3>1. TreeMade(rep[r])
      BY ChainFacts DEF LeadersInv
    <3>2. used.tree[k] \in {0} \cup Generation /\ ~ (used.tree[k] > 0)
      BY <1>6, <2>1, <3>1 DEF TreeMade, Rep
    <3>. QED  BY <3>2, HashType, ConsensusAssumption DEF Generation
  <2>6. /\ x.ledger = led
        /\ x.tree = [rep[r].tree EXCEPT ![k] = 1]
        /\ x.obj = [rep[r].obj EXCEPT ![<<k, 1>>] = own]
    <3>1. x.ledger = used.ledger /\ x.tree = [used.tree EXCEPT ![k] = @ + 1]
          /\ x.obj = [used.obj EXCEPT ![<<k, used.tree[k] + 1>>] = own]
      BY <1>6 DEF AppendNode, Rep, w
    <3>. QED  BY <1>6, <2>5, <3>1
  <2>7. x.tree[k] = 1 /\ x.obj[<<k, 1>>] = own
    <3>1. <<k, 1>> \in Ptr
      BY <2>1, HashType DEF Ptr
    <3>. QED  BY <1>2, <2>1, <2>6, <3>1 DEF Rep
  <2>8. ASSUME NEW g \in Own(r)
        PROVE  /\ g \in DOMAIN node /\ g # k
               /\ x.tree[g] = rep[r].tree[g] /\ x.obj[<<g, 1>>] = rep[r].obj[<<g, 1>>]
    <3>1. g \in DOMAIN node /\ g \in Hash /\ <<g, 1>> \in Ptr /\ g # k
      BY <2>1, LeaderFacts
    <3>. QED  BY <1>2, <2>6, <3>1 DEF Rep
  <2>9. ASSUME NEW q \in Replica, rep[q].ledger.proof # NoQc
        PROVE  /\ rep[q].ledger.proof.node \in DOMAIN node
               /\ node'[rep[q].ledger.proof.node] = node[rep[q].ledger.proof.node]
    BY <2>2, <2>9, LeaderFacts, ChainFacts DEF LeadersInv
  <2>10. ASSUME synced[r] = {}
         PROVE  seq = rep[r].ledger.seq + 1
    <3>1. CASE rep[r].ledger.proof = NoQc /\ rep[r].ledger.seq = 1
      BY <1>7, <3>1 DEF LeadersInv, ChainInv, BuildingNext, seq
    <3>2. CASE /\ rep[r].ledger.proof \in Certificates
               /\ rep[r].ledger.seq = rep[r].ledger.proof.sequence
               /\ rep[r].tree[rep[r].ledger.proof.node] > 0
      <4>. DEFINE g == rep[r].ledger.proof.node
      <4>1. g \in DOMAIN node /\ g \in Hash /\ rep[r].ledger.seq = node[g].sequence
            /\ rep[r].ledger.proof # NoQc
        BY <1>2, <3>2, ChainFacts, NodeType, HashType DEF LeadersInv, CertsLinked, NoQc
      <4>. HIDE DEF g
      <4>2. node[g].sequence = seq - 1
        BY <1>5, <1>8, <1>16, <3>2, <4>1 DEF CanAppend, InTree, g
      <4>. QED  BY <1>2, <4>1, <4>2
    <3>. QED  BY <2>10, <3>1, <3>2, ChainFacts DEF LeadersInv, RepGood, LedgerHanded
  <2>11. OneProposal'
    <3>. SUFFICES ASSUME NEW a \in DOMAIN node' \ {Genesis}, NEW b \in DOMAIN node' \ {Genesis},
                         node'[a].view = node'[b].view, node'[a].sequence = node'[b].sequence,
                         synced[GetLeaderId(node'[a].view)] = {}
                  PROVE  a = b
      BY <1>7 DEF OneProposal, GetLeaderId
    <3>1. ASSUME NEW g \in DOMAIN node \ {Genesis}, node[g].view = n.view,
                 node[g].sequence = n.sequence, synced[r] = {}
          PROVE  FALSE
      <4>1. g \in Own(r) /\ node[g].view = view[r] /\ node[g].sequence = seq
        BY <1>8, <2>3, <3>1 DEF Own
      <4>2. node[g].sequence < seq
        BY <1>12, <3>1, <4>1
      <4>. QED  BY <1>2, <4>1, <4>2
    <3>2. CASE a # k /\ b # k
      BY <2>2, <3>2 DEF LeadersInv, OneProposal
    <3>. QED  BY <2>2, <2>3, <3>1, <3>2
  <2>12. ViewLinked'
    <3>. SUFFICES ASSUME NEW a \in DOMAIN node' \ {Genesis}, NEW b \in DOMAIN node' \ {Genesis},
                         node'[a].view = node'[b].view, node'[b].sequence < node'[a].sequence,
                         synced[GetLeaderId(node'[a].view)] = {}
                  PROVE  /\ node'[a].parent \in DOMAIN node'
                         /\ node'[node'[a].parent].view = node'[a].view
      BY <1>7 DEF ViewLinked, GetLeaderId
    <3>1. ASSUME NEW g \in DOMAIN node \ {Genesis}, node[g].view = n.view, synced[r] = {}
          PROVE  g \in Own(r) /\ IsPast(rep[r], 0, g) /\ node[g].sequence < n.sequence
      <4>1. g \in Own(r) /\ node[g].view = view[r]
        BY <1>8, <2>3, <3>1 DEF Own
      <4>. QED  BY <1>8, <1>12, <3>1, <4>1
    <3>2. CASE a # k /\ b # k
      <4>1. a \in DOMAIN node \ {Genesis} /\ b \in DOMAIN node \ {Genesis}
        BY <2>2, <3>2
      <4>2. node[a].parent \in DOMAIN node /\ node[node[a].parent].view = node[a].view
        BY <2>2, <4>1 DEF LeadersInv, ViewLinked
      <4>. QED  BY <2>2, <4>1, <4>2
    <3>3. CASE a = k /\ b # k
      <4>1. b \in DOMAIN node \ {Genesis} /\ node[b].view = n.view /\ synced[r] = {}
        BY <2>2, <2>3, <3>3
      <4>2. IsPast(rep[r], 0, b)
        BY <3>1, <4>1
      <4>3. rep[r].ledger.proof # NoQc /\ node[rep[r].ledger.proof.node].view = node[b].view
        BY <4>2 DEF IsPast
      <4>. QED  BY <1>8, <2>2, <2>9, <3>3, <4>1, <4>3
    <3>4. CASE b = k /\ a # k
      <4>1. a \in DOMAIN node \ {Genesis} /\ node[a].view = n.view /\ synced[r] = {}
        BY <2>2, <2>3, <3>4
      <4>2. a \in Own(r) /\ node[a].sequence < n.sequence /\ node[a].sequence \in Nat
        BY <3>1, <4>1, LeaderFacts
      <4>. QED  BY <1>2, <1>8, <2>2, <3>4, <4>1, <4>2
    <3>5. CASE a = k /\ b = k
      BY <1>2, <1>8, <2>2, <3>5
    <3>. QED  BY <3>2, <3>3, <3>4, <3>5
  <2>13. ASSUME synced[r] = {}
         PROVE  OwnKept(r, x, view[r], Certificates)' /\ LeaderMoves(r, x, view[r], 0, Certificates)'
    <3>1. OwnKept(r, x, view[r], Certificates)'
      <4>. SUFFICES ASSUME NEW g \in Own(r) \cup {k}
                    PROVE  /\ node'[g].view <= view[r]
                           /\ x.tree[g] = 1
                           /\ \A c \in Certificates : c.node = g => c.signers = x.obj[<<g, 1>>].votes
                           /\ x.obj[<<g, 1>>].preCommit => IsQuorum(x.obj[<<g, 1>>].votes)
        BY <1>7, <1>10, <2>4 DEF OwnKept, IsQuorum, GetQuorumSize
      <4>1. CASE g = k
        <5>1. \A c \in Certificates : c.node # k
          BY <2>1, LeaderFacts
        <5>. QED  BY <1>2, <1>8, <1>11, <2>2, <2>7, <4>1, <5>1
      <4>2. CASE g \in Own(r)
        BY <1>12, <2>2, <2>8, <2>13, <4>2 DEF OwnKept
      <4>. QED  BY <4>1, <4>2
    <3>2. ASSUME NEW g \in Own(r), node[g].view = view[r]
          PROVE  IsPast(x, 0, g)' /\ node[g].sequence < seq
      <4>1. IsPast(rep[r], 0, g) /\ node[g].sequence < seq
        BY <1>12, <2>13, <3>2
      <4>. QED  BY <1>3, <2>2, <2>6, <2>8, <2>9, <4>1 DEF IsPast, IsQuorum, GetQuorumSize
    <3>3. IsWaiting(r, x, view[r], 0, Certificates, k)'
      <4>1. \A g \in Own(r) \cup {k} : node'[g].view = view[r] => node'[g].sequence <= seq
        <5>1. \A g \in Own(r) : node[g].sequence \in Nat
          BY LeaderFacts
        <5>2. node'[k].sequence <= seq
          BY <1>2, <1>8, <2>1, <2>2
        <5>3. \A g \in Own(r) : node[g].view = view[r] => node[g].sequence <= seq
          BY <1>2, <3>2, <5>1
        <5>. QED  BY <2>2, <2>8, <5>2, <5>3
      <4>2. \A c \in Certificates : c.node # k
        BY <2>1, LeaderFacts
      <4>. QED  BY <1>2, <1>3, <1>7, <1>8, <1>10, <2>2, <2>4, <2>6, <2>10, <2>13, <4>1, <4>2
           DEF IsWaiting
    <3>. QED  BY <1>7, <2>2, <2>4, <2>8, <3>1, <3>2, <3>3 DEF LeaderMoves
  <2>14. ASSUME NEW q \in Replica \ {r}, synced[q] = {}
         PROVE  /\ OwnKept(q, rep[q], view[q], Certificates)'
                /\ LeaderMoves(q, rep[q], view[q], building[q], Certificates)'
    <3>1. rep'[q] = rep[q] /\ building'[q] = building[q] /\ view'[q] = view[q]
      BY <1>2, <1>7, <1>9, <1>16 DEF TypeOK
    <3>2. LeaderGood(q, rep[q], view[q], building[q], Certificates)
      BY <2>14, LeaderFacts
    <3>3. Own(q)' = Own(q) /\ \A g \in Own(q) : node'[g] = node[g]
      BY <2>2, <2>4 DEF Own
    <3>4. OwnKept(q, rep[q], view[q], Certificates)'
      BY <1>10, <3>1, <3>2, <3>3 DEF LeaderGood, OwnKept, IsQuorum, GetQuorumSize
    <3>5. LeaderMoves(q, rep[q], view[q], building[q], Certificates)'
      BY <1>10, <2>9, <3>1, <3>2, <3>3
           DEF LeaderGood, LeaderMoves, IsWaiting, IsPast, IsQuorum, GetQuorumSize
    <3>. QED  BY <3>4, <3>5
  <2>15. rep'[r] = x
    BY <1>2, <1>16 DEF TypeOK
  <2>16. ASSUME NEW q \in Replica, synced'[q] = {}
         PROVE  /\ OwnKept(q, rep[q], view[q], Certificates)'
                /\ LeaderMoves(q, rep[q], view[q], building[q], Certificates)'
    <3>1. synced[q] = {}
      BY <1>7, <2>16
    <3>2. CASE q = r
      BY <1>9, <2>13, <2>15, <3>1, <3>2
    <3>. QED  BY <2>14, <3>1, <3>2
  <2>. QED  BY <1>1, <2>11, <2>12, <2>16 DEF LeadersInv
<1>. QED  BY <1>7, <1>14, <1>15, <1>16

LEMMA InitLeaders == Init => LeadersInv
<1>. SUFFICES ASSUME Init PROVE LeadersInv
  OBVIOUS
<1>1. ChainInv
  BY InitChain
<1>2. DOMAIN node = {Genesis}
  BY DEF Init
<1>3. OneProposal /\ ViewLinked /\ \A r \in Replica : Own(r) = {}
  BY <1>2 DEF OneProposal, ViewLinked, Own
<1>. QED  BY <1>1, <1>3 DEF LeadersInv, OwnKept, LeaderMoves

LEMMA NextKeepsLeaders == LeadersInv /\ [Next]_vars => LeadersInv'
<1>. SUFFICES ASSUME LeadersInv, [Next]_vars PROVE LeadersInv'
  OBVIOUS
<1>1. CASE UNCHANGED vars
  <2>1. ChainInv' /\ UNCHANGED <<view, node, rep, building, decides, proofs, synced>>
    BY <1>1, NextKeepsChain DEF LeadersInv, vars
  <2>2. 0 \in Replica
    BY NAssumption DEF Replica
  <2>3. Certificates' = Certificates
    BY <2>1 DEF Certificates
  <2>4. synced[0] = {} => LeaderGood(0, rep'[0], view'[0], building'[0], Certificates')
    BY <2>1, <2>2, <2>3, LeaderFacts
  <2>. QED  BY <2>1, <2>2, <2>3, <2>4, LeadersStep
<1>2. ASSUME NEW r \in Replica, StartConsensus(r)
      PROVE  LeadersInv'
  BY <1>2, StartConsensusLeaders
<1>3. ASSUME NEW r \in Replica, Propose(r)
      PROVE  LeadersInv'
  BY <1>3, ProposeLeaders
<1>4. ASSUME NEW r \in Replica, NEW h \in DOMAIN node \ {Genesis}, OnPropose(r, h)
      PROVE  LeadersInv'
  BY <1>4, OnProposeLeaders
<1>5. ASSUME NEW r \in Replica, NEW vote \in votes, OnVote(r, vote)
      PROVE  LeadersInv'
  BY <1>5, OnVoteLeaders
<1>6. ASSUME NEW r \in Replica, NEW qc \in decides, OnDecide(r, qc)
      PROVE  LeadersInv'
  BY <1>6, OnDecideLeaders
<1>7. ASSUME NEW r \in Replica, SetViewInActive(r)
      PROVE  LeadersInv'
  BY <1>7, SetViewInActiveLeaders
<1>8. ASSUME NEW r \in Replica, NEW v \in View, NEW qc \in decides \cup proofs \cup {NoQc},
             ViewChanged(r, v, qc)
      PROVE  LeadersInv'
  BY <1>8, ViewChangedLeaders
<1>9. ASSUME NEW r \in Replica, NEW qc \in proofs, Sync(r, qc)
      PROVE  LeadersInv'
  BY <1>9, SyncLeaders
<1>. QED  BY <1>1, <1>2, <1>3, <1>4, <1>5, <1>6, <1>7, <1>8, <1>9 DEF Next

-----------------------------------------------------------------------------
(* The branch of a node                                                    *)

\* One step of the function up of Branch, whose rest is f.
BranchStep(f, g) ==
  {g} \cup (IF node[g].parent \in DOMAIN node THEN f[node[g].parent] ELSE {})

IsBranch(f) == f = [g \in Hash |-> BranchStep(f, g)]

BranchFrom == CHOOSE f : IsBranch(f)

LEMMA BranchIsFrom ==
  ASSUME NEW h
  PROVE  Branch(h) = BranchFrom[h]
BY DEF Branch, BranchFrom, IsBranch, BranchStep

\* What a step does depends on the rest where the branch goes on only.
LEMMA BranchStepLocal ==
  ASSUME NEW f, NEW e, NEW g,
         node[g].parent \in DOMAIN node => e[node[g].parent] = f[node[g].parent]
  PROVE  BranchStep(e, g) = BranchStep(f, g)
BY DEF BranchStep

\* The first k nodes, and that their branches are defined.
Below(k) == {g \in DOMAIN node : g < k}

BranchUpto(k) == \E f : \A g \in Below(k) : f[g] = BranchStep(f, g)

LEMMA BranchUptoNext ==
  ASSUME TypeOK, ParentsBefore, NEW k \in Nat, BranchUpto(k)
  PROVE  BranchUpto(k + 1)
<1>1. PICK f : \A g \in Below(k) : f[g] = BranchStep(f, g)
  BY DEF BranchUpto
<1>. DEFINE e == [g \in Hash |-> IF g \in Below(k) THEN f[g] ELSE BranchStep(f, g)]
<1>2. \A g \in DOMAIN node : g \in Hash /\ g \in Nat
  BY NodeType, HashType
<1>3. \A g \in Below(k) : e[g] = f[g]
  BY <1>2 DEF Below
<1>4. ASSUME NEW g \in Below(k + 1)
      PROVE  e[g] = BranchStep(e, g)
  <2>1. g \in DOMAIN node /\ g < k + 1 /\ g \in Hash
    BY <1>2 DEF Below
  <2>2. node[g].parent \in DOMAIN node => node[g].parent \in Below(k)
    <3>. DEFINE m == node[g].parent
    <3>1. m < g
      BY <2>1 DEF ParentsBefore
    <3>. HIDE DEF m
    <3>2. m \in DOMAIN node => m < k
      BY <1>2, <2>1, <3>1
    <3>. QED  BY <3>2 DEF Below, m
  <2>3. e[g] = BranchStep(f, g)
    BY <1>1, <2>1
  <2>4. node[g].parent \in DOMAIN node => e[node[g].parent] = f[node[g].parent]
    BY <1>3, <2>2
  <2>. HIDE DEF e
  <2>. QED  BY <2>3, <2>4, BranchStepLocal
<1>. HIDE DEF e
<1>. QED  BY <1>4 DEF BranchUpto

\* There is a function of branches: Branch is what its equation says.
LEMMA BranchExists ==
  ASSUME TypeOK, ParentsBefore
  PROVE  IsBranch(BranchFrom)
<1>. DEFINE n == Cardinality(DOMAIN node)
            C == {k \in Nat : ~ BranchUpto(k)}
<1>1. DOMAIN node = 0 .. (n - 1) /\ n \in Nat
  BY NodeType
<1>2. BranchUpto(0)
  BY <1>1 DEF BranchUpto, Below
<1>3. C = {}
  <2>. SUFFICES ASSUME C # {} PROVE FALSE
    OBVIOUS
  <2>1. PICK k \in C : \A j \in C : ~ (<<j, k>> \in OpToRel(<, Nat))
    <3>1. C \subseteq Nat
      OBVIOUS
    <3>. HIDE DEF C
    <3>. QED  BY <3>1, NatLessThanWellFounded, WFMin, Zenon
  <2>2. k \in Nat /\ ~ BranchUpto(k)
    OBVIOUS
  <2>3. k # 0
    BY <1>2, <2>2
  <2>4. k - 1 \in Nat /\ k - 1 < k /\ (k - 1) + 1 = k
    BY <2>2, <2>3
  <2>5. BranchUpto(k - 1)
    BY <2>1, <2>4 DEF OpToRel
  <2>6. BranchUpto((k - 1) + 1)
    BY <2>4, <2>5, BranchUptoNext
  <2>. QED  BY <2>2, <2>4, <2>6
<1>4. PICK f : \A g \in Below(n) : f[g] = BranchStep(f, g)
  BY <1>1, <1>3 DEF BranchUpto
<1>. DEFINE e == [g \in Hash |-> BranchStep(f, g)]
<1>5. \A g \in DOMAIN node : e[g] = f[g]
  BY <1>1, <1>4, NodeType DEF Below
<1>6. \A g \in Hash : e[g] = BranchStep(e, g)
  <2>. TAKE g \in Hash
  <2>1. e[g] = BranchStep(f, g)
    OBVIOUS
  <2>. HIDE DEF e
  <2>. QED  BY <1>5, <2>1, BranchStepLocal
<1>7. e = [g \in Hash |-> BranchStep(e, g)]
  <2>1. e = [g \in Hash |-> e[g]]
    OBVIOUS
  <2>. HIDE DEF e
  <2>. QED  BY <1>6, <2>1
<1>8. \E x : IsBranch(x)
  <2>. HIDE DEF e
  <2>. QED  BY <1>7 DEF IsBranch
<1>. QED  BY <1>8, Zenon DEF BranchFrom

LEMMA BranchUnfolds ==
  ASSUME TypeOK, ParentsBefore, NEW h \in Hash
  PROVE  Branch(h) =
           {h} \cup (IF node[h].parent \in DOMAIN node THEN Branch(node[h].parent) ELSE {})
<1>1. IsBranch(BranchFrom)
  BY BranchExists
<1>. PICK f : f = BranchFrom
  OBVIOUS
<1>2. f = [g \in Hash |-> BranchStep(f, g)]
  BY <1>1 DEF IsBranch
<1>3. f[h] = BranchStep(f, h)
  BY <1>2, Zenon
<1>4. Branch(h) = f[h] /\ Branch(node[h].parent) = f[node[h].parent]
  BY BranchIsFrom
<1>. QED  BY <1>3, <1>4 DEF BranchStep

-----------------------------------------------------------------------------
(* Before the first view change                                            *)

\* Before the first view change the nodes are of one view, whose leader has taken
\* no proof.
FirstView ==
  (\A r \in Replica : view[r] = 0) =>
    synced[0] = {} /\ \A h \in DOMAIN node \ {Genesis} : node[h].view = 0

AgreeInv == LeadersInv /\ FirstView

\* A leader that stays in the first view has what it certified in its ledger.
LEMMA FirstLeaderAhead ==
  ASSUME AgreeInv, \A r \in Replica : view[r] = 0, NEW qc \in proofs
  PROVE  ~ Ahead(0, qc)
<1>1. 0 \in Replica /\ GetLeaderId(0) = 0
  BY NAssumption DEF Replica, GetLeaderId
<1>2. qc \in Certificates /\ qc.node \in DOMAIN node \ {Genesis}
  BY <1>1, LeaderFacts DEF AgreeInv, Certificates
<1>3. node[qc.node].view = 0 /\ synced[0] = {} /\ view[0] = 0
  BY <1>1, <1>2 DEF AgreeInv, FirstView
<1>4. qc.node \in Own(0)
  BY <1>1, <1>2, <1>3 DEF Own
<1>5. LeaderMoves(0, rep[0], view[0], building[0], Certificates)
  BY <1>1, <1>3, LeaderFacts DEF AgreeInv, LeaderGood
<1>6. IsPast(rep[0], building[0], qc.node)
  BY <1>2, <1>3, <1>4, <1>5 DEF LeaderMoves, IsWaiting
<1>7. qc.sequence = node[qc.node].sequence /\ node[qc.node].sequence \in Nat
      /\ rep[0].ledger.seq \in Nat
  BY <1>1, <1>2, <1>4, LeaderFacts, ChainFacts DEF AgreeInv, LeadersInv, CertsLinked, Rep, Ledger
<1>. QED  BY <1>6, <1>7 DEF IsPast, Ahead

\* Views do not go back, and in the first one the only nodes made are of it.
LEMMA FirstViewStep ==
  ASSUME AgreeInv, \A q \in Replica : view'[q] = 0 => view[q] = 0,
         (\A q \in Replica : view[q] = 0) =>
           /\ synced'[0] = synced[0]
           /\ \A h \in DOMAIN node' \ {Genesis} :
                (h \in DOMAIN node /\ node'[h] = node[h]) \/ node'[h].view = 0
  PROVE  FirstView'
BY DEF AgreeInv, FirstView

LEMMA NextKeepsFirst == AgreeInv /\ [Next]_vars => AgreeInv'
<1>. SUFFICES ASSUME AgreeInv, [Next]_vars PROVE AgreeInv'
  OBVIOUS
<1>1. LeadersInv'
  BY NextKeepsLeaders DEF AgreeInv
<1>2. view \in [Replica -> View] /\ synced \in [Replica -> SUBSET Hash] /\ 0 \in Replica
  BY NAssumption DEF AgreeInv, LeadersInv, ChainInv, IInv, TypeOK, Replica
<1>3. CASE UNCHANGED <<view, node, synced>>
  BY <1>1, <1>3 DEF AgreeInv, FirstView
<1>4. ASSUME NEW r \in Replica, Propose(r)
      PROVE  AgreeInv'
  <2>. DEFINE n == NewNode(r, building[r], [rep[r] EXCEPT !.ledger.lastConsSeq = rep[r].ledger.seq + 1].ledger.proof)
              h == Cardinality(DOMAIN node)
  <2>1. /\ UNCHANGED <<view, synced>>
        /\ node' = node \/ node' = [g \in 0 .. h |-> IF g = h THEN n ELSE node[g]]
    BY <1>4, Zenon DEF Propose
  <2>2. n.view = view[r]
    BY DEF NewNode
  <2>3. DOMAIN node = 0 .. (h - 1) /\ h \in Nat
    BY NodeType DEF AgreeInv, LeadersInv, ChainInv, IInv
  <2>. HIDE DEF n, h
  <2>4. \A g \in DOMAIN node' : (g \in DOMAIN node /\ node'[g] = node[g]) \/ node'[g] = n
    BY <2>1, <2>3
  <2>. QED  BY <1>1, <2>1, <2>2, <2>4, FirstViewStep DEF AgreeInv
<1>5. ASSUME NEW r \in Replica, NEW v \in View, NEW qc, ViewChanged(r, v, qc)
      PROVE  AgreeInv'
  <2>1. /\ view' = [view EXCEPT ![r] = v] /\ v > view[r]
        /\ UNCHANGED <<node, synced>>
    BY <1>5 DEF ViewChanged
  <2>2. v \in Nat /\ view[r] \in Nat
    BY <1>2, ViewType
  <2>3. \A q \in Replica : view'[q] = 0 => view[q] = 0
    BY <1>2, <2>1, <2>2
  <2>. QED  BY <1>1, <2>1, <2>3, FirstViewStep DEF AgreeInv
<1>6. ASSUME NEW r \in Replica, NEW qc \in proofs, Sync(r, qc)
      PROVE  AgreeInv'
  <2>1. /\ view' = [view EXCEPT ![r] = ViewOfProof(r, qc)]
        /\ synced' = [synced EXCEPT ![r] = @ \cup {qc.node}]
        /\ Ahead(r, qc) /\ UNCHANGED node
    BY <1>6, Zenon DEF Sync
  <2>2. qc.view \in Nat /\ view[r] \in Nat
    BY <1>2, ViewType DEF AgreeInv, LeadersInv, ChainInv, IInv, TypeOK, Qc
  <2>3. \A q \in Replica : view'[q] = 0 => view[q] = 0
    BY <1>2, <2>1, <2>2 DEF ViewOfProof
  <2>4. (\A q \in Replica : view[q] = 0) => r # 0
    BY <2>1, FirstLeaderAhead
  <2>. QED  BY <1>1, <1>2, <2>1, <2>3, <2>4, FirstViewStep DEF AgreeInv
<1>7. CASE UNCHANGED vars
  BY <1>3, <1>7 DEF vars
<1>8. CASE Next
  <2>1. PICK r \in Replica :
          \/ StartConsensus(r)
          \/ Propose(r)
          \/ \E h \in DOMAIN node \ {Genesis} : OnPropose(r, h)
          \/ \E vote \in votes : OnVote(r, vote)
          \/ \E qc \in decides : OnDecide(r, qc)
          \/ SetViewInActive(r)
          \/ \E v \in View, qc \in decides \cup proofs \cup {NoQc} : ViewChanged(r, v, qc)
          \/ \E qc \in proofs : Sync(r, qc)
    BY <1>8 DEF Next
  <2>2. CASE StartConsensus(r)
    BY <1>3, <2>2 DEF StartConsensus
  <2>3. CASE \E h \in DOMAIN node \ {Genesis} : OnPropose(r, h)
    <3>1. UNCHANGED <<view, node, synced>>
      BY <2>3, Zenon DEF OnPropose
    <3>. QED  BY <1>3, <3>1
  <2>4. CASE \E vote \in votes : OnVote(r, vote)
    <3>1. UNCHANGED <<view, node, synced>>
      BY <2>4, Zenon DEF OnVote
    <3>. QED  BY <1>3, <3>1
  <2>5. CASE \E qc \in decides : OnDecide(r, qc)
    <3>1. UNCHANGED <<view, node, synced>>
      BY <2>5, Zenon DEF OnDecide
    <3>. QED  BY <1>3, <3>1
  <2>6. CASE SetViewInActive(r)
    BY <1>3, <2>6 DEF SetViewInActive
  <2>. QED  BY <1>4, <1>5, <1>6, <2>1, <2>2, <2>3, <2>4, <2>5, <2>6
<1>. QED  BY <1>7, <1>8

-----------------------------------------------------------------------------
(* One branch                                                              *)

\* Genesis and the certified nodes.
Settled(h) == h = Genesis \/ \E qc \in Certificates : qc.node = h

\* The parent of a certified node is settled, and of the sequence before.
LEMMA SettledFacts ==
  ASSUME ChainInv, NEW h, Settled(h)
  PROVE  /\ h \in DOMAIN node /\ h \in Hash /\ node[h].sequence \in Nat /\ node[h].sequence >= 1
         /\ h # Genesis => /\ node[h].parent \in DOMAIN node
                           /\ Settled(node[h].parent)
                           /\ node[h].sequence = node[node[h].parent].sequence + 1
<1>1. TypeOK /\ NodesLinked /\ CertsLinked(Certificates)
  BY DEF ChainInv, IInv
<1>2. h \in DOMAIN node
  BY <1>1, NodeType DEF Settled, CertsLinked
<1>3. ASSUME h # Genesis
      PROVE  /\ node[h].parent \in DOMAIN node
             /\ Settled(node[h].parent)
             /\ node[h].sequence = node[node[h].parent].sequence + 1
  <2>1. Linked(h, Certificates) /\ h \in DOMAIN node \ {Genesis}
    BY <1>1, <1>3 DEF Settled, CertsLinked
  <2>2. /\ node[h].parent \in DOMAIN node
        /\ node[h].sequence = node[node[h].parent].sequence + 1
        /\ node[h].sequence > 2 \/ node[h].parent = Genesis
    BY <1>1, <2>1, LinkedFacts
  <2>. QED  BY <2>1, <2>2 DEF Settled, Linked
<1>. QED  BY <1>1, <1>2, <1>3, NodeFacts

\* From a node of S, all of which are settled, the parents in S lead to its lowest.
LEMMA ClosedBranch ==
  ASSUME ChainInv, NEW S, NEW g \in S,
         \A x \in S : /\ Settled(x) /\ node[x].sequence >= node[g].sequence
                      /\ x # g => /\ node[x].sequence # node[g].sequence
                                  /\ x # Genesis /\ node[x].parent \in S,
         NEW h \in S
  PROVE  g \in Branch(h)
<1>1. TypeOK /\ ParentsBefore
  BY NodeFacts DEF ChainInv, IInv
<1>2. \A x \in S :
        /\ x \in DOMAIN node /\ x \in Hash /\ node[x].sequence \in Nat
        /\ x # g => /\ node[x].parent \in DOMAIN node /\ node[x].parent \in S
                    /\ node[x].sequence = node[node[x].parent].sequence + 1
  BY SettledFacts
<1>. DEFINE Off(k) == \E x \in S : node[x].sequence = node[g].sequence + k /\ g \notin Branch(x)
            C == {k \in Nat : Off(k)}
<1>3. C = {}
  <2>. SUFFICES ASSUME C # {} PROVE FALSE
    OBVIOUS
  <2>1. PICK k \in C : \A j \in C : ~ (<<j, k>> \in OpToRel(<, Nat))
    <3>1. C \subseteq Nat
      OBVIOUS
    <3>. HIDE DEF C
    <3>. QED  BY <3>1, NatLessThanWellFounded, WFMin, Zenon
  <2>2. k \in Nat /\ Off(k)
    OBVIOUS
  <2>3. PICK x \in S : node[x].sequence = node[g].sequence + k /\ g \notin Branch(x)
    BY <2>2
  <2>4. Branch(x) = {x} \cup (IF node[x].parent \in DOMAIN node THEN Branch(node[x].parent) ELSE {})
    BY <1>1, <1>2, BranchUnfolds
  <2>5. x # g
    BY <2>3, <2>4
  <2>6. k # 0
    <3>1. k = 0 => node[x].sequence = node[g].sequence
      BY <1>2, <2>3
    <3>. QED  BY <2>5, <3>1
  <2>. PICK m : m = node[x].parent
    OBVIOUS
  <2>7. m \in DOMAIN node /\ m \in S /\ node[x].sequence = node[m].sequence + 1
    BY <1>2, <2>5
  <2>8. g \notin Branch(m)
    BY <2>3, <2>4, <2>7
  <2>9. node[m].sequence = node[g].sequence + (k - 1) /\ k - 1 \in Nat /\ k - 1 < k
    <3>1. node[m].sequence \in Nat /\ node[g].sequence \in Nat
      BY <1>2, <2>7
    <3>. QED  BY <2>2, <2>3, <2>6, <2>7, <3>1
  <2>10. Off(k - 1)
    BY <2>7, <2>8, <2>9
  <2>. HIDE DEF Off
  <2>11. k - 1 \in C
    BY <2>9, <2>10
  <2>. QED  BY <2>1, <2>2, <2>9, <2>11 DEF OpToRel
<1>4. PICK k \in Nat : node[h].sequence = node[g].sequence + k
  <2>1. node[h].sequence \in Nat /\ node[g].sequence \in Nat
        /\ node[h].sequence >= node[g].sequence
    BY <1>2
  <2>2. node[h].sequence - node[g].sequence \in Nat
        /\ node[h].sequence = node[g].sequence + (node[h].sequence - node[g].sequence)
    BY <2>1
  <2>. QED  BY <2>2
<1>. QED  BY <1>3, <1>4

\* Of one view, settled nodes lie on one branch: of each sequence there is one.
LEMMA ViewBranch ==
  ASSUME LeadersInv, NEW g, Settled(g), NEW h, Settled(h),
         node[g].view = node[h].view, node[g].sequence <= node[h].sequence,
         synced[GetLeaderId(node[g].view)] = {}
  PROVE  g \in Branch(h)
<1>1. /\ ChainInv /\ OneProposal /\ ViewLinked
      /\ node[Genesis].sequence = 1
  BY NodeFacts DEF LeadersInv, ChainInv, IInv
<1>2. \A x : Settled(x) =>
        /\ x \in DOMAIN node /\ node[x].sequence \in Nat /\ node[x].sequence >= 1
        /\ x # Genesis => /\ node[x].parent \in DOMAIN node
                          /\ Settled(node[x].parent)
                          /\ node[x].sequence = node[node[x].parent].sequence + 1
  BY <1>1, SettledFacts
<1>3. \A x : Settled(x) /\ x # Genesis => node[x].sequence > 1
  <2>. SUFFICES ASSUME NEW x, Settled(x), x # Genesis PROVE node[x].sequence > 1
    OBVIOUS
  <2>. PICK m : m = node[x].parent
    OBVIOUS
  <2>1. node[m].sequence \in Nat /\ node[m].sequence >= 1
        /\ node[x].sequence = node[m].sequence + 1
    BY <1>2
  <2>. QED  BY <2>1
<1>4. CASE g = Genesis
  <2>. DEFINE S == {x \in DOMAIN node : Settled(x)}
  <2>1. g \in S /\ h \in S
    BY <1>2
  <2>2. ASSUME NEW x \in S
        PROVE  /\ Settled(x) /\ node[x].sequence >= node[g].sequence
               /\ x # g => /\ node[x].sequence # node[g].sequence
                           /\ x # Genesis /\ node[x].parent \in S
    BY <1>1, <1>2, <1>3, <1>4
  <2>. HIDE DEF S
  <2>. QED  BY <1>1, <2>1, <2>2, ClosedBranch
<1>5. CASE g # Genesis
  <2>. DEFINE S == {x \in DOMAIN node \ {Genesis} :
                      /\ Settled(x) /\ node[x].view = node[g].view
                      /\ node[x].sequence >= node[g].sequence}
  <2>0. node[g].sequence > 1 /\ node[g].sequence \in Nat /\ node[h].sequence \in Nat
    BY <1>2, <1>3, <1>5
  <2>1. g \in S /\ h \in S
    BY <1>1, <1>2, <1>5, <2>0
  <2>2. ASSUME NEW x \in S
        PROVE  /\ Settled(x) /\ node[x].sequence >= node[g].sequence
               /\ x # g => /\ node[x].sequence # node[g].sequence
                           /\ x # Genesis /\ node[x].parent \in S
    <3>1. /\ x \in DOMAIN node \ {Genesis} /\ Settled(x) /\ node[x].view = node[g].view
          /\ node[x].sequence >= node[g].sequence /\ node[x].sequence \in Nat
          /\ g \in DOMAIN node \ {Genesis}
      BY <1>2, <2>1
    <3>2. ASSUME x # g
          PROVE  node[x].sequence # node[g].sequence /\ node[x].parent \in S
      <4>1. node[x].sequence # node[g].sequence
        BY <1>1, <3>1, <3>2 DEF OneProposal
      <4>. PICK m : m = node[x].parent
        OBVIOUS
      <4>2. m \in DOMAIN node /\ Settled(m) /\ node[x].sequence = node[m].sequence + 1
            /\ node[m].sequence \in Nat
        BY <1>2, <3>1
      <4>3. node[g].sequence < node[x].sequence
        BY <2>0, <3>1, <4>1
      <4>4. node[m].view = node[g].view
        BY <1>1, <3>1, <4>3 DEF ViewLinked
      <4>5. node[m].sequence >= node[g].sequence
        BY <2>0, <3>1, <4>2, <4>3
      <4>6. m # Genesis
        BY <1>1, <2>0, <4>5
      <4>. QED  BY <4>1, <4>2, <4>4, <4>5, <4>6
    <3>. QED  BY <3>1, <3>2
  <2>. HIDE DEF S
  <2>. QED  BY <1>1, <2>1, <2>2, ClosedBranch
<1>. QED  BY <1>4, <1>5

\* What was handed over is settled.
LEMMA DeliveredSettled ==
  ASSUME ChainInv, NEW r \in Replica, NEW x \in Delivered(r)
  PROVE  Settled(x) /\ x \in DOMAIN node /\ node[x].sequence \in Nat
<1>1. Delivered(r) = Handed(rep[r])
  BY DEF Delivered, Handed, Made, Held
<1>2. HandedCertified(rep[r], Certificates)
  BY DEF ChainInv, RepGood
<1>3. Settled(x)
  BY <1>1, <1>2 DEF HandedCertified, Settled
<1>. QED  BY <1>3, SettledFacts

-----------------------------------------------------------------------------
(* Theorems                                                                *)

\* In every behaviour a leader that has not synchronised has at most one node of
\* each sequence of its view, and one set of votes for it makes a certificate.
THEOREM LeadersInvariance == Spec => []LeadersInv
<1>1. Init => LeadersInv
  BY InitLeaders
<1>2. LeadersInv /\ [Next]_vars => LeadersInv'
  BY NextKeepsLeaders
<1>. QED  BY <1>1, <1>2, PTL DEF Spec

\* No two certificates are sent for one sequence of a view whose leader has not
\* synchronised: m_lastConsSeq and m_lastSequence keep it from proposing the
\* sequence twice, and mp_selfQc from making two certificates of one node.
THEOREM OneCertificate == Spec => []OneCertificatePerSequence
<1>1. LeadersInv => OneCertificatePerSequence
  <2>. SUFFICES ASSUME LeadersInv, NEW a \in decides, NEW b \in decides,
                       a.view = b.view, a.sequence = b.sequence,
                       synced[GetLeaderId(a.view)] = {}
                PROVE  a = b
    BY DEF OneCertificatePerSequence
  <2>. DEFINE r == GetLeaderId(a.view)
  <2>1. ASSUME NEW c \in {a, b}
        PROVE  /\ c \in Qc /\ c \in Certificates /\ c.node \in DOMAIN node \ {Genesis}
               /\ c.sequence = node[c.node].sequence /\ c.view = node[c.node].view
    <3>1. TypeOK /\ AllBacked /\ CertsLinked(Certificates) /\ c \in decides
      BY DEF LeadersInv, ChainInv, IInv
    <3>2. c \in Qc /\ c \in Certificates /\ c.node \in DOMAIN node \ {Genesis}
      BY <3>1 DEF TypeOK, Certificates, CertsLinked
    <3>3. c # NoQc
      BY <3>1, <3>2, NodeType, HashType DEF NoQc
    <3>. QED  BY <3>1, <3>2, <3>3 DEF AllBacked, AllQcs, Backed
  <2>2. a.node = b.node
    BY <2>1 DEF LeadersInv, OneProposal
  <2>3. a.signers = b.signers
    <3>1. r \in Replica /\ a.node \in Own(r)
      BY <2>1, LeaderIsReplica DEF Own, LeadersInv, ChainInv, IInv
    <3>2. OwnKept(r, rep[r], view[r], Certificates)
      BY <3>1, LeaderFacts DEF LeaderGood
    <3>. QED  BY <2>1, <2>2, <3>1, <3>2 DEF OwnKept
  <2>. QED  BY <2>1, <2>2, <2>3 DEF Qc
<1>. QED  BY <1>1, LeadersInvariance, PTL

\* The values handed over of one view, whose leader has not synchronised, are of one
\* branch, by whatever replicas and in whatever later views: a leader's next value
\* is on top of its own last one, or of the certificate that opened its view.
THEOREM BranchOfView == Spec => []OneBranchPerView
<1>1. LeadersInv => OneBranchPerView
  <2>. SUFFICES ASSUME LeadersInv, NEW v \in View, synced[GetLeaderId(v)] = {},
                       NEW g \in UNION {Delivered(r) : r \in Replica}, node[g].view = v,
                       NEW h \in UNION {Delivered(r) : r \in Replica}, node[h].view = v
                PROVE  g \in Branch(h) \/ h \in Branch(g)
    BY DEF OneBranchPerView, OneBranch
  <2>1. \A x \in {g, h} : Settled(x) /\ node[x].sequence \in Nat
    BY DeliveredSettled DEF LeadersInv
  <2>2. node[g].sequence <= node[h].sequence \/ node[h].sequence <= node[g].sequence
    BY <2>1
  <2>. QED  BY <2>1, <2>2, ViewBranch
<1>. QED  BY <1>1, LeadersInvariance, PTL

\* Before the first view change all replicas hand values of one branch to their
\* applications, in whatever order PROPOSEs, DECIDEs and proofs arrive: no two
\* values are proposed for one sequence, and each is voted for after the one
\* before it.
THEOREM BranchesAgree == Spec => []Agreement
<1>1. Init => AgreeInv
  <2>. SUFFICES ASSUME Init PROVE AgreeInv
    OBVIOUS
  <2>1. LeadersInv
    BY InitLeaders
  <2>2. DOMAIN node = {Genesis} /\ synced[0] = {}
    BY NAssumption DEF Init, Replica
  <2>. QED  BY <2>1, <2>2 DEF AgreeInv, FirstView
<1>2. AgreeInv /\ [Next]_vars => AgreeInv'
  BY NextKeepsFirst
<1>3. AgreeInv => Agreement
  <2>. SUFFICES ASSUME AgreeInv, \A r \in Replica : view[r] = 0,
                       NEW g \in UNION {Delivered(r) : r \in Replica},
                       NEW h \in UNION {Delivered(r) : r \in Replica}
                PROVE  g \in Branch(h) \/ h \in Branch(g)
    BY DEF Agreement, OneBranch
  <2>1. ASSUME NEW x \in {g, h}
        PROVE  /\ Settled(x) /\ node[x].sequence \in Nat
               /\ node[x].view = 0 /\ synced[GetLeaderId(node[x].view)] = {}
    <3>1. Settled(x) /\ x \in DOMAIN node /\ node[x].sequence \in Nat
      BY DeliveredSettled DEF AgreeInv, LeadersInv
    <3>2. node[Genesis].view = 0
      BY DEF AgreeInv, LeadersInv, ChainInv, NodesLinked, GenesisNode
    <3>3. node[x].view = 0 /\ synced[0] = {}
      BY <3>1, <3>2 DEF AgreeInv, FirstView
    <3>4. GetLeaderId(0) = 0
      BY NAssumption DEF GetLeaderId
    <3>. QED  BY <3>1, <3>3, <3>4
  <2>2. node[g].sequence <= node[h].sequence \/ node[h].sequence <= node[g].sequence
    BY <2>1
  <2>. QED  BY <2>1, <2>2, ViewBranch DEF AgreeInv
<1>. QED  BY <1>1, <1>2, <1>3, PTL DEF Spec
=============================================================================
