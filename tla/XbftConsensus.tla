--------------------------- MODULE XbftConsensus ---------------------------
(***************************************************************************)
(* The chained three-phase consensus of a replica,                         *)
(* src/lib/engine/XbftConsensus.cpp, with its node tree (XbftNodeTree.cpp),  *)
(* nodes (XbftNode.cpp) and certificates (XbftQc.cpp), driven by the sample *)
(* application's ledger (src/test/sample/dealing/BlockChain.cpp).          *)
(*                                                                         *)
(* A node is named by its hash, 0 for genesis and then 1, 2, ... in the     *)
(* order the nodes are made. What a hash stands for never changes, so it is *)
(* global (the variable node); what a replica knows of the node is a C++    *)
(* object of its own, and a PROPOSE received again makes a new object that  *)
(* takes the old one's place in the tree while locks and references still   *)
(* point at the old one: an object is named by its hash and a generation.   *)
(*                                                                         *)
(* The messages are never taken off the network: a datagram may arrive      *)
(* never, late, out of order and more than once. A PROPOSE is named by the  *)
(* node it carries, which its leader made and sent in one step. The         *)
(* pacemaker is the environment: the view may change to any later one with  *)
(* any certificate there is.                                               *)
(***************************************************************************)
EXTENDS XbftValidatorSet, SequencesExt

CONSTANTS
  MaxView,    \* BOUND: the last view
  MaxNodes,   \* BOUND: how many nodes are proposed
  MaxAgain,   \* BOUND: how many objects take another's place in a tree
  MaxSyncs    \* BOUND: how many nodes a replica takes from synchronised proofs

ASSUME ConsensusAssumption ==
  /\ MaxView \in Nat
  /\ MaxNodes \in Nat
  /\ MaxAgain \in Nat
  /\ MaxSyncs \in Nat

VARIABLES
  view,       \* m_viewNumber
  active,     \* m_isViewActive
  node,       \* the nodes made so far, by hash
  rep,        \* the engine and the ledger of each replica
  building,   \* the sequence of the value startConsensus is building, 0: none
  votes,      \* every VOTE sent
  decides,    \* every certificate made, each sent in a DECIDE
  proofs,     \* every proof that was a ledger's latest one
  synced      \* history: the nodes each ledger took from a synchronised proof

vars == <<view, active, node, rep, building, votes, decides, proofs, synced>>

View == 0 .. MaxView
Hash == 0 .. MaxNodes
Genesis == 0
NoHash == -1

Generation == 1 .. (MaxAgain + 1)
Ptr == Hash \X Generation
Null == <<NoHash, 0>>
Ref == Ptr \cup {Null}

\* A certificate: the content voted for and who signed it.
Qc == [node : Hash \cup {NoHash}, view : View, sequence : Nat, signers : SUBSET Replica]
NoQc == [node |-> NoHash, view |-> 0, sequence |-> 0, signers |-> {}]

Node == [view : View, sequence : Nat, parent : Hash, qc : Qc]
GenesisNode == [view |-> 0, sequence |-> 1, parent |-> NoHash, qc |-> NoQc]

\* votes: whose signatures mp_selfQc holds, none for a node of another replica.
Object == [qcRef : Ref, decision : BOOLEAN, preCommit : BOOLEAN, votes : SUBSET Replica]
NewObject == [qcRef |-> Null, decision |-> FALSE, preCommit |-> FALSE, votes |-> {}]
GenesisObject == [NewObject EXCEPT !.decision = TRUE, !.preCommit = TRUE]

Ledger == [seq : Nat, proof : Qc, lastConsSeq : Nat]

\* tree: m_nodes, the generation of the object the tree holds for a hash, 0 for
\* none; obj: all objects made; crashed: a null pointer has been dereferenced.
Rep == [lastSequence : Nat, tree : [Hash -> {0} \cup Generation], obj : [Ptr -> Object],
        lock : Ptr, exec : Ptr, highQc : Qc, ledger : Ledger, crashed : BOOLEAN]

Vote == [from : Replica, node : Hash]

TypeOK ==
  /\ view \in [Replica -> View]
  /\ active \in [Replica -> BOOLEAN]
  /\ \E n \in Hash : node \in [0 .. n -> Node \cup {GenesisNode}]
  /\ rep \in [Replica -> Rep]
  /\ building \in [Replica -> Nat]
  /\ votes \subseteq Vote
  /\ decides \subseteq Qc
  /\ proofs \subseteq Qc
  /\ synced \in [Replica -> SUBSET Hash]

\* UpdateProof of an empty proof: genesis is the only node, locked, executed.
InitialRep ==
  [lastSequence |-> 1,
   tree         |-> [h \in Hash |-> IF h = Genesis THEN 1 ELSE 0],
   obj          |-> [p \in Ptr |-> IF p = <<Genesis, 1>> THEN GenesisObject ELSE NewObject],
   lock         |-> <<Genesis, 1>>,
   exec         |-> <<Genesis, 1>>,
   highQc       |-> NoQc,
   ledger       |-> [seq |-> 1, proof |-> NoQc, lastConsSeq |-> 1],
   crashed      |-> FALSE]

Init ==
  /\ view = [r \in Replica |-> 0]
  /\ active = [r \in Replica |-> TRUE]
  /\ node = [h \in {Genesis} |-> GenesisNode]
  /\ rep = [r \in Replica |-> InitialRep]
  /\ building = [r \in Replica |-> 0]
  /\ votes = {}
  /\ decides = {}
  /\ proofs = {}
  /\ synced = [r \in Replica |-> {}]

-----------------------------------------------------------------------------
(* The node tree                                                           *)

Sequence(p) == node[p[1]].sequence
ParentHash(p) == node[p[1]].parent

InTree(s, h) == h \in Hash /\ s.tree[h] > 0
GetNode(s, h) == IF InTree(s, h) THEN <<h, s.tree[h]>> ELSE Null

\* A node of the highest sequence has no child, so it is the highest leaf.
GetHighestLeafHash(s) ==
  CHOOSE h \in DOMAIN node :
    /\ InTree(s, h)
    /\ \A g \in DOMAIN node : InTree(s, g) => node[h].sequence >= node[g].sequence

\* Mutant: AppendNode compares no sequences.
CanAppendAny(s, n) == TRUE

\* AppendNode refuses a node only if it knows its parent as not the one before.
CanAppend(s, n) == InTree(s, n.parent) => node[n.parent].sequence = n.sequence - 1

\* The object o takes its place in the tree, over one the tree may hold for h.
AppendNode(s, h, o) ==
  [s EXCEPT !.tree[h] = @ + 1, !.obj[<<h, s.tree[h] + 1>>] = o]

\* From p along the parents, down to the first one not above sequence floor, or
\* to Null where the tree does not hold the parent.
Trail(s, p, floor) ==
  LET from[q \in Ref] ==
        IF q = Null \/ Sequence(q) <= floor
        THEN <<q>>
        ELSE <<q>> \o from[GetNode(s, ParentHash(q))]
  IN  from[p]

\* BOUND: an object for h takes its place in the tree of r.
IsReplaced(r, p) == p[2] < rep[r].tree[p[1]]
Replaced == {rp \in Replica \X Ptr : IsReplaced(rp[1], rp[2])}
MayAppend(r, h) == rep[r].tree[h] > 0 => Cardinality(Replaced) < MaxAgain

\* CheckQc; the validator set of genesis is empty, and accepts anything.
CheckQc(p, qc) == p[1] = Genesis \/ IsQuorum(qc.signers)

-----------------------------------------------------------------------------
(* update: what a certificate qc of the node p does to a replica           *)

\* The value is handed to the application as soon as its node is certified.
PreCommit(s, p, qc) ==
  IF s.obj[p].preCommit
  THEN s
  ELSE [s EXCEPT !.obj[p].preCommit = TRUE,
                 !.ledger = [@ EXCEPT !.seq = Sequence(p), !.proof = qc]]

\* Mutant: the lock follows every certificate.
LockAlways(s, p) == [s EXCEPT !.lock = p]

Lock(s, p) == IF Sequence(p) > Sequence(s.lock) THEN [s EXCEPT !.lock = p] ELSE s

\* Mutant: the walk looks for a node below the executed one.
WalkPastExec(s, p) == Trail(s, p, Sequence(s.exec) - 1)

Walk(s, p) == Trail(s, p, Sequence(s.exec))

\* The walk from p must end at the executed object; where it leaves the tree
\* the code follows a null pointer.
Commit(s, p) ==
  LET trail == Walk(s, p)
  IN  CASE Last(trail) = Null -> [s EXCEPT !.crashed = TRUE]
        [] Last(trail) = s.exec ->
             [s EXCEPT !.exec = p,
                       !.obj = [q \in Ptr |->
                          IF q \in ToSet(Front(trail)) THEN [@[q] EXCEPT !.decision = TRUE]
                          ELSE @[q]]]
        [] OTHER -> s

Undecided(s, p) == p # Null /\ ~ s.obj[p].decision

\* Mutant: the two-chain is enough to execute.
ExecuteTwoChain(s, p, blk1) == Commit(s, blk1)

\* The three-chain p, blk1, blk: blk is executed if each is the parent of the
\* one its certificate is in.
Execute(s, p, blk1) ==
  LET blk == s.obj[blk1].qcRef
  IN  IF Undecided(s, blk) /\ ParentHash(p) = blk1[1] /\ ParentHash(blk1) = blk[1]
      THEN Commit(s, blk)
      ELSE s

Update(s, p, qc) ==
  IF ~ Undecided(s, p) THEN s
  ELSE LET t    == PreCommit(s, p, qc)
           blk1 == t.obj[p].qcRef
       IN  IF ~ Undecided(t, blk1) THEN t ELSE Execute(Lock(t, blk1), p, blk1)

\* The proofs that the application has then had as its latest.
Recorded(s) == IF s.ledger.proof = NoQc THEN {} ELSE {s.ledger.proof}

Become(r, s) ==
  /\ rep' = [rep EXCEPT ![r] = s]
  /\ proofs' = proofs \cup Recorded(s)

-----------------------------------------------------------------------------
(* Proposing                                                               *)

Alive(r) == ~ rep[r].crashed
IsLeader(r) == GetLeaderId(view[r]) = r

\* Mutant: m_lastConsSeq is not looked at.
ProposesNextAgain(r) == TRUE

\* m_lastConsSeq: a sequence is not proposed twice in a row.
ProposesNext(r) == rep[r].ledger.lastConsSeq # rep[r].ledger.seq + 1

\* startConsensus, called by the application's timer: it reads the sequence of
\* the ledger first and the proof later, without a lock.
StartConsensus(r) ==
  /\ Alive(r)
  /\ building[r] = 0
  /\ ProposesNext(r)
  /\ active[r]
  /\ IsLeader(r)
  /\ building' = [building EXCEPT ![r] = rep[r].ledger.seq + 1]
  /\ UNCHANGED <<view, active, node, rep, votes, decides, proofs, synced>>

\* Mutant: without a proof there is no parent.
NewNodeOfProof(r, seq, preQc) ==
  [view |-> view[r], sequence |-> seq, parent |-> preQc.node, qc |-> preQc]

\* Mutant: the certificate is given the view of its proposer.
NewNodeRelabels(r, seq, preQc) ==
  [view     |-> view[r],
   sequence |-> seq,
   parent   |-> IF preQc = NoQc THEN GetHighestLeafHash(rep[r]) ELSE preQc.node,
   qc       |-> [preQc EXCEPT !.view = view[r]]]

\* The node Propose makes of a value of sequence seq and the proof preQc.
NewNode(r, seq, preQc) ==
  [view     |-> view[r],
   sequence |-> seq,
   parent   |-> IF preQc = NoQc THEN GetHighestLeafHash(rep[r]) ELSE preQc.node,
   qc       |-> preQc]

\* The rest of startConsensus, which reads the proof and sets m_lastConsSeq
\* (BlockChain.cpp:241-250), in one step with the engine's Propose: a Store that
\* another thread has set m_seq but not yet m_lastProof of is not seen half done
\* (AppendNode would refuse the node made of it, whose sequence is not the next).
\* The sequence is used up even if the tree refuses the node. The leader's own
\* vote is counted at once, whatever it is locked on.
Propose(r) ==
  LET seq == building[r]
      s   == [rep[r] EXCEPT !.ledger.lastConsSeq = rep[r].ledger.seq + 1]
      n   == NewNode(r, seq, s.ledger.proof)
      h   == Cardinality(DOMAIN node)
      own == [NewObject EXCEPT !.qcRef = GetNode(s, n.qc.node), !.votes = {r}]
  IN  /\ Alive(r)
      /\ seq > 0
      /\ h <= MaxNodes
      /\ building' = [building EXCEPT ![r] = 0]
      /\ \/ /\ ~ (IsLeader(r) /\ seq >= s.lastSequence)
            /\ rep' = [rep EXCEPT ![r] = s]
            /\ UNCHANGED node
         \/ /\ IsLeader(r) /\ seq >= s.lastSequence
            /\ ~ CanAppend(s, n)
            /\ rep' = [rep EXCEPT ![r] = [s EXCEPT !.lastSequence = seq]]
            /\ UNCHANGED node
         \/ /\ IsLeader(r) /\ seq >= s.lastSequence
            /\ CanAppend(s, n)
            /\ rep' = [rep EXCEPT ![r] = AppendNode([s EXCEPT !.lastSequence = seq], h, own)]
            /\ node' = [g \in 0 .. h |-> IF g = h THEN n ELSE node[g]]
      /\ UNCHANGED <<view, active, votes, decides, proofs, synced>>

-----------------------------------------------------------------------------
(* OnRecv                                                                  *)

\* The leader that made a node of view v, which sends its PROPOSE and DECIDE
\* and is sent its VOTEs, is the leader of v; OnRecv takes no message of a view
\* before its own, and none while the view is inactive.
Accepts(r, v) == Alive(r) /\ active[r] /\ v >= view[r]

FromLeader(r, v) == ~ IsLeader(r) /\ GetLeaderId(v) = GetLeaderId(view[r])

\* Mutant: a vote for a sequence below one voted for.
OpinionAnySequence(s, p) ==
  LET qcRef == s.obj[p].qcRef
  IN  \/ qcRef # Null /\ Sequence(qcRef) > Sequence(s.lock)
      \/ Last(Trail(s, p, Sequence(s.lock))) = s.lock

\* The replica votes for p if its certificate is above the lock, or if the lock
\* is one of its ancestors.
Opinion(s, p) ==
  LET qcRef == s.obj[p].qcRef
  IN  /\ Sequence(p) >= s.lastSequence
      /\ \/ qcRef # Null /\ Sequence(qcRef) > Sequence(s.lock)
         \/ Last(Trail(s, p, Sequence(s.lock))) = s.lock

\* Mutant: a node is taken although the node of its certificate is unknown.
KnowsQcNodeNot(s, n) == TRUE

\* The node that the certificate of n is of is known and accepts it; the first
\* value has no certificate.
KnowsQcNode(s, n) ==
  LET qcNode == GetNode(s, n.qc.node)
  IN  IF qcNode = Null THEN n.sequence = 2 ELSE CheckQc(qcNode, n.qc)

OnPropose(r, h) ==
  LET n      == node[h]
      qcNode == GetNode(rep[r], n.qc.node)
      s      == AppendNode(rep[r], h, [NewObject EXCEPT !.qcRef = qcNode])
      p      == GetNode(s, h)
      after  == Update(s, qcNode, n.qc)
  IN  /\ Accepts(r, n.view)
      /\ FromLeader(r, n.view)
      /\ KnowsQcNode(rep[r], n)
      /\ CanAppend(rep[r], n)
      /\ MayAppend(r, h)
      /\ IF Opinion(after, p) /\ ~ after.crashed
         THEN /\ Become(r, [after EXCEPT !.lastSequence = n.sequence])
              /\ votes' = votes \cup {[from |-> r, node |-> h]}
         ELSE Become(r, after) /\ UNCHANGED votes
      /\ UNCHANGED <<view, active, node, building, decides, synced>>

\* Mutant: a certificate one vote short.
MakesQuorumEarly(voted) == Cardinality(voted) = GetQuorumSize - 1

MakesQuorum(voted) == Cardinality(voted) = GetQuorumSize

\* With the vote that makes a quorum the leader has a certificate.
OnVote(r, vote) ==
  LET h     == vote.node
      p     == GetNode(rep[r], h)
      voted == rep[r].obj[p].votes \cup {vote.from}
      s     == [rep[r] EXCEPT !.obj[p].votes = voted]
      qc    == [node |-> h, view |-> node[h].view, sequence |-> node[h].sequence,
                signers |-> voted]
      high  == IF qc.sequence > s.highQc.sequence THEN [s EXCEPT !.highQc = qc] ELSE s
  IN  /\ Accepts(r, node[h].view)
      /\ IsLeader(r)
      /\ GetLeaderId(node[h].view) = r
      /\ p # Null
      /\ ~ IsQuorum(rep[r].obj[p].votes)
      /\ rep[r].obj[p].votes # {}
      /\ vote.from \notin rep[r].obj[p].votes
      /\ IF MakesQuorum(voted)
         THEN /\ Become(r, Update(high, p, qc))
              /\ decides' = IF rep'[r].crashed THEN decides ELSE decides \cup {qc}
         ELSE Become(r, s) /\ UNCHANGED decides
      /\ UNCHANGED <<view, active, node, building, votes, synced>>

OnDecide(r, qc) ==
  LET p == GetNode(rep[r], qc.node)
  IN  /\ Accepts(r, qc.view)
      /\ FromLeader(r, qc.view)
      /\ p # Null
      /\ CheckQc(p, qc)
      /\ Become(r, Update(rep[r], p, qc))
      /\ UNCHANGED <<view, active, node, building, votes, decides, synced>>

-----------------------------------------------------------------------------
(* What the pacemaker and the synchronisation do to the replica            *)

\* Rotate; there is no view to rotate to beyond the last one.
SetViewInActive(r) ==
  /\ Alive(r)
  /\ active[r]
  /\ view[r] < MaxView
  /\ active' = [active EXCEPT ![r] = FALSE]
  /\ UNCHANGED <<view, node, rep, building, votes, decides, proofs, synced>>

\* What the highest certificate of a view change does, if its node is known.
AdoptQc(s, qc) == Update(s, GetNode(s, qc.node), qc)

ViewChanged(r, v, qc) ==
  /\ Alive(r)
  /\ v > view[r]
  /\ view' = [view EXCEPT ![r] = v]
  /\ active' = [active EXCEPT ![r] = TRUE]
  /\ Become(r, AdoptQc(rep[r], qc))
  /\ UNCHANGED <<node, building, votes, decides, synced>>

\* UpdateProof: a certificate beyond every sequence seen replaces what the
\* replica has locked and executed by its node. AppendNode, whose result it does
\* not look at, takes the node: see ChainGrows.
UpdateProof(s, qc) ==
  LET fromProof == [NewObject EXCEPT !.decision = TRUE]
      t         == AppendNode(s, qc.node, fromProof)
      p         == GetNode(t, qc.node)
  IN  IF qc.sequence > s.lastSequence
      THEN [t EXCEPT !.lastSequence = qc.sequence, !.lock = p, !.exec = p, !.highQc = qc]
      ELSE s

\* Mutant: a response one sequence ahead is ignored.
AheadByTwo(r, qc) == qc.sequence > rep[r].ledger.seq + 1

Ahead(r, qc) == qc.sequence > rep[r].ledger.seq

\* Mutant: the view of the proof is taken whatever it is.
ViewOfAnyProof(r, qc) == qc.view

ViewOfProof(r, qc) == IF qc.view >= view[r] THEN qc.view ELSE view[r]

\* Store of a synchronisation response that is ahead of the ledger.
Sync(r, qc) ==
  LET s == [rep[r] EXCEPT !.ledger = [@ EXCEPT !.seq = qc.sequence, !.proof = qc]]
  IN  /\ Alive(r)
      /\ Ahead(r, qc)
      /\ Cardinality(synced[r] \cup {qc.node}) <= MaxSyncs
      /\ qc.sequence > rep[r].lastSequence => MayAppend(r, qc.node)
      /\ Become(r, UpdateProof(s, qc))
      /\ view' = [view EXCEPT ![r] = ViewOfProof(r, qc)]
      /\ active' = [active EXCEPT ![r] = @ \/ qc.view >= view[r]]
      /\ synced' = [synced EXCEPT ![r] = @ \cup {qc.node}]
      /\ UNCHANGED <<node, building, votes, decides>>

-----------------------------------------------------------------------------

Next ==
  \E r \in Replica :
    \/ StartConsensus(r)
    \/ Propose(r)
    \/ \E h \in DOMAIN node \ {Genesis} : OnPropose(r, h)
    \/ \E vote \in votes : OnVote(r, vote)
    \/ \E qc \in decides : OnDecide(r, qc)
    \/ SetViewInActive(r)
    \/ \E v \in View, qc \in decides \cup proofs \cup {NoQc} : ViewChanged(r, v, qc)
    \/ \E qc \in proofs : Sync(r, qc)

Spec == Init /\ [][Next]_vars

-----------------------------------------------------------------------------
(* Properties                                                              *)

\* h and its ancestors.
Branch(h) ==
  LET up[g \in Hash] ==
        {g} \cup (IF node[g].parent \in DOMAIN node THEN up[node[g].parent] ELSE {})
  IN  up[h]

OneBranch(S) == \A g, h \in S : g \in Branch(h) \/ h \in Branch(g)

Made(r) == {p \in Ptr : p[2] <= rep[r].tree[p[1]]}

\* The nodes whose values the replica handed to its application (or held from
\* the start), and those it decided (or took from a synchronised proof).
Delivered(r) == {p[1] : p \in {q \in Made(r) : rep[r].obj[q].preCommit}}
Decided(r) == {p[1] : p \in {q \in Made(r) : rep[r].obj[q].decision}}

\* A leader votes for its node by proposing it.
VotedFor(r, h) == GetLeaderId(node[h].view) = r \/ [from |-> r, node |-> h] \in votes

\* A leader that crashes may have stored a certificate it does not send.
Certificates == decides \cup proofs

AllQcs == (Certificates \cup {node[h].qc : h \in DOMAIN node}
           \cup UNION {{rep[r].highQc, rep[r].ledger.proof} : r \in Replica}) \ {NoQc}

\* Wherever a certificate is kept or sent, in a DECIDE, a proof, a proposal, a
\* NEWVIEW or a ledger, a quorum voted for exactly the node it names, whatever
\* votes were sent again, late, to a leader that has moved on (onVote).
CertificatesBacked ==
  \A qc \in AllQcs :
    /\ IsQuorum(qc.signers)
    /\ \A r \in qc.signers : VotedFor(r, qc.node)
    /\ qc.sequence = node[qc.node].sequence
    /\ qc.view = node[qc.node].view

\* Every node with a certificate has the sequence after its parent's, and but for
\* the first value its parent has the certificate it carries. The sequence comes
\* from the ledger and the certificate from a proof read later
\* (BlockChain::startConsensus), and AppendNode compares the two only where the
\* parent is known: a quorum does not vote for a node that is not so.
ChainGrows ==
  \A qc \in Certificates :
    LET n == node[qc.node]
    IN  /\ n.sequence = node[n.parent].sequence + 1
        /\ n.sequence > 2 => n.qc \in Certificates /\ n.qc.node = n.parent

\* Within a view no two values are certified for one sequence: m_lastConsSeq
\* and m_lastSequence keep a leader from proposing a sequence twice, as long as
\* its ledger moves by its own certificates. (A leader that takes a proof inside
\* its view may go back and forth between sequences, and propose one again.)
OneCertificatePerSequence ==
  \A a, b \in decides :
    a.view = b.view /\ a.sequence = b.sequence /\ synced[GetLeaderId(a.view)] = {} => a = b

\* Until the leaders come round again, no certificate is of a sequence below one
\* of an earlier view: whoever voted for the first has m_lastSequence keep it
\* from voting for the second (XbftConsensus.cpp:487), and a leader from proposing
\* it (line 225). From view N on a replica may vote for a node of a view that its
\* leader is N views ahead in, and later for a node of a view in between.
SequencesGrowWithViews ==
  \A a, b \in Certificates : a.view < b.view /\ b.view < N => a.sequence <= b.sequence

\* A replica hands its application a value only after the value before it,
\* unless its ledger took that one from a synchronised proof.
DeliveryFollowsChain ==
  \A r \in Replica : \A h \in Delivered(r) :
    node[h].sequence > 2 => node[h].parent \in Delivered(r) \cup synced[r]

\* A replica is never locked below what it has executed, nor above what it may
\* still vote for.
ExecBehindLock ==
  \A r \in Replica :
    /\ Sequence(rep[r].exec) <= Sequence(rep[r].lock)
    /\ Sequence(rep[r].lock) <= rep[r].lastSequence

\* A node is executed only when two generations of its descendants have been
\* certified (the three-chain), or as the node of a synchronised proof.
ExecutedOnThreeChain ==
  \A r \in Replica :
    LET e == rep[r].exec[1]
    IN  e \in {Genesis} \cup synced[r] \/
        \E a, b \in Certificates : node[a.node].parent = e /\ node[b.node].parent = a.node

\* Before the first view change all replicas hand values of one branch to their
\* applications. After one they may not: a value that 0 certified in view 0, whose
\* DECIDE was lost, and one that 1 certified in view 1 without knowing of it.
\* (Finality of XbftSystem is about the values executed.)
Agreement ==
  (\A r \in Replica : view[r] = 0) => OneBranch(UNION {Delivered(r) : r \in Replica})

\* The values handed over of one view, by whatever replicas, are of one branch, if
\* the leader of the view has not synchronised: it goes on from its own last
\* certificate, also after the view change has given it one of another view
\* (BlockChain.cpp:210, XbftConsensus.cpp:584).
OneBranchPerView ==
  \A v \in View : synced[GetLeaderId(v)] = {} =>
    OneBranch({h \in UNION {Delivered(r) : r \in Replica} : node[h].view = v})

\* A replica that has not synchronised never follows a null parent pointer in
\* update's walk (XbftConsensus.cpp:622).
WalkStaysInTree == \A r \in Replica : synced[r] = {} => ~ rep[r].crashed

\* A replica's lock, executed node and highest sequence voted for never go back
\* to a lower sequence, in whatever order certificates and proofs arrive.
LocksAdvance ==
  [][\A r \in Replica :
       /\ Sequence(rep[r].lock)' >= Sequence(rep[r].lock)
       /\ Sequence(rep[r].exec)' >= Sequence(rep[r].exec)
       /\ rep[r].lastSequence' >= rep[r].lastSequence]_vars

\* docs/Hotstuff共识算法.md:55 says that a replica checks that a proposal it votes for is
\* of its current view.
VotesInOwnView ==
  [][\A vote \in votes' \ votes : node[vote.node].view = view[vote.from]]_vars

\* XbftConsensus.cpp:583 says that a node which has been pre-committed is not
\* pre-committed again.
PreCommittedOnce ==
  \A r \in Replica : \A p, q \in Made(r) :
    /\ p[1] = q[1]
    /\ rep[r].obj[p].preCommit
    /\ rep[r].obj[q].preCommit
    => p = q
=============================================================================
