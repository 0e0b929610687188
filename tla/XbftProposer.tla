--------------------------- MODULE XbftProposer ---------------------------
(***************************************************************************)
(* How a leader gets a value certified: it proposes the value, sends the    *)
(* PROPOSE again on the pacemaker's timer, and collects the VOTEs that its   *)
(* followers sign, while messages are lost and the application changes the  *)
(* validators (src/lib/engine/XbftConsensus.cpp, XbftNode.cpp, XbftQc.cpp,   *)
(* XbftLiveness.cpp:195).                                                  *)
(*                                                                         *)
(* One engine, Self, is modelled in full; of the other engines their trees,  *)
(* locks and votes. view is Self's; a follower in another view takes no       *)
(* message of Self, which is as if it were lost. All engines start from the  *)
(* proof of a node, 0, that is certified.                                  *)
(***************************************************************************)
EXTENDS XbftMsg, XbftNodeTree

CONSTANTS
  Self,         \* the address of the engine
  Responsive,   \* the followers whose messages arrive in the end
  Certifiers,   \* who may have signed a certificate that Self did not make
  Lists,        \* the lists of validators there are
  Replaces,     \* BOUND: whose list may be replaced, which one and by which
  Hearing,      \* BOUND: the followers under each list that anything arrives at
  MaxView,      \* BOUND: the last view under each list
  MaxNodes,     \* BOUND: how many nodes are made
  MaxLeaves,    \* BOUND: the length of the list of leaves
  MaxProposals  \* BOUND: how many of them Self makes

ASSUME ProposerAssumption ==
  /\ Self \in Address
  /\ Responsive \subseteq Address \ {Self}
  /\ Certifiers \subseteq SUBSET Address
  /\ Lists \in Seq(Seq(Address) \ {<< >>}) /\ Lists # << >>
  /\ Replaces \subseteq Address \X (DOMAIN Lists) \X (DOMAIN Lists)
  /\ Hearing \in [DOMAIN Lists -> SUBSET Address]
  /\ MaxView \in [DOMAIN Lists -> Nat]
  /\ MaxNodes \in Nat
  /\ MaxLeaves \in Nat
  /\ MaxProposals \in Nat

VARIABLES
  view,           \* m_viewNumber of Self
  active,         \* m_isViewActive of Self
  members,        \* m_validators of each engine
  given,          \* history: which list of Lists each engine was handed last
  lastSequence,   \* m_lastSequence of each engine
  lastConsSeq,    \* BlockChain's m_lastConsSeq of Self
  proof,          \* the node of the latest proof of Self's ledger
  preCommit,      \* the nodes whose object in Self's tree has m_preCommit
  inst,           \* the nodes Self has made
  tree,           \* m_nodes of each follower
  lock,           \* mp_lock of each follower
  msgs,           \* the PROPOSEs and VOTEs under way
  decides         \* the certificates sent

vars == <<node, nodes, leafNodes, view, active, members, given, lastSequence,
          lastConsSeq, proof, preCommit, inst, tree, lock, msgs, decides>>

Hash == 0 .. MaxNodes
NoHash == -1
FirstSequence == 2

\* signers: whose signatures the certificate has that the node carries.
Node == [view : Nat, sequence : Nat, parent : Hash \cup {NoHash}, signers : SUBSET Address]

Follower == Address \ {Self}

\* An object of a node in a follower's tree. members: m_validators; qcRef: whether
\* mp_qcRef is null, or an object of the parent that the tree holds, or held.
Object == [members : {Set(Lists[k]) : k \in DOMAIN Lists}, qcRef : {"null", "held", "replaced"}]

\* held: mp_lock is the object that the tree holds for the node.
Lock == [node : Hash, held : BOOLEAN]

\* voted: m_voted; signers: whose signatures mq_selfQc holds; due: half of the
\* instance's time is over since m_lastProposeTime; ended: m_endTime is set;
\* members: m_validators; changed (history): Self's validators have changed.
IsInstance(i) ==
  /\ DOMAIN i = {"voted", "signers", "due", "ended", "members", "changed"}
  /\ i.voted \in SUBSET Nat /\ i.signers \in SUBSET Address
  /\ {i.due, i.ended, i.changed} \subseteq BOOLEAN
  /\ IsMembers(i.members)

TypeOK ==
  /\ view \in Nat
  /\ active \in BOOLEAN
  /\ DOMAIN members = Address /\ \A a \in Address : IsMembers(members[a])
  /\ given \in [Address -> DOMAIN Lists]
  /\ lastSequence \in [Address -> Nat]
  /\ lastConsSeq \in Nat
  /\ \E n \in Hash : node \in [0 .. n -> Node]
  /\ nodes \subseteq DOMAIN node
  /\ leafNodes \in Seq(nodes)
  /\ proof \in nodes
  /\ preCommit \subseteq nodes
  /\ DOMAIN inst \subseteq nodes
  /\ \A h \in DOMAIN inst : IsInstance(inst[h])
  /\ DOMAIN tree = Follower
  /\ \A a \in Follower : DOMAIN tree[a] \subseteq DOMAIN node /\ tree[a] \in [DOMAIN tree[a] -> Object]
  /\ lock \in [Follower -> Lock]

Init ==
  /\ node = [h \in {0} |-> [view |-> 0, sequence |-> FirstSequence, parent |-> NoHash, signers |-> {}]]
  /\ nodes = {0}
  /\ leafNodes = <<0>>
  /\ view = 0
  /\ active = TRUE
  /\ lastSequence = [a \in Address |-> FirstSequence]
  /\ lastConsSeq = FirstSequence
  /\ proof = 0
  /\ preCommit = {0}
  /\ inst = [h \in {} |-> 0]
  /\ \E k \in DOMAIN Lists :
       /\ members = [a \in Address |-> Set(Lists[k])]
       /\ given = [a \in Address |-> k]
       /\ tree = [a \in Follower |-> [h \in {0} |-> [members |-> Set(Lists[k]), qcRef |-> "null"]]]
  /\ lock = [a \in Follower |-> [node |-> 0, held |-> TRUE]]
  /\ msgs = {}
  /\ decides = {}

Mine == members[Self]
MyId == QueryId(Mine, Self)
IsLeader == Leads(Mine, Self, view)

\* Nobody takes a message of a view before the present one: it is not kept.
Post(ms) == {x \in ms : Content(x.m).view = view}

\* What m_sendMsg puts under way. Those it is sent to take it until it is lost.
Message(m, addrs) == [to |-> addrs, m |-> m]

Broadcast(h, n) == Message(newPropose(Self, MyId, h, n), GetOtherReplicaAddrs(Mine, MyId))

\* The certificate of h that the given signers make.
Qc(h, signers) ==
  LET content == QcValue(h, node[h])
  IN  [content |-> content, signatures |-> {Sign(a, content) : a \in signers}]

\* Whose signatures the certificates of h have that there are: Self's own ones
\* are those it has sent.
SignersOf(h) ==
  IF h \in DOMAIN inst
  THEN {{PublicKeyToAddr(s) : s \in d.xbft.qc.signatures} : d \in {e \in decides : Content(e).node = h}}
  ELSE Certifiers

HasCertificate(h) == SignersOf(h) # {}

-----------------------------------------------------------------------------
(* Self as a leader                                                        *)

\* Propose with initSelfQc.
NewInstance ==
  [voted |-> {MyId}, signers |-> {Self}, due |-> FALSE, ended |-> FALSE,
   members |-> Mine, changed |-> FALSE]

\* The node a leader makes on top of p.
NewNode(p, signers) ==
  [view |-> view, sequence |-> node[p].sequence + 1, parent |-> p, signers |-> signers]

\* startConsensus and Propose, with the certificate of the proof; a sequence is used
\* up even if the engine refuses it. (XbftConsensus has the steps one by one.)
Propose(signers) ==
  LET h == Cardinality(DOMAIN node)
      n == NewNode(proof, signers)
  IN  /\ lastConsSeq # n.sequence
      /\ active
      /\ IsLeader
      /\ h <= MaxNodes /\ Cardinality(DOMAIN inst) < MaxProposals
      /\ lastConsSeq' = n.sequence
      /\ IF n.sequence < lastSequence[Self]
         THEN UNCHANGED <<node, nodes, leafNodes, lastSequence, inst, msgs>>
         ELSE /\ node' = [g \in 0 .. h |-> IF g = h THEN n ELSE node[g]]
              /\ AppendNode(h, n)
              /\ lastSequence' = [lastSequence EXCEPT ![Self] = n.sequence]
              /\ inst' = [g \in DOMAIN inst \cup {h} |-> IF g = h THEN NewInstance ELSE inst[g]]
              /\ msgs' = msgs \cup {Broadcast(h, n)}
      /\ UNCHANGED <<view, active, members, given, proof, preCommit, tree, lock, decides>>

\* Time passes.
Tick(h) ==
  /\ ~ inst[h].due /\ ~ inst[h].ended
  /\ inst' = [inst EXCEPT ![h].due = TRUE]
  /\ UNCHANGED <<node, nodes, leafNodes, view, active, members, given, lastSequence,
                 lastConsSeq, proof, preCommit, tree, lock, msgs, decides>>

NeedSendProposeAgain(h) == h \in DOMAIN inst /\ inst[h].due /\ ~ inst[h].ended

\* The pacemaker's timer sends the highest leaf again, whether Self still leads
\* or not.
OnTimeout ==
  LET h == GetHighestLeafHash
  IN  /\ NeedSendProposeAgain(h)
      /\ active
      /\ inst' = [inst EXCEPT ![h].due = FALSE]
      /\ msgs' = msgs \cup Post({Broadcast(h, node[h])})
      /\ UNCHANGED <<node, nodes, leafNodes, view, active, members, given,
                     lastSequence, lastConsSeq, proof, preCommit, tree, lock, decides>>

\* Mutant: the vote is counted before the signature is added.
CountedFirst(i, a, id) == [i EXCEPT !.signers = @ \cup {a}, !.voted = @ \cup {id}]

\* The certificate takes one signature of a key, and only then is the id counted,
\* which may have voted already.
Counted(i, a, id) ==
  IF a \in i.signers THEN i ELSE [i EXCEPT !.signers = @ \cup {a}, !.voted = @ \cup {id}]

\* Mutant: one vote is enough less.
MakesQuorumEarly(i, j) == j.voted # i.voted /\ Cardinality(j.voted) = QuorumSize(Mine) - 1

\* A new vote makes the number of votes the quorum's.
MakesQuorum(i, j) == j.voted # i.voted /\ Cardinality(j.voted) = QuorumSize(Mine)

\* onVote
RecvVote(x) ==
  LET h == Content(x.m).node
      i == inst[h]
      j == IF Cardinality(i.voted) >= QuorumSize(Mine) THEN i
           ELSE Counted(i, ReplicaAddress(x.m), ReplicaId(x.m))
  IN  /\ x.m.xbft.type = "VOTE" /\ Self \in x.to
      /\ CheckMsgItem(Mine, x.m)
      /\ active
      /\ IsLeader
      /\ h \in DOMAIN inst
      /\ msgs' = msgs \ {x}
      /\ IF MakesQuorum(i, j)
         THEN /\ inst' = [inst EXCEPT ![h] = [j EXCEPT !.ended = TRUE]]
              /\ preCommit' = preCommit \cup {h}
              /\ proof' = IF h \in preCommit THEN proof ELSE h
              /\ decides' = decides \cup {newDecide(Self, MyId, Qc(h, j.signers))}
         ELSE /\ inst' = [inst EXCEPT ![h] = j]
              /\ UNCHANGED <<preCommit, proof, decides>>
      /\ UNCHANGED <<node, nodes, leafNodes, view, active, members, given,
                     lastSequence, lastConsSeq, tree, lock>>

-----------------------------------------------------------------------------
(* Its followers                                                           *)

Hears(a) == a \in Hearing[given[a]]

\* The tree t with a new object of h, made under the validators vs, in the place
\* of the one it may hold.
WithNode(t, h, vs, qcRef) ==
  [g \in DOMAIN t \cup {h} |->
     IF g = h THEN [members |-> vs, qcRef |-> qcRef]
     ELSE IF node[g].parent = h /\ t[g].qcRef = "held" THEN [t[g] EXCEPT !.qcRef = "replaced"]
     ELSE t[g]]

\* update, of a certificate of p: its parent's object is locked, if it is higher
\* than the lock (and then neither is decided). XbftConsensus has the rest.
LockAfter(l, t, p) ==
  IF t[p].qcRef # "null" /\ node[node[p].parent].sequence > node[l.node].sequence
  THEN [node |-> node[p].parent, held |-> t[p].qcRef = "held"]
  ELSE l

\* The lock of a after it has taken the PROPOSE of h.
LockOnPropose(a, h) ==
  LockAfter([lock[a] EXCEPT !.held = @ /\ lock[a].node # h], tree[a], node[h].parent)

\* The follower has the node that the certificate in h is of, and accepts the
\* certificate; only the first value, of sequence 2, may come without.
KnowsQcNode(a, h) ==
  LET p == node[h].parent
  IN  p \in DOMAIN tree[a] /\ CheckQc(tree[a][p].members, Qc(p, node[h].signers))

\* The certificate in h is above the lock, or of the locked object itself.
LockAllows(a, h) ==
  LET l == LockOnPropose(a, h)
      p == node[h].parent
  IN  node[p].sequence > node[l.node].sequence \/ l = [node |-> p, held |-> TRUE]

\* Mutant: a follower does not vote twice for a sequence.
MayVoteOnce(a, h) == node[h].sequence > lastSequence[a]

\* A PROPOSE that comes again is voted for again.
MayVote(a, h) == node[h].sequence >= lastSequence[a]

\* Whether the follower votes for h.
Votes(a, h) == MayVote(a, h) /\ LockAllows(a, h)

\* onPropose, from the node of the certificate on: the node enters the tree, and
\* its certificate locks, whether the follower then votes or not.
HandlePropose(a, h, votes) ==
  /\ KnowsQcNode(a, h)
  /\ node[h].sequence = node[node[h].parent].sequence + 1
  /\ tree' = [tree EXCEPT ![a] = WithNode(@, h, members[a], "held")]
  /\ lock' = [lock EXCEPT ![a] = LockOnPropose(a, h)]
  /\ lastSequence' =
       IF votes THEN [lastSequence EXCEPT ![a] = node[h].sequence] ELSE lastSequence

\* The PROPOSE of Self; the vote goes to the leader.
RecvPropose(a, x) ==
  LET vs    == members[a]
      h     == Content(x.m).node
      votes == Votes(a, h)
      vote  == Message(newVote(a, QueryId(vs, a), Content(x.m)), QueryAddr(vs, LeaderId(vs, view)))
  IN  /\ x.m.xbft.type = "PROPOSE" /\ a \in x.to /\ Hears(a)
      /\ CheckMsgItem(vs, x.m)
      /\ ~ Leads(vs, a, view)
      /\ LeaderId(vs, view) = ReplicaId(x.m)
      /\ HandlePropose(a, h, votes)
      /\ msgs' = IF votes THEN msgs \cup {vote} ELSE msgs
      /\ UNCHANGED <<node, nodes, leafNodes, view, active, members, given,
                     lastConsSeq, proof, preCommit, inst, decides>>

\* The PROPOSE of another leader, of this view or one before.
RecvOthersPropose(a, h) ==
  /\ h # 0 /\ h \notin DOMAIN inst /\ Hears(a)
  /\ ~ Leads(members[a], a, node[h].view)
  /\ HandlePropose(a, h, Votes(a, h))
  /\ UNCHANGED <<node, nodes, leafNodes, view, active, members, given, lastConsSeq,
                 proof, preCommit, inst, msgs, decides>>

\* A DECIDE, or the certificate of a view change, which the tree does not check.
RecvCertificate(a, h) ==
  /\ h \in DOMAIN tree[a] /\ HasCertificate(h) /\ Hears(a)
  /\ lock' = [lock EXCEPT ![a] = LockAfter(@, tree[a], h)]
  /\ UNCHANGED <<node, nodes, leafNodes, view, active, members, given, lastSequence,
                 lastConsSeq, proof, preCommit, inst, tree, msgs, decides>>

\* A follower proposes when it leads, on top of a certified node of its tree.
OthersPropose(a, p, signers) ==
  LET h == Cardinality(DOMAIN node)
      n == NewNode(p, signers)
  IN  /\ Leads(members[a], a, view) /\ ~ IsLeader
      /\ p \in DOMAIN tree[a]
      /\ n.sequence >= lastSequence[a]
      /\ h <= MaxNodes
      /\ node' = [g \in 0 .. h |-> IF g = h THEN n ELSE node[g]]
      /\ tree' = [tree EXCEPT ![a] = [g \in DOMAIN @ \cup {h} |->
                    IF g = h THEN [members |-> members[a], qcRef |-> "held"] ELSE @[g]]]
      /\ lastSequence' = [lastSequence EXCEPT ![a] = n.sequence]
      /\ UNCHANGED <<nodes, leafNodes, view, active, members, given, lastConsSeq, proof,
                     preCommit, inst, lock, msgs, decides>>

\* A message is lost, or refused by who gets it.
Lose(x) ==
  /\ msgs' = msgs \ {x}
  /\ UNCHANGED <<node, nodes, leafNodes, view, active, members, given, lastSequence,
                 lastConsSeq, proof, preCommit, inst, tree, lock, decides>>

-----------------------------------------------------------------------------
(* Self as a follower                                                      *)

\* update, of the node of a certificate that Self meets.
Certify(h) ==
  /\ preCommit' = preCommit \cup {h}
  /\ proof' = IF h \in preCommit THEN proof ELSE h

\* Self takes the leader's node, whose parent's certificate it carries, and votes
\* for it or not. A PROPOSE that comes again makes a new object.
LearnNode(h) ==
  LET p == node[h].parent
  IN  /\ active /\ ~ IsLeader
      /\ h # 0 /\ h \notin DOMAIN inst
      /\ node[h].view = view
      /\ p \in nodes
      /\ Len(leafNodes) < MaxLeaves
      /\ AppendNode(h, node[h])
      /\ preCommit' = (preCommit \cup {p}) \ {h}
      /\ proof' = IF p \in preCommit THEN proof ELSE p
      /\ \/ UNCHANGED lastSequence
         \/ /\ node[h].sequence > lastSequence[Self]
            /\ lastSequence' = [lastSequence EXCEPT ![Self] = node[h].sequence]
      /\ UNCHANGED <<node, view, active, members, given, lastConsSeq, inst, tree, lock,
                     msgs, decides>>

\* The DECIDE of the leader's node.
LearnDecide(h) ==
  /\ active /\ ~ IsLeader
  /\ h \notin preCommit /\ h \notin DOMAIN inst
  /\ node[h].view = view
  /\ Certify(h)
  /\ UNCHANGED <<node, nodes, leafNodes, view, active, members, given, lastSequence,
                 lastConsSeq, inst, tree, lock, msgs, decides>>

-----------------------------------------------------------------------------
(* What the pacemaker and the application do                               *)

SetViewInActive ==
  /\ active
  /\ view < MaxView[given[Self]]
  /\ active' = FALSE
  /\ UNCHANGED <<node, nodes, leafNodes, view, members, given, lastSequence,
                 lastConsSeq, proof, preCommit, inst, tree, lock, msgs, decides>>

\* The pacemaker brings the certificate of a node, one that Self has or not.
ViewChanged(h) ==
  /\ view < MaxView[given[Self]]
  /\ view' = view + 1
  /\ active' = TRUE
  /\ msgs' = {}
  /\ HasCertificate(h)
  /\ Certify(h)
  /\ UNCHANGED <<node, nodes, leafNodes, members, given, lastSequence, lastConsSeq, inst, tree, lock,
                 decides>>

\* An engine is handed its list of validators again or the one in its place.
Give(a, k) ==
  /\ k = given[a] \/ <<a, given[a], k>> \in Replaces
  /\ given' = [given EXCEPT ![a] = k]
  /\ members' = [members EXCEPT ![a] = UpdateValidators(@, Lists[k])]

\* UpdateProof: a certified node above all the follower has seen enters its tree
\* and is locked.
UpdateProof(a, h) ==
  /\ tree' = [tree EXCEPT ![a] = WithNode(@, h, members[a], "null")]
  /\ lock' = [lock EXCEPT ![a] = [node |-> h, held |-> TRUE]]
  /\ lastSequence' = [lastSequence EXCEPT ![a] = node[h].sequence]

\* UpdateValidatorsAndProof: h is the node of the follower's own latest proof, or
\* of one that it has asked for.
UpdateFollower(a, k, h) ==
  /\ HasCertificate(h) /\ Hears(a)
  /\ Give(a, k)
  /\ IF node[h].sequence > lastSequence[a] THEN UpdateProof(a, h)
     ELSE UNCHANGED <<tree, lock, lastSequence>>
  /\ UNCHANGED <<node, nodes, leafNodes, view, active, lastConsSeq, proof, preCommit,
                 inst, msgs, decides>>

\* UpdateValidatorsAndProof, with the ledger's own latest proof, which may be of
\* a node Self has not voted for.
UpdateSelf(k) ==
  /\ Give(Self, k)
  /\ active' = (active \/ node[proof].view >= view)
  /\ inst' = [h \in DOMAIN inst |->
                [inst[h] EXCEPT !.changed = @ \/ members'[Self] # members[Self]]]
  /\ \/ /\ node[proof].sequence <= lastSequence[Self]
        /\ UNCHANGED <<nodes, leafNodes, preCommit, lastSequence>>
     \/ /\ node[proof].sequence > lastSequence[Self]
        /\ Len(leafNodes) < MaxLeaves
        /\ AppendNode(proof, node[proof])
        /\ preCommit' = preCommit \cup {proof}
        /\ lastSequence' = [lastSequence EXCEPT ![Self] = node[proof].sequence]
  /\ UNCHANGED <<node, view, lastConsSeq, proof, tree, lock, msgs, decides>>

-----------------------------------------------------------------------------

Next ==
  \/ \E signers \in SignersOf(proof) : Propose(signers)
  \/ \E h \in DOMAIN inst : Tick(h)
  \/ OnTimeout
  \/ \E x \in msgs : RecvVote(x)
  \/ \E a \in Follower, x \in msgs : RecvPropose(a, x)
  \/ \E a \in Follower, h \in DOMAIN node : RecvOthersPropose(a, h) \/ RecvCertificate(a, h)
  \/ \E a \in Follower, p \in DOMAIN node : \E signers \in SignersOf(p) : OthersPropose(a, p, signers)
  \/ \E x \in msgs : Lose(x)
  \/ \E h \in DOMAIN node : LearnNode(h)
  \/ \E h \in nodes : LearnDecide(h)
  \/ SetViewInActive
  \/ \E h \in nodes : ViewChanged(h)
  \/ \E k \in DOMAIN Lists : UpdateSelf(k)
  \/ \E a \in Follower, k \in DOMAIN Lists, h \in DOMAIN node : UpdateFollower(a, k, h)

Spec == Init /\ [][Next]_vars

\* Self's ledger is ahead of all that the follower has.
Behind(a) == \A h \in DOMAIN tree[a] : node[h].sequence < node[proof].sequence

\* The timer runs; a responsive follower that is behind asks for Self's proof again
\* and again; and of the messages to and from it that are sent again and again one
\* arrives. The other messages may all be lost.
FairSpec ==
  /\ Spec
  /\ WF_vars(\E h \in DOMAIN inst : Tick(h))
  /\ WF_vars(OnTimeout)
  /\ \A a \in Responsive :
       /\ WF_vars(Behind(a) /\ UpdateFollower(a, given[a], proof))
       /\ SF_vars(\E x \in msgs : RecvPropose(a, x))
       /\ SF_vars(\E x \in msgs : ReplicaAddress(x.m) = a /\ RecvVote(x))

-----------------------------------------------------------------------------
(* Properties                                                              *)

\* No more votes are counted for a value than its certificate has signatures,
\* also when the application changes the ids of the validators in between and
\* a follower votes again under its new id (XbftConsensus.cpp:401, XbftNode.cpp:167).
VotesWithinSignatures ==
  \A h \in DOMAIN inst : Cardinality(inst[h].voted) <= Cardinality(inst[h].signers)

\* Unless Self's validators have changed since, every follower that has the node
\* with the same validators accepts its DECIDE: the sender, the signatures and
\* their number (XbftMsg.cpp:170, XbftNode.cpp:209).
CertificateAccepted ==
  \A d \in decides :
    LET h == Content(d).node
    IN  \/ inst[h].changed
        \/ (CheckMsgItem(inst[h].members, d) /\ CheckQc(inst[h].members, d.xbft.qc))

\* The ids every engine works with are those of the list it was handed last: the
\* Compare that saves the update (XbftConsensus.cpp:86) misses no change.
EngineIdsCurrent == \A a \in Address : members[a] = Set(Lists[given[a]])

\* What onPropose asks of the follower a to vote for h holds, or will when a has
\* asked for Self's proof: h is not below what a has seen, its certificate is of a
\* node of a and accepted, and the lock allows it.
WouldVote(a, h) ==
  /\ node[h].sequence >= lastSequence[a]
  /\ \/ KnowsQcNode(a, h) /\ LockAllows(a, h)
     \/ Behind(a) /\ proof = node[h].parent /\ CheckQc(members[a], Qc(proof, node[h].signers))

\* A value of Self waits for votes while nothing stands in its way: Self leads
\* its view, its node is the highest, and the responsive followers, who have the
\* same validators and would vote, make a quorum with Self.
Pending ==
  LET h == GetHighestLeafHash
  IN  /\ h \in DOMAIN inst
      /\ ~ inst[h].ended /\ ~ inst[h].changed
      /\ node[h].view = view /\ active /\ IsLeader
      /\ Responsive \subseteq DOMAIN Mine
      /\ \A a \in Responsive : members[a] = Mine /\ WouldVote(a, h)
      /\ QuorumSize(Mine) \in 2 .. Cardinality(Responsive) + 1

\* A value that the responsive followers would vote for does not wait for ever,
\* whatever PROPOSEs and VOTEs are lost, of it and of the nodes before: the timer
\* sends the PROPOSE again, the followers vote again, and one that lacks the node
\* before takes it from Self's proof.
ProposalCertified == Pending ~> ~ Pending
=============================================================================
