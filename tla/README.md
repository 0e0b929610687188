# Xbft: a verification development

TLA+ modules for the Xbft consensus engine (`lib/engine`) and for the parts of the sample application
(`test/sample`) that decide when the engine proposes, rotates views and synchronises, and in which threads. TLC checks
the modules on small instances; TLAPS proves every safety property of the pacemaker, of the consensus, of the proposer
and of the sample's threads that these runs check, and that the engine implements its two components, for every number
of replicas, validators or threads and every bound. Paths below are relative to the repository, `XC` is
`lib/engine/XbftConsensus.cpp`, `XL` is `lib/engine/XbftLiveness.cpp`, `BC` is `test/sample/dealing/BlockChain.cpp`.

## 1. The system

| part | state | operations | where |
|---|---|---|---|
| validator set | a map from addresses to ids | `Set`, `Compare`, the queries, quorum `N - N/3`, leader `view % N` | `XbftValidatorSet.cpp` |
| consensus | view number, view-active flag, last sequence, node tree, lock, executed node, highest certificate, last proof | `Propose`, `onPropose`, `onVote`, `onDecide`, `update`, `ViewChanged`, `SetViewInActive`, `UpdateProof` | `XC` |
| proposing | votes and signatures of each instance, the times it was sent and ended | `initSelfQc`, `SendPropseAgain`, `Add`, `AddVote`, `UpdateValidatorsAndProof` | `XC`, `XbftNode.cpp`, `XbftQc.cpp` |
| node tree, nodes, certificates | hash -> node object; list of leaves; votes, qcRef, preCommit, decision of each object | `AppendNode`, `GetNode`, `GetParentNode`, `GetHighestLeafHash`, `CheckQc`, `AddVote` | `XbftNodeTree.cpp`, `XbftNode.cpp`, `XbftQc.cpp` |
| pacemaker | an instance per view asked for, last timeout certificate | `Rotate`, `OnRecv`/`onNewView`, `onTimeout` | `XL`, `XbftNvInstance.cpp`, `XbftTc.cpp` |
| engine facade | the two objects above | forwards calls, dispatches messages | `XbftEngine.cpp`, `Xbft.cpp` |
| sample ledger | `m_seq`, `m_lastProof`, `m_lastConsSeq` | `startConsensus`, `onTimeout`, `Store` (of a committed value, of a response) | `BC` |
| synchronisation | none | request, response with the latest proof | `Sync.cpp` |
| messages | - | signing; extraction of view, sequence, sender; format and signature checks | `XbftMsg.cpp`, `XC` |
| sample network | two threads, three bounded queues | UDP `sendto`, `recvfrom`; `Push`, `TryPop` | `Network.cpp`, `EventQueue.h` |
| timers | a flag, threads | `SetTimeOut`, `Stop` | `include/utils/Timer.h` |
| process | - | start, exit flag, joins, destruction | `main.cpp`, `ExitHandler.h`, `NodeInfo.cpp` |
| keys, configuration, logging, strings | - | utilities | `include/utils`, `lib/utils`, `test/sample/common` |

**How they interact.** The application's timer thread calls `startConsensus` (which calls `Propose`) and, after five
block intervals without a value, `Rotate`. A receiving thread hands PROPOSE, VOTE and DECIDE to the consensus and
NEWVIEW to the pacemaker. The pacemaker's own timer thread sends NEWVIEWs and the leader's last PROPOSE again. A fourth
thread handles synchronisation, whose responses call `UpdateProof`. There is no lock between the four: they share the
view number, the view-active flag, the highest certificate and the node tree. The consensus calls back into the ledger
(`m_valueCommited`, as soon as a node is certified; `m_viewChange`). Whatever these threads send goes through one bounded
queue to a sending thread, and what is received through two others. A signal sets a flag; main then joins the workers,
stops the timers and frees the objects.

**What is hard here.** Chained phases: one certificate delivers a value, locks its predecessor and executes the one
before. Lost or late DECIDEs leave replicas at different points of the chain when the view changes. A PROPOSE received
twice makes a second object for one node. Threads interleave between reads of shared state. Synchronisation moves the
lock and the view from outside the protocol. Votes are signed under ids that the application may exchange. A process
that stops has lost everything. Threads that end while others still wait for them. `PROJECT.json` lists these hazards at their lines.

**What makes each part correct.** Validator set: any two quorums share a replica that is not faulty. Pacemaker: views
only advance, a view is entered only if a quorum asked for it, what a quorum had certified is not lost, an agreed view is
reached by all. Consensus: certificates are backed by votes; sequences never fall from view to view; locks and executed
nodes never go back; values are delivered in chain order and executed on a three-chain. Ledger and synchronisation:
every ledger catches up, also one that lost everything. Proposing:
certificates that the others accept, and a value that is certified in the end if its leader stays and its followers would vote for it. Queues, timers and
process: no lost wakeup, no use after destruction, an end after a signal. Engine: the two components are each other's environment, as each assumes; finality.

## 2. Modules

| module | what it is |
|---|---|
| `XbftValidatorSet` | the constant `N`, quorum, leader; `XbftValidatorSet_proofs` proves quorum arithmetic and intersection |
| `XbftPaceMaker` | the pacemaker with the flags of the consensus it drives; `XbftPaceMaker_proofs` its proofs; `MCPaceMaker` its instances |
| `XbftConsensus` | consensus, node tree, sample ledger and synchronisation; `XbftConsensus_proofs` (certificates and votes), `XbftConsensusChain_proofs` (chain, delivery, locks) and `XbftConsensusLeaders_proofs` (leaders, agreement) its proofs, each on top of the one before; `MCConsensus` its instances |
| `XbftRestart` | `XbftConsensus` with replicas that stop and start again; `MCRestart` its instance |
| `XbftSystem` | consensus and pacemaker composed as `XbftEngine` composes them; `XbftSystem_proofs` its proofs; `MCSystem` its instance, `MCSystemConflict` one schedule of it |
| `XbftMembers` | a validator set as data: addresses, ids, `Set`, `Compare` |
| `XbftMsg` | signed messages and the checks on them (extends `XbftMembers`) |
| `XbftNodeTree` | the node tree with its list of leaves |
| `XbftProposer` | one engine as a proposer, with its followers' votes (extends the three above); `XbftProposer_proofs` its proofs and those of the node tree; `MCProposer` its instance |
| `XbftEventQueue`, `XbftTimer` | the bounded queues and the timers |
| `XbftSample` | the threads of the sample, which meet in those queues and timers; `XbftSample_proofs` the proofs of all three; `MCSample` its instance |

**XbftPaceMaker.** `view` and `active` are `m_viewNumber` and `m_isViewActive`; `nvMap` is `m_nvMap`, with `Absent` for
no instance; `lastTc` is `mp_lastTc`; `highQc` is what `GetHighQc` returns; `newViews` are all NEWVIEWs sent.
`RotateBegin` and `RotateSend` are `Rotate` before and after it reads the view number, because the receiving thread runs
in between. `OnNewView` is `onNewView` with every early return: a certificate that does not verify, a view not above
the current one, a sender already counted. `OnTimeout` is the erasure of old instances and the resending of any of the
replica's own NEWVIEWs: `due` stands for those whose interval has passed. A signature is its signer, and a timeout
certificate the set of its signers; `IsValid` counts those of the set. The consensus and the synchronisation are the
environment (`UpdateHighQc`, `SyncProof`), as permissive as the code: section 4 shows the engine stays within it.

**XbftConsensus.** A node's hash is a number, given in the order nodes are made, and `node` says what each hash stands
for. A replica knows a node as a C++ object; an object is `<<hash, generation>>`, `tree` says which generation
`m_nodes` holds, and `lock`, `exec` and `qcRef` are pointers to objects, which may be older than what the tree holds.
`Object.votes` is whom `mp_selfQc` has signatures of (empty: null pointer). `update` is split as its comments do it:
`PreCommit` (deliver the value, line 583), `Lock` (600), `Execute` (604-616), `Commit` (the walk down to `mp_exec`,
618-638); a walk that leaves the tree sets `crashed`, for the code then dereferences a null pointer. `StartConsensus`
and `Propose` are two actions, because `startConsensus` reads the sequence first and the proof later. `OnPropose`,
`OnVote`, `OnDecide` are the handlers whole, `OnRecv`'s checks included. A PROPOSE is named by its node, a DECIDE by
its certificate; both come from the leader of the node's view, and the receiver compares ids only (`FromLeader`), so
that a message of a view `N` later passes, as in the code. `ViewChanged` is called by an abstract pacemaker with any
later view and any certificate there is. `Sync` is a response that is ahead of the ledger, with `UpdateProof`.
The bookkeeping variables `decides`, `proofs` and `votes` are the network; `synced` is a history variable.

**XbftSystem.** It extends `XbftConsensus` and instantiates `XbftPaceMaker` as `Pace`, over the same view, flag and
highest certificate. A step of the pacemaker that completes a view change is joined with the consensus's `AdoptQc` of the
certificate `GetHighQc` selects; a consensus step leaves the pacemaker's own state alone. `AbstractPace` is the
pacemaker's specification over certificates that are only sequences, as in its own runs; the refinement mapping reduces the
certificates of `rep`, `nvMap` and `newViews` to these.

**XbftRestart.** `Restart` gives a replica the state of the constructors of `NodeInfo` and `BlockChain` at any point,
also after the crash at a null pointer. What it sent before stays in the network.

**XbftMembers, XbftMsg, XbftNodeTree, XbftProposer.** `XbftConsensus` follows every replica through the chain;
`XbftProposer` follows one engine, `Self`, through the collection of votes, in the detail the former leaves out: votes
are signed twice (`newVote`), a certificate holds signatures by key while `m_voted` holds ids, each node keeps the
validators it was made with, the pacemaker's timer sends the highest leaf again, and any list of validators may be
given to any engine at any time. A message is taken out of `msgs` by `Lose`, and by who counts it. Each follower has what
`onPropose` looks at before it votes: the objects in its tree with their `m_validators` and `mp_qcRef` (`tree`), `mp_lock`
(`lock`), `m_lastSequence`. `HandlePropose` is `onPropose` from line 458 on: the refusals of a node whose certificate is of a
node the follower lacks (459-469), of a certificate that does not pass `CheckQc` (471-474) and of a node that the tree does not
take (478-481), then `update`'s effect on the lock, and the two conditions for the vote (`MayVote`, `LockAllows`).
`RecvPropose` is that of `Self`'s PROPOSE with the vote, `RecvOthersPropose` that of any other leader's; followers meet
certificates (`RecvCertificate`), take proofs (`UpdateFollower`) and propose (`OthersPropose`) too. Of the followers the view
is not kept: who is not in `Self`'s view takes nothing of `Self`, as if the message were lost, and in between takes what it
likes of the others. What other leaders send to `Self` is abstract (`LearnNode`, `LearnDecide`).
In `XbftNodeTree`, `leafNodes` is a sequence
with the duplicates that the code makes.

**XbftEventQueue, XbftTimer, XbftSample.** A queue is its size and who sleeps on `m_notifyPut` or was woken; each
action holds the mutex from its first line to its last or to the wait. A timer is its flag, its threads and where each
of them is. `XbftSample` has a program counter for main and for each of four workers; `pushing` says in which queue's
`Push` a thread is. What the messages say does not matter here: a worker's handler pushes one message or none, a timer's
callback any number.

## 3. Assumptions

* Replicas follow the code (no Byzantine behaviour). `XbftConsensus` and `XbftPaceMaker` take signatures as valid, since
  `CheckMsgItem` then never refuses; `XbftProposer` has the checks, because engines with different ids do refuse. What
  breaks under these assumptions breaks with faulty replicas too.
* The validator set is fixed in all modules but `XbftProposer`. The instances with three replicas run the same code as larger ones (quorum 2; the engine
  accepts such a set, `XC:89` only warns). The sample's loader asks for four, and the runs with `N = 4` use it.
* The network is what UDP gives the sample: a message, once sent, may arrive never, late, out of order and repeatedly.
* A handler is atomic except where the text above splits it. The unsynchronised overlaps inside a handler (for one,
  two threads inside `m_nvMap`) are undefined behaviour in C++ and are listed as hazards, not modelled.
* Clocks are abstract: a timer may fire at any time. `RotateBegin` leaves out `m_lastConsensusTime != 0` (`BC:266`): the model
  also lets a replica rotate that has neither stored a value nor begun a proposal, so it has more behaviours than the sample.
  The violations do not depend on it: a common value stored before them satisfies the guard.
* `Propose` of `XbftConsensus` reads the ledger's proof and proposes in one step. Not modelled is a proposal between the two
  assignments of `Store` (`BC:183` and `BC:185`), with the new `m_seq` and the proof before; the engine's `AppendNode`
  would refuse its node, which is not one above its parent.
* The keys (`Sign`, `Verify`, `PublicKeyToAddr` in `XbftMsg`) are the sample's of `test/sample/common/Ed25519.cpp`, with
  signatures that only the key makes, and one key for an address.

## 4. Runs

| run | instance | question |
|---|---|---|
| `pacemaker` | N 3, views 0-2, 4 NEWVIEWs, instances erased at once | types; `EveryViewBacked`, `TcSound`, `ViewsOnlyAdvance`, `AgreedViewReached` |
| `pacemaker_highqc` | N 3, views 0-1, 5 NEWVIEWs, certificates of sequence 0 or 1 | `HighQcSurvives` |
| `consensus_views` | N 3, views 0-2, 3 nodes | types; `Agreement`, `OneBranchPerView`, `OneCertificatePerSequence`, `SequencesGrowWithViews`, `DeliveryFollowsChain`, `ExecutedOnThreeChain` |
| `consensus_sync` | N 3, views 0-1, 3 nodes, 1 synchronised node per replica | `CertificatesBacked`, `ChainGrows`, `ExecBehindLock`, `WalkStaysInTree`, `LocksAdvance` |
| `consensus_restart` | N 3, one view, 2 nodes, 2 restarts, 2 synchronised nodes per replica | `DeliveryFollowsChain`, `RestartedCatchUp` |
| `proposer` | 4 validators, 2 nodes, 1 own value; views 0-1 and a fixed list, or one view and two validators that exchange ids | types; `VotesWithinSignatures`, `CertificateAccepted`, `EngineIdsCurrent`, `HighestLeafIsHighest`, `ProposalCertified` |
| `sample` | all threads, a send queue of 2, receive queues of 1 | types; `NoLostWakeup`, `StopLeavesNothing`, `EngineOutlivesUsers`, `ShutdownCompletes` |
| `system` | N 3, views 0-1, 2 NEWVIEWs, 1 node, 1 synchronised node | `RefinesPaceMaker`, `RefinesConsensus` |
| `pacemaker_inactive` | as `pacemaker` | violated: `ViewChangeKeepsInactive` |
| `consensus_ahead` | N 4, views 0-4, 1 node | violated: `VotesInOwnView` |
| `consensus_twice` | N 4, one view, 2 nodes, 1 PROPOSE handled twice | violated: `PreCommittedOnce` |
| `system_conflict` | N 4, views 0-3, 6 nodes, one schedule | violated: `Finality` |

**Bounds.** A quorum of NEWVIEWs of three replicas is two messages, enough for the one view change of `system`;
what a late replica's NEWVIEW or a resend with a newer certificate does is left to the pacemaker's runs: two quorums are
four, and the fifth of `pacemaker_highqc` is such a resend or a third replica's. With two view changes a replica can be a view behind, follow another's certificate, and have an
erased instance rebuilt. `NewviewMessageOffset` is 5 in the code; the run uses 0 so that erasure happens within three
views. In the consensus three nodes are the shortest three-chain; with three views each can be of a branch of its own.
`consensus_restart` has two, with the genesis node a chain in which a replica can miss the first and take the second;
two restarts can hit one replica twice or a leader and a follower. In `proposer` four validators have a quorum of three,
so that a vote is always outstanding when one was counted. The engines start with one of two lists. With the one, `Self` leads
the only view, and a new list, which the fourth validator never hears of, exchanges the ids of the two responsive followers.
With the other it leads view 1, the list stays, and the fourth validator, which proposes in view 0, takes no message (`Hearing`); so the tree has
another leader's node and, of the same sequence or the next, its own; a follower may have missed the other's node and must
then refuse `Self`'s until it has synchronised, or have synchronised beyond it and be locked. `Certifiers` are the
signers of certificates that `Self` did not make: one set is enough, as a fixed list accepts all quorums alike. In `sample` one queue
has several producers (`m_sendMsgQueue`, four of them), and has room for two so that full, half full and empty differ; the
sizes of the code only delay.
The consensus and system runs end where their bounds do, and say so with `CHECK_DEADLOCK FALSE`; the pacemaker's can
always resend and need not. `MaxView`, `MaxNewViews`, `MaxNodes`, `MaxAgain`, `MaxSyncs`, `MaxRestarts`, `MaxLeaves`, `MaxProposals`, `Replaces` and `Hearing` are bounds in guards; the
proofs do not depend on their values.

**Fairness.** `AgreedViewReached` assumes that each replica goes on handling NEWVIEWs it was sent (weak fairness of
`RecvNewView`, as it changes the view or an instance), nothing of timers: a NEWVIEW is resent at an interval until a minute after the sender's view change
(`XbftNvInstance.cpp:62`), so one copy is taken to arrive. `RestartedCatchUp` assumes that each replica goes on handling
responses carrying a latest proof of a live replica: the application asks every two block intervals (`BC:257`). No fairness is assumed
there of PROPOSE, VOTE or DECIDE, the last two of which are sent once. `ProposalCertified` assumes that the timer fires,
that of the PROPOSEs and VOTEs sent again and again between `Self` and the `Responsive` followers one arrives (strong
fairness of their reception), and that a responsive follower that is behind all of `Self`'s ledger asks for its proof (weak
fairness of that `UpdateFollower`; `BC:257`, `BC:193`). The resends that make this so are actions of the model, and with `>`
for `>=` in `onPropose` (`XC:487`) the property fails. Whatever else would refuse the value is in its premise (`WouldVote`): a responsive
follower has seen no higher sequence, and either has the node before, whose validators accept the certificate, and is not
locked beyond it, or is behind and will get that node by synchronisation. The other followers' messages may all be lost. `ShutdownCompletes` assumes that every thread
runs and that a callback returns if it is again and again able to (it sends finitely many messages); spurious wakeups
and the signal itself are not assumed.

**What the violations, and larger instances, show.**

* `Finality`: replicas that all follow the code execute different values of one sequence. `onPropose` (`XC:488`) and
  the lock (`XC:600`) compare sequences where `docs/Hotstuff共识算法.md:57` and `:69` compare views, and a view
  change adopts the certificate of the highest sequence. The schedule of `MCSystemConflict` has 4 replicas, 3 lost DECIDEs and
  3 view changes, and each of its steps is a step of `XbftSystem`: TLC would refuse to continue a schedule with a step that is
  not. `README.md:3` promises safety and finality.
  Comparing views at these two lines alone would not repair it: the three-chain does not ask for consecutive views, and
  the highest certificate that a NEWVIEW reports moves in `onVote` and by synchronisation only, not in `update`.
* `Agreement` is about the time before the first view change. After one the code hands over values of two branches: 0
  certifies A2 in view 0 and its DECIDE is lost; view 1 is entered by NEWVIEWs without its certificate; 1 proposes
  B2 on the same parent, gets the votes of those who voted for A2 (`>=` at `XC:487`) and certifies it. Both deliver what they
  certified, before any three-chain (`XC:584`). What remains is `OneBranchPerView`: the values of one view are of one branch.
* `VotesInOwnView`: messages of later views are let in and only the leader's id is compared, so a replica in view 0
  votes for a proposal of view `N` (`docs/Hotstuff共识算法.md:55` asks for the current view), and for one of a view in
  between later. `SequencesGrowWithViews` is therefore stated for views below `N`: with views 0-3 of three replicas
  TLC finds a certificate of view 1 with a sequence above one of view 3.
* `OneCertificatePerSequence` holds, but only while the leader does not synchronise. With five nodes a leader that
  proposes sequence 2, takes a proof of another node of sequence 2, goes on to 3 and 4, then gets the late quorum for
  its own 2, falls back, and takes the proof of 3 from a follower, proposes 4 a second time; both get certificates.
* `PreCommittedOnce`: a PROPOSE handled twice delivers its value twice, and takes the ledger back to its sequence.
* `ViewChangeKeepsInactive`: the flag that says a view change is in progress is cleared by a certificate or proof of
  the view in between, so a replica votes in a view it asked to leave.
* Restarts: a leader that starts again proposes sequence 2 of view 0 a second time, and `>=` at `XC:487` lets the others
  vote for it, as they must for a resend. Checked under `RestartSpec`, `Agreement` is then violated. No document says
  what a replica that lost everything may do, so this is no run; the sample would have to persist its vote.
* Shutdown: `ShutdownCompletes` excepts `Stranded`, a thread in the `Push` of a full queue whose consumer has ended. Without
  the exception TLC finds the deadlock: the signal comes, the sending thread ends, the pacemaker's timer is in
  `SendMsg`, and `XbftEngine::~XbftEngine` joins it for ever. With the code's queue sizes it takes a full queue.
* Resends: the comment at `XL:195` speaks of each instance, but only the first of the highest leaves is looked at. A value
  behind an equally high leaf of another leader is not sent again, which `Pending` therefore excludes. And a follower that never got the node before refuses every
  resend (`XC:465`) until synchronisation brings that node; when its own tree is already at that height, by another
  branch, synchronisation does not take it (`XC:138`), and it votes for nothing of this leader.
* `UpdateValidatorsAndProof` with an empty proof makes a new genesis node and resets lock and executed node to it
  (`XC:111`); the sample does not do this. When the validator set shrinks between two votes, `==` at `XC:416` may be jumped
  over. `CertificateAccepted` says what holds: it excuses a certificate whose maker's validators changed in between.

## 5. Proofs

Checked by `tlapm` for every `N > 0` (or every set of addresses, threads and queues), every value of the bounds and
every set of certificates:

* `XbftValidatorSet_proofs`: `QuorumSizeBounds`, `QuorumIntersection` (two quorums share more than `(N - 1) / 3`
  replicas) and `QuorumsMeet`.
* `XbftPaceMaker_proofs`: `TypeCorrect`, `ViewsBacked`, `TcsSound`, `ViewsAdvance`, `HighQcKept`. `EveryViewBacked`
  is not inductive: a replica may enter a view because an instance holds a quorum, because a NEWVIEW carried a
  certificate, or because it is asked for next. The inductive invariant `IInv` therefore says in addition that every entry of an
  instance is a NEWVIEW that was sent, that every NEWVIEW asks for at most one view more than a backed one, and that
  a certificate's signers asked for its view. `Invariance` is the induction, one step for each action; the conditions of
  `onNewView` common to three actions are lemmas. `HighQcKept` rests on `QuorumIntersection` and on a lemma that
  `GetHighQc` returns a highest entry, by a minimum over a finite set of sequences.

* `XbftConsensus_proofs`: `TypeCorrect`, `CertificatesHeld`, `SequencesGrow`. `CertificatesBacked` needs that the votes an
  object counts were cast (`CountedVotesCast`: a new object of a PROPOSE received again counts none, a leader's own counts
  its own), that votes and trees name nodes that were made, and that a proposal, a NEWVIEW or a ledger can only hold a
  certificate that was already there. `UpdateUpdates` says what `update` may change, whatever the walk down the
  tree gives; each action's lemma rests on it. For `SequencesGrow`, `VotesInOrder` adds that a replica has seen the
  sequence of all it voted for, and that below view `N` it votes in views that do not go back; with `>=` in `onPropose`
  (`XC:487`) and in `Propose` (`XC:225`) its votes then do not fall from view to view, and by `QuorumsMeet` neither do
  certificates.
* `XbftConsensusChain_proofs`: `CertificatesChain`, `DeliveryInOrder`, `ThreeChainExecuted`, `LocksOrdered`,
  `WalkDoesNotCrash` and the action property `LocksNeverFall`, all from one invariant, `ChainInv`, because none of them is
  inductive without the others. `update`'s walk along the parents (`Trail`) is a recursive function on pointers: that a
  function with its equation exists (`TrailExists`) follows by the least number of nodes for which it would not, for
  parents are made before their children; `TrailStays` then bounds what a walk meets by a set that the step does not leave.
  The parts of `ChainInv`: a voted-for or certified node carries its parent's certificate and the next sequence
  (`VotesLinked`, `CertsLinked`), which needs `BuildingNext` for `startConsensus`'s two reads; what a replica's objects point
  at is in its tree (`ObjectsLinked`, `LocksHeld`); the parent of what the tree holds was handed over, synchronised, or is
  about to be (`ParentsHanded`), so the walk from a certified node meets only nodes that were; nothing in the tree is more
  than one above the highest sequence seen (`SequencesSeen`), so a lock can only move up; a decided node was handed over
  (`DecidedHanded`); the ledger's proof is of a node handed over (`LedgerHanded`), as is every other's of a certified one
  (`HandedCertified`); and without a synchronised proof the tree is closed under parents (`TreeClosed`), so no walk
  leaves it. `OnPropose` updates between the node's entry in the tree and the vote; the set `X` of `RepGood` exempts the new
  object meanwhile.
* `XbftConsensusLeaders_proofs`: `OneCertificate`, `BranchOfView` and `BranchesAgree`. `LeadersInv` says of a leader that has not synchronised
  that each node it made in its view is either waiting (it is the one of the sequence after its ledger's, nothing is being
  built, and `m_lastConsSeq` is its sequence) or past (certified, and the ledger is at or beyond it, with a proof of the same
  view); so it never proposes a sequence again (`OneProposal`), makes every node but the first of a view on top of one of that
  view (`ViewLinked`), and a node's certificate has exactly the votes that its object holds. What was handed over is
  certified, certified nodes have certified parents of the sequence before, and of a view there is one node of each sequence:
  they lie on one branch, by the least distance at which one would not (`ClosedBranch`, `ViewBranch`). For `Agreement`,
  `FirstView` adds that before the first view change all nodes are of view 0 and its leader has not taken a
  proof: any proof there is, is of a node it made, which is past, and so not ahead of its ledger.
* `XbftProposer_proofs`, the node tree: `HighestLeaf` and `AppendKeepsTree`. The invariant `TreeInv` says that a node of the tree is in the
  list of leaves unless a child of it is in the tree, of the next sequence: a highest node is therefore in the list, however
  often nodes come again. The induction is over what `RemoveFirst` leaves of a sequence.
* `XbftProposer_proofs`, the proposer: `TypeCorrect`, `VotesSigned`, `DecidesAccepted`, `IdsCurrent`, `HighestLeafFound`, `CompareExact`,
  `OneLeader`. The inductive invariant `IInv` has a part for `Self`'s tree (`TreeInv`, whose bound is the number of nodes), one for the
  followers' trees and locks (their objects are of nodes that were made, and one that carries a certificate is not the first
  node's, so that `LockAfter`, which locks its parent, stays among the nodes), one for what is sent, one for
  the members (each engine's are `Set` of the list it was given, which is what makes `CompareExact` necessary), one for the
  instances (a value counts at most as many votes as it has signatures, and the signers are validators of its node until
  `Self`'s validators change), and one for the certificates sent. When the quorum is reached, the votes are exactly a quorum of
  the node's validators, so by that inequality the signatures are at least one, which is what `CheckQc` asks for.
* `XbftSample_proofs`, queues and timers: `NoWakeupLost`, which needs in addition only that whoever is woken is not asleep, and the
  cardinalities of the two sets; `NothingLeft`, `DestructorJoins` of the timers.
* `XbftSample_proofs`, the sample: `TypeCorrect`, `WakeupsKept`, `NobodyInside` and `PartsImplemented`. Each step of a thread of the
  sample is a step of `XbftEventQueue` or leaves the queues alone, and the same with `XbftTimer`, so the sample implements both
  (`QueueStep`, `TimerStep`) and keeps their invariants. `EngineOutlivesUsers` needs besides what main's place in `main.cpp`
  says of the others: whom it has not started has not begun, whom it has joined has ended, what it has stopped has no
  threads (`NotBegun`, `JoinedEnded`, `StoppedEmpty`), and a thread pushes only from inside a handler or a callback
  (`PushesInside`).
* `XbftSystem_proofs`: `EngineIsConsensus`, `EngineIsPaceMaker` and `EngineKeeps`. `SystemInv` joins the invariants of the
  two components with what each has to know of the other. That a certificate the pacemaker hands to `ViewChanged` is one
  the consensus may adopt needs `HighsAdoptable`: a replica not at a null pointer has sent its highest certificate or had it
  from a proof, so every NEWVIEW carries such a one, and `GetHighQc` returns that of an entry or none. That a consensus step
  is one of the pacemaker's environment needs that the highest certificate only gives way to one of a higher sequence
  (`HighMoves`, by `HighQcSeen`: its sequence is one the replica has seen), and that a proof is of a view some replica has
  reached (`NodesReached`, `ProofsRecorded`). `StepIsConsensus` and `StepIsPace` are the two refinements step by step;
  `AbstractStep` goes from certificates to sequences: `onNewView` looks at nothing else, and messages that become equal only
  make fewer (`AbstractBroadcast`). `LinkedBounded` bounds those sequences by the nodes made. `EngineKeeps` then carries
  `Agreement`, `CertificatesBacked`, `ChainGrows`, `DeliveryFollowsChain`, `ExecutedOnThreeChain`, `EveryViewBacked`,
  `TcSound` and `HighQcSurvives` over to the engine.

Only model-checked: `ProposalCertified`, `ShutdownCompletes`, `RestartedCatchUp`, `AgreedViewReached` (liveness under
fairness, which TLAPS does not prove); `DeliveryFollowsChain` with restarts (the theorem `DeliveryInOrder` is about
`XbftConsensus` without them); and the four violations, which are counterexamples.
The runs check `CertificatesBacked` without PROPOSEs received again; the theorem `CertificatesHeld` covers them.

## 6. Not modelled

Byzantine replicas, which the code's tests do not have either. Of `XbftMsg.cpp`: the text a NEWVIEW signs and missing protobuf
fields. A synchronisation response torn between `m_seq` and `m_lastProof` (`BC:148`), and the two threads inside `m_nvMap`
(`XL:125`) or in the maps that `Network::Initialize` fills after it has started its threads (`Network.cpp:60`): undefined
behaviour without definite outcomes. `XbftNodeTree::ReleaseFrom`, `XbftValidatorSet::Insert` and `Update`, and the queue's
`Pop` and `Clear` have no caller in `lib` or the sample. A set of one validator never certifies anything (`XC:416` is
reached from a VOTE only), and is outside what `README.md:3` supports. Keys, hashes, configuration, logging and strings have no state
that the protocol depends on; signatures and hashes are taken as ideal.

## 7. Plan

Done: the pacemaker, the consensus with its ledger and synchronisation, their composition, restarts, the proposer with
signed messages and changing validators, the node tree's leaves, the queues, timers and threads of the sample.

1. Abstract specification: a chain of certificates with one certificate per view and sequence, whose sequences grow with
   views, implemented by `XbftConsensus` by way of `decides` alone.
2. Prove: `DeliveryFollowsChain` with restarts.
3. Model: `NeedSendAgain` with time; the stall of a new leader whose highest leaf has the sequence it wants to propose
   (`XC:243`), as a liveness question of `XbftSystem`.
