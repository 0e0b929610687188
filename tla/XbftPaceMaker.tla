--------------------------- MODULE XbftPaceMaker ---------------------------
(***************************************************************************)
(* The round-robin pacemaker, src/lib/engine/XbftLiveness.cpp, with its    *)
(* NEWVIEW instances (XbftNvInstance.cpp), timeout certificates            *)
(* (XbftTc.cpp) and the part of the consensus object it drives: the view   *)
(* number and the view-active flag.                                        *)
(*                                                                         *)
(* A replica has three threads that touch this state without a lock: the   *)
(* application timer calls Rotate, the receiving thread calls OnRecv, the  *)
(* pacemaker timer calls onTimeout; a fourth one synchronises proofs.      *)
(* Rotate is therefore two steps. The messages sent are never removed: one *)
(* may be received never, late, out of order and any number of times.      *)
(***************************************************************************)
EXTENDS XbftValidatorSet

CONSTANTS
  MaxView,               \* BOUND: no rotation leaves a view beyond this one
  MaxNewViews,           \* BOUND: how many different NEWVIEWs are ever sent
  NewviewMessageOffset,  \* g_newviewMessageOffset: views an instance outlives
  HighQc,                \* the certificates a NEWVIEW may carry as high_qc
  NoQc                   \* no certificate: the empty proto, sequence 0

ASSUME PaceMakerAssumption ==
  /\ MaxView \in Nat
  /\ MaxNewViews \in Nat
  /\ NewviewMessageOffset \in Nat
  /\ NoQc \in HighQc
  /\ \A q \in HighQc : q.sequence \in Nat
  /\ NoQc.sequence = 0

VARIABLES
  view,       \* m_viewNumber of each replica's consensus object
  active,     \* m_isViewActive
  rotating,   \* the application's timer thread is inside Rotate
  nvMap,      \* m_nvMap: an instance per view, Absent or collecting NEWVIEWs
  lastTc,     \* mp_lastTc
  highQc,     \* GetHighQc() of the consensus object, which owns it
  newViews    \* every NEWVIEW broadcast so far

vars == <<view, active, rotating, nvMap, lastTc, highQc, newViews>>

View == 0 .. (MaxView + 1)

NoTc == [view |-> 0, signers |-> {}]
Tc == [view : View, signers : SUBSET Replica]

\* What an instance keeps of a NEWVIEW: its sender and its high_qc.
NvEntry == [from : Replica, high : HighQc]

\* sent: m_lastSendTime # 0, this replica asked for the view itself;
\* complete: m_endTime # 0.
NvInstance == [newViewProto : SUBSET NvEntry, sent : BOOLEAN, complete : BOOLEAN]
Absent == [newViewProto |-> {}, sent |-> FALSE, complete |-> FALSE]

NewViewMsg == [from : Replica, view : View, lastTc : Tc, high : HighQc]

TypeOK ==
  /\ view \in [Replica -> View]
  /\ active \in [Replica -> BOOLEAN]
  /\ rotating \in [Replica -> BOOLEAN]
  /\ nvMap \in [Replica -> [View -> NvInstance]]
  /\ lastTc \in [Replica -> Tc]
  /\ highQc \in [Replica -> HighQc]
  /\ newViews \subseteq NewViewMsg

Init ==
  /\ view = [r \in Replica |-> 0]
  /\ active = [r \in Replica |-> TRUE]
  /\ rotating = [r \in Replica |-> FALSE]
  /\ nvMap = [r \in Replica |-> [v \in View |-> Absent]]
  /\ lastTc = [r \in Replica |-> NoTc]
  /\ highQc = [r \in Replica |-> NoQc]
  /\ newViews = {}

-----------------------------------------------------------------------------
(* NEWVIEW instances and timeout certificates                              *)

Voters(entries) == {e.from : e \in entries}

\* Mutant: the certificate of the first NEWVIEW in the map.
GetHighQcFirst(entries) ==
  LET first == CHOOSE e \in entries : \A f \in entries : e.from <= f.from
  IN  first.high

\* The certificate with the highest sequence, of equal ones the one that the
\* map holds first (it is ordered by replica), and none when all are empty.
GetHighQc(entries) ==
  LET better(e, f) == \/ e.high.sequence > f.high.sequence
                      \/ /\ e.high.sequence = f.high.sequence
                         /\ e.from <= f.from
      best == CHOOSE e \in entries : \A f \in entries : better(e, f)
  IN  IF best.high.sequence > 0 THEN best.high ELSE NoQc

\* Mutants: the certificate is of the view after, and counts only the NEWVIEWs
\* with a high_qc.
GetTcOfNextView(v, entries) == [view |-> v + 1, signers |-> Voters(entries)]
GetTcWithHighQc(v, entries) ==
  [view |-> v, signers |-> {e.from : e \in {f \in entries : f.high # NoQc}}]

GetTc(v, entries) == [view |-> v, signers |-> Voters(entries)]

IsValid(tc) == IsQuorum(tc.signers \cap Replica)

\* BOUND: the NEWVIEWs ms, sent again or new, stay within MaxNewViews.
MayBroadcast(ms) == Cardinality(newViews \cup ms) <= MaxNewViews

NewNewView(r, v) == [from |-> r, view |-> v, lastTc |-> lastTc[r], high |-> highQc[r]]

-----------------------------------------------------------------------------
(* onNewView                                                               *)

\* Mutant: a certificate is followed whatever its view.
TcAheadAnyView(r, m) == m.lastTc # NoTc

\* The sender proves that a later view has been agreed on.
TcAhead(r, m) == m.lastTc.view > view[r]

CatchesUp(r, m) == TcAhead(r, m) /\ IsValid(m.lastTc)

\* The replica's view once the certificate the message carries is dealt with.
ViewAfterTc(r, m) == IF CatchesUp(r, m) THEN m.lastTc.view ELSE view[r]

\* The message is added to the instance of its view.
Adds(r, m) ==
  /\ TcAhead(r, m) => IsValid(m.lastTc)
  /\ m.view > ViewAfterTc(r, m)
  /\ m.from \notin Voters(nvMap[r][m.view].newViewProto)

\* What the instance then holds.
Added(r, m) ==
  nvMap[r][m.view].newViewProto \cup {[from |-> m.from, high |-> m.high]}

\* Mutants: a view change one NEWVIEW short of a quorum, and one too late.
CompletesEarly(r, m) ==
  Adds(r, m) /\ Cardinality(Voters(Added(r, m))) >= GetQuorumSize - 1
CompletesLate(r, m) ==
  Adds(r, m) /\ Cardinality(Voters(Added(r, m))) > GetQuorumSize

\* With this message the instance holds enough NEWVIEWs to change the view.
Completes(r, m) == Adds(r, m) /\ IsQuorum(Voters(Added(r, m)))

\* Mutant: entering a view does not make it active.
ChangeViewOnly(r, v) ==
  /\ view' = [view EXCEPT ![r] = v]
  /\ UNCHANGED active

ChangeViewTo(r, v) ==
  /\ view' = [view EXCEPT ![r] = v]
  /\ active' = [active EXCEPT ![r] = TRUE]

OnNewView(r, m, selfMsg) ==
  /\ IF Adds(r, m)
     THEN nvMap' = [nvMap EXCEPT ![r][m.view] =
                      [newViewProto |-> Added(r, m),
                       sent         |-> @.sent \/ selfMsg,
                       complete     |-> @.complete \/ Completes(r, m)]]
     ELSE UNCHANGED nvMap
  /\ \/ /\ Completes(r, m)
        /\ ChangeViewTo(r, m.view)
        /\ lastTc' = [lastTc EXCEPT ![r] = GetTc(m.view, Added(r, m))]
     \/ /\ ~ Completes(r, m)
        /\ CatchesUp(r, m)
        /\ ChangeViewTo(r, m.lastTc.view)
        /\ UNCHANGED lastTc
     \/ /\ ~ Completes(r, m)
        /\ ~ CatchesUp(r, m)
        /\ UNCHANGED <<view, active, lastTc>>

-----------------------------------------------------------------------------
(* The steps of the threads                                                *)

\* BlockChain::onTimeout finds the view active and enters Rotate, which first
\* makes the view inactive. (Its timer does so only once it has proposed, stored
\* or changed the view, BlockChain.cpp:266; here it may from the start.)
RotateBegin(r) ==
  /\ ~ rotating[r]
  /\ active[r]
  /\ view[r] <= MaxView
  /\ active' = [active EXCEPT ![r] = FALSE]
  /\ rotating' = [rotating EXCEPT ![r] = TRUE]
  /\ UNCHANGED <<view, nvMap, lastTc, highQc, newViews>>

\* Rotate asks for the view after the current one (which the receiving thread
\* may have changed since), takes its own message first and then sends it,
\* whether or not its own instance accepted it.
RotateSend(r) ==
  LET m == NewNewView(r, view[r] + 1)
  IN  /\ rotating[r]
      /\ view[r] <= MaxView
      /\ MayBroadcast({m})
      /\ rotating' = [rotating EXCEPT ![r] = FALSE]
      /\ OnNewView(r, m, TRUE)
      /\ newViews' = newViews \cup {m}
      /\ UNCHANGED highQc

RecvNewView(r, m) ==
  /\ m.from # r
  /\ OnNewView(r, m, FALSE)
  /\ UNCHANGED <<rotating, highQc, newViews>>

\* The views of the instances that onTimeout keeps and this replica asked for.
SentViews(r) == {v \in View : nvMap[r][v].sent /\ v >= view[r] - NewviewMessageOffset}

\* The pacemaker's timer: stale instances go, and the NEWVIEWs whose interval
\* has passed are built anew and sent again. Time is abstract: any of those the
\* replica sent may be due (an instance stops 60 s after its completion).
OnTimeout(r) ==
  \E due \in SUBSET SentViews(r) :
    /\ MayBroadcast({NewNewView(r, v) : v \in due})
    /\ nvMap' = [nvMap EXCEPT ![r] =
         [v \in View |-> IF v < view[r] - NewviewMessageOffset THEN Absent ELSE @[v]]]
    /\ newViews' = newViews \cup {NewNewView(r, v) : v \in due}
    /\ UNCHANGED <<view, active, rotating, lastTc, highQc>>

\* UpdateProof: a synchronised proof holds a certificate q of view v, which is
\* not below the replica's view, and makes the view active whatever it was. If
\* q is beyond every sequence seen it is also the highest certificate.
SyncProof(r, v, q) ==
  /\ v >= view[r]
  /\ \E s \in Replica : view[s] >= v    \* the proof was made in a view reached
  /\ q = highQc[r] \/ q.sequence > highQc[r].sequence
  /\ ChangeViewTo(r, v)
  /\ highQc' = [highQc EXCEPT ![r] = q]
  /\ UNCHANGED <<rotating, nvMap, lastTc, newViews>>

\* The consensus object has a new highest certificate.
UpdateHighQc(r, q) ==
  /\ q.sequence > highQc[r].sequence
  /\ highQc' = [highQc EXCEPT ![r] = q]
  /\ UNCHANGED <<view, active, rotating, nvMap, lastTc, newViews>>

Next ==
  \E r \in Replica :
    \/ RotateBegin(r)
    \/ RotateSend(r)
    \/ \E m \in newViews : RecvNewView(r, m)
    \/ OnTimeout(r)
    \/ \E v \in View, q \in HighQc : SyncProof(r, v, q)
    \/ \E q \in HighQc : UpdateHighQc(r, q)

Spec == Init /\ [][Next]_vars

\* The receiving thread handles what it is sent, and onTimeout sends a NEWVIEW
\* again until a minute after its view change. Nothing is assumed of the timers.
\* A reception that changes neither the view nor an instance is a repeated one.
Fairness ==
  \A r \in Replica : WF_<<view, nvMap>>(\E m \in newViews : RecvNewView(r, m))

FairSpec == Spec /\ Fairness

-----------------------------------------------------------------------------
(* Properties                                                              *)

\* The replicas that have asked for view v.
Askers(v) == {m.from : m \in {n \in newViews : n.view = v}}

\* No replica is ever in a view that a quorum did not ask for, and no view up
\* to it was skipped: a view is entered on a quorum of NEWVIEWs, on the
\* certificate another replica made of one, or on a proof made in that view,
\* and Rotate asks only for the view after the replica's own
\* (XbftLiveness.cpp:63, 102, 116, 142).
EveryViewBacked ==
  \A r \in Replica : \A v \in 1 .. view[r] : IsQuorum(Askers(v))

\* Every timeout certificate kept or on the network passes the receiver's check
\* and names only replicas that asked for its view, so a replica left behind is
\* never refused by XbftLiveness.cpp:102 and never brought into a view that was
\* not agreed on.
TcSound ==
  \A tc \in {lastTc[r] : r \in Replica} \cup {m.lastTc : m \in newViews} :
    tc # NoTc => IsValid(tc) /\ tc.signers \subseteq Askers(tc.view)

\* What a quorum had certified when it asked for a view is not lost: whichever
\* quorum of NEWVIEWs a replica changes its view with, the certificate it hands
\* to ViewChanged (XbftLiveness.cpp:147) is at least as high as what every
\* replica of some quorum put into each NEWVIEW it sent for that view.
HighQcSurvives ==
  \A v \in 1 .. (MaxView + 1), q \in HighQc :
    LET sentBy(r) == {m \in newViews : m.from = r /\ m.view = v}
        reporters == {r \in Askers(v) : \A m \in sentBy(r) : m.high.sequence >= q.sequence}
    IN  IsQuorum(reporters) =>
          \A r \in Replica : nvMap[r][v].complete =>
            GetHighQc(nvMap[r][v].newViewProto).sequence >= q.sequence

\* No order of messages, resends and synchronised proofs takes a replica back
\* to an earlier view.
ViewsOnlyAdvance == [][\A r \in Replica : view'[r] >= view[r]]_vars

\* A view that a quorum asked for is reached by every replica, those that never
\* asked for it and those several views behind included. (What was asked for stays
\* so: if there is always a later state with none outstanding, each is reached.)
AgreedViewReached ==
  []<>(\A v \in 1 .. (MaxView + 1) :
         IsQuorum(Askers(v)) => \A r \in Replica : view[r] >= v)

\* XbftConsensus.cpp:37 says that an inactive view means a view change in
\* progress, XbftLiveness.cpp:60 that Rotate makes the view inactive first: a
\* replica that asked for the next view and has not got it is not active.
ViewChangeKeepsInactive ==
  \A r \in Replica, v \in View :
    v = view[r] + 1 /\ nvMap[r][v].sent /\ ~ nvMap[r][v].complete => ~ active[r]
=============================================================================
