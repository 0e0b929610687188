----------------------------- MODULE XbftSystem -----------------------------
(***************************************************************************)
(* The whole engine of every replica, src/lib/engine/XbftEngine.cpp: the    *)
(* consensus and the pacemaker that drives it. They share the view number,  *)
(* the view-active flag and the highest certificate, and the pacemaker      *)
(* calls the consensus when a view change completes.                       *)
(***************************************************************************)
EXTENDS XbftConsensus

CONSTANTS
  MaxNewViews,           \* BOUND: how many different NEWVIEWs are ever sent
  NewviewMessageOffset   \* g_newviewMessageOffset

ASSUME SystemAssumption ==
  /\ MaxView >= 1       \* BOUND: the last view, which no rotation leaves
  /\ MaxNewViews \in Nat
  /\ NewviewMessageOffset \in Nat

VARIABLES rotating, nvMap, lastTc, newViews  \* the pacemaker's own

paceVars == <<rotating, nvMap, lastTc, newViews>>
coreVars == <<node, rep, building, votes, decides, proofs, synced>>
systemVars == <<view, active, paceVars, coreVars>>

\* The pacemaker reads the highest certificate from the consensus.
Pace == INSTANCE XbftPaceMaker
          WITH MaxView <- MaxView - 1,
               HighQc <- Qc,
               highQc <- [r \in Replica |-> rep[r].highQc]

SystemInit ==
  /\ Init
  /\ rotating = [r \in Replica |-> FALSE]
  /\ nvMap = [r \in Replica |-> [v \in View |-> Pace!Absent]]
  /\ lastTc = [r \in Replica |-> Pace!NoTc]
  /\ newViews = {}

-----------------------------------------------------------------------------
(* The pacemaker's steps and what they do to the consensus                 *)

\* The certificate a completed view change hands to ViewChanged.
ViewChangeQc(r, m) == Pace!GetHighQc(Pace!Added(r, m))

\* The consensus after the NEWVIEW m: ViewChanged adopts the highest certificate
\* of a view change that m completes; a certificate followed brings none.
CoreAfter(r, m) ==
  Become(r, IF Pace!Completes(r, m) THEN AdoptQc(rep[r], ViewChangeQc(r, m))
            ELSE rep[r])

RotateBegin(r) ==
  /\ Alive(r)
  /\ UNCHANGED coreVars
  /\ Pace!RotateBegin(r)

RotateSend(r) ==
  /\ Alive(r) /\ view[r] < MaxView
  /\ CoreAfter(r, Pace!NewNewView(r, view[r] + 1))
  /\ Pace!RotateSend(r)
  /\ UNCHANGED <<node, building, votes, decides, synced>>

RecvNewView(r, m) ==
  /\ Alive(r)
  /\ CoreAfter(r, m)
  /\ Pace!RecvNewView(r, m)
  /\ UNCHANGED <<node, building, votes, decides, synced>>

OnTimeout(r) ==
  /\ Alive(r)
  /\ UNCHANGED coreVars
  /\ Pace!OnTimeout(r)

-----------------------------------------------------------------------------
(* The consensus's steps, of which the pacemaker notices nothing            *)

CoreStep(r) ==
  \/ StartConsensus(r)
  \/ Propose(r)
  \/ \E h \in DOMAIN node \ {Genesis} : OnPropose(r, h)
  \/ \E vote \in votes : OnVote(r, vote)
  \/ \E qc \in decides : OnDecide(r, qc)
  \/ \E qc \in proofs : Sync(r, qc)

SystemNext ==
  \E r \in Replica :
    \/ RotateBegin(r)
    \/ RotateSend(r)
    \/ \E m \in newViews : RecvNewView(r, m)
    \/ OnTimeout(r)
    \/ CoreStep(r) /\ UNCHANGED paceVars

SystemSpec == SystemInit /\ [][SystemNext]_systemVars

-----------------------------------------------------------------------------
(* Properties                                                              *)

\* The pacemaker's own specification knows of a certificate only its sequence.
Abstract(qc) == [sequence |-> qc.sequence]
AbstractNv(i) ==
  [i EXCEPT !.newViewProto = {[from |-> e.from, high |-> Abstract(e.high)] : e \in @}]

AbstractPace ==
  INSTANCE XbftPaceMaker
    WITH MaxView  <- MaxView - 1,
         HighQc   <- {[sequence |-> s] : s \in 0 .. (MaxNodes + 1)},
         NoQc     <- [sequence |-> 0],
         highQc   <- [r \in Replica |-> Abstract(rep[r].highQc)],
         nvMap    <- [r \in Replica |-> [v \in View |-> AbstractNv(nvMap[r][v])]],
         newViews <- {[m EXCEPT !.high = Abstract(@)] : m \in newViews}

\* The engine refines its pacemaker: proposals, votes and synchronised proofs do
\* to the shared state only what XbftPaceMaker lets its environment do.
RefinesPaceMaker == AbstractPace!Spec

\* The engine refines its consensus: every view change adopts a certificate that
\* some leader made, of the views XbftConsensus lets its environment choose.
RefinesConsensus == Spec

\* README.md:3 promises safety and finality while less than a third of the
\* replicas is faulty: what replicas that all follow the code decide (their
\* m_decision flags, set by the three-chain) lies on one branch.
Finality ==
  OneBranch(UNION {Decided(r) : r \in Replica})
=============================================================================
