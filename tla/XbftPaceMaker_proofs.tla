----------------------- MODULE XbftPaceMaker_proofs -----------------------
(***************************************************************************)
(* What the pacemaker guarantees for every number of validators and every  *)
(* bound: an inductive invariant, and the properties that follow from it.  *)
(***************************************************************************)
EXTENDS XbftPaceMaker, XbftValidatorSet_proofs, WellFoundedInduction

-----------------------------------------------------------------------------
(* The inductive invariant                                                 *)

\* What an instance holds came from a NEWVIEW that was broadcast.
EntriesWereSent ==
  \A r \in Replica, v \in View : \A e \in nvMap[r][v].newViewProto :
    \E m \in newViews : m.from = e.from /\ m.view = v /\ m.high = e.high

EntriesFinite ==
  \A r \in Replica, v \in View : IsFiniteSet(nvMap[r][v].newViewProto)

\* Every certificate is the mark of a quorum that asked for its view.
TcBacked(tc) ==
  tc # NoTc => IsQuorum(tc.signers) /\ tc.signers \subseteq Askers(tc.view)

TcsBacked ==
  /\ \A r \in Replica : TcBacked(lastTc[r])
  /\ \A m \in newViews : TcBacked(m.lastTc)

\* Who asks for a view has been in the one before it.
AskedFromBackedView ==
  \A m \in newViews : \A u \in 1 .. (m.view - 1) : IsQuorum(Askers(u))

\* The views whose NEWVIEW is sent again are those it was sent for.
SentWasAsked ==
  \A r \in Replica, v \in View : nvMap[r][v].sent => r \in Askers(v)

\* A view change is complete on a quorum only.
CompleteOnQuorum ==
  \A r \in Replica, v \in View :
    nvMap[r][v].complete => IsQuorum(Voters(nvMap[r][v].newViewProto))

IInv ==
  /\ TypeOK
  /\ EntriesWereSent
  /\ EntriesFinite
  /\ TcsBacked
  /\ AskedFromBackedView
  /\ SentWasAsked
  /\ CompleteOnQuorum
  /\ EveryViewBacked

-----------------------------------------------------------------------------
(* Lemmas                                                                  *)

LEMMA ViewType == /\ View \subseteq Nat
                  /\ \A v \in View : 1 .. v \subseteq View /\ 1 .. (v - 1) \subseteq View
BY PaceMakerAssumption DEF View

LEMMA AskersType ==
  ASSUME TypeOK, NEW v \in View
  PROVE  Askers(v) \in SUBSET Replica
BY DEF TypeOK, Askers, NewViewMsg

\* Messages are only added, so a view once asked for by a quorum stays so.
LEMMA AskersGrow ==
  ASSUME newViews \subseteq newViews', NEW v
  PROVE  Askers(v) \subseteq Askers(v)'
BY DEF Askers

LEMMA BackedStays ==
  ASSUME TypeOK, TypeOK', newViews \subseteq newViews', NEW v \in View, IsQuorum(Askers(v))
  PROVE  IsQuorum(Askers(v)')
<1>1. Askers(v) \in SUBSET Replica /\ Askers(v)' \in SUBSET Replica
  BY AskersType DEF TypeOK, Askers, NewViewMsg
<1>. QED  BY <1>1, AskersGrow, QuorumGrows

LEMMA TcBackedStays ==
  ASSUME newViews \subseteq newViews', NEW tc, TcBacked(tc)
  PROVE  TcBacked(tc)'
BY AskersGrow DEF TcBacked

LEMMA VotersType ==
  ASSUME NEW entries \in SUBSET NvEntry
  PROVE  Voters(entries) \in SUBSET Replica
BY DEF NvEntry, Voters

\* The views up to a backed certificate are backed.
LEMMA TcViewsBacked ==
  ASSUME IInv, NEW tc \in Tc, TcBacked(tc), tc.view > 0
  PROVE  \A u \in 1 .. tc.view : IsQuorum(Askers(u))
<1>1. tc # NoTc
  BY DEF NoTc
<1>2. IsQuorum(tc.signers) /\ tc.signers \subseteq Askers(tc.view)
  BY <1>1 DEF TcBacked
<1>3. tc.signers \in SUBSET Replica /\ tc.view \in View
  BY DEF Tc
<1>4. IsQuorum(Askers(tc.view))
  BY <1>2, <1>3, AskersType, QuorumGrows DEF IInv
<1>5. PICK q \in Replica : q \in tc.signers
  BY <1>2, <1>3, QuorumsMeet
<1>6. PICK m \in newViews : m.from = q /\ m.view = tc.view
  BY <1>2, <1>5 DEF Askers
<1>7. \A u \in 1 .. (tc.view - 1) : IsQuorum(Askers(u))
  BY <1>6 DEF IInv, AskedFromBackedView
<1>8. \A u \in 1 .. tc.view : u = tc.view \/ u \in 1 .. (tc.view - 1)
  <2>1. tc.view \in Nat
    BY <1>3, ViewType
  <2>. QED  BY <2>1
<1>. QED  BY <1>4, <1>7, <1>8

-----------------------------------------------------------------------------
(* The invariant holds initially                                           *)

LEMMA InitIInv == Init => IInv
<1>. SUFFICES ASSUME Init PROVE IInv
  OBVIOUS
<1>. USE PaceMakerAssumption
<1>1. 0 \in View
  BY DEF View
<1>2. Absent \in NvInstance
  BY DEF Absent, NvInstance
<1>3. NoTc \in Tc
  BY <1>1 DEF NoTc, Tc
<1>4. TypeOK
  BY <1>1, <1>2, <1>3 DEF Init, TypeOK
<1>4a. EntriesFinite
  BY FS_EmptySet DEF Init, EntriesFinite, Absent
<1>5. EntriesWereSent /\ CompleteOnQuorum /\ SentWasAsked
  BY DEF Init, EntriesWereSent, CompleteOnQuorum, SentWasAsked, Absent
<1>6. TcsBacked /\ AskedFromBackedView /\ EveryViewBacked
  BY DEF Init, TcsBacked, TcBacked, AskedFromBackedView, EveryViewBacked
<1>. QED  BY <1>4, <1>4a, <1>5, <1>6 DEF IInv

-----------------------------------------------------------------------------
(* Every step keeps the invariant                                          *)

LEMMA AddedType ==
  ASSUME TypeOK, NEW r \in Replica, NEW m \in NewViewMsg
  PROVE  Added(r, m) \in SUBSET NvEntry
<1>1. nvMap[r][m.view] \in NvInstance
  BY DEF TypeOK, NewViewMsg
<1>2. [from |-> m.from, high |-> m.high] \in NvEntry
  BY DEF NewViewMsg, NvEntry
<1>. QED  BY <1>1, <1>2 DEF Added, NvInstance

\* onNewView leaves every instance alone but the one of the message's view,
\* which may take the message and is complete only on a quorum.
LEMMA OnNewViewInstances ==
  ASSUME TypeOK, NEW r \in Replica, NEW m \in NewViewMsg, NEW selfMsg \in BOOLEAN,
         OnNewView(r, m, selfMsg)
  PROVE  \/ nvMap' = nvMap
         \/ \E ins \in NvInstance :
              /\ ins.newViewProto = Added(r, m)
              /\ ins.sent => nvMap[r][m.view].sent \/ selfMsg
              /\ ins.complete => nvMap[r][m.view].complete \/ Completes(r, m)
              /\ nvMap' = [nvMap EXCEPT ![r][m.view] = ins]
<1>1. CASE ~ Adds(r, m)
  BY <1>1 DEF OnNewView
<1>2. CASE Adds(r, m)
  <2>. DEFINE ins == [newViewProto |-> Added(r, m),
                      sent         |-> nvMap[r][m.view].sent \/ selfMsg,
                      complete     |-> nvMap[r][m.view].complete \/ Completes(r, m)]
  <2>1. ins \in NvInstance
    BY AddedType DEF NvInstance
  <2>2. nvMap' = [nvMap EXCEPT ![r][m.view] = ins]
    BY <1>2 DEF OnNewView, TypeOK, NewViewMsg
  <2>. QED  BY <2>1, <2>2
<1>. QED  BY <1>1, <1>2

\* onNewView keeps the types, whatever message of the right type it is given.
LEMMA OnNewViewTypes ==
  ASSUME TypeOK, NEW r \in Replica, NEW m \in NewViewMsg, NEW selfMsg \in BOOLEAN,
         OnNewView(r, m, selfMsg)
  PROVE  /\ view' \in [Replica -> View]
         /\ active' \in [Replica -> BOOLEAN]
         /\ nvMap' \in [Replica -> [View -> NvInstance]]
         /\ lastTc' \in [Replica -> Tc]
<1>1. m.view \in View /\ m.lastTc \in Tc /\ m.lastTc.view \in View
  BY DEF NewViewMsg, Tc
<1>2. nvMap' \in [Replica -> [View -> NvInstance]]
  <2>1. nvMap \in [Replica -> [View -> NvInstance]]
    BY DEF TypeOK
  <2>2. ASSUME NEW ins \in NvInstance, nvMap' = [nvMap EXCEPT ![r][m.view] = ins]
        PROVE  nvMap' \in [Replica -> [View -> NvInstance]]
    BY <2>1, <2>2, <1>1
  <2>. QED  BY <2>1, <2>2, OnNewViewInstances
<1>3. Voters(Added(r, m)) \in SUBSET Replica
  BY AddedType, VotersType
<1>4. GetTc(m.view, Added(r, m)) \in Tc
  BY <1>1, <1>3 DEF GetTc, Tc
<1>5. lastTc' \in [Replica -> Tc]
  BY <1>4 DEF OnNewView, TypeOK
<1>6. \/ ChangeViewTo(r, m.view)
      \/ ChangeViewTo(r, m.lastTc.view)
      \/ UNCHANGED <<view, active>>
  BY DEF OnNewView
<1>7. view' \in [Replica -> View] /\ active' \in [Replica -> BOOLEAN]
  BY <1>1, <1>6 DEF TypeOK, ChangeViewTo
<1>. QED  BY <1>2, <1>5, <1>7

\* onNewView keeps the invariant when the message is one that was or is being
\* broadcast by a replica that had reached the view before it.
LEMMA OnNewViewKeeps ==
  ASSUME IInv, TypeOK', NEW r \in Replica, NEW m \in NewViewMsg, NEW selfMsg \in BOOLEAN,
         OnNewView(r, m, selfMsg),
         selfMsg => m.from = r,
         newViews' = newViews \cup {m},
         TcBacked(m.lastTc),
         \A u \in 1 .. (m.view - 1) : IsQuorum(Askers(u))
  PROVE  IInv'
<1>. DEFINE held == Added(r, m)
<1>. DEFINE e0 == [from |-> m.from, high |-> m.high]
<1>1. m.view \in View /\ m.lastTc \in Tc /\ m.lastTc.view \in View
  BY DEF NewViewMsg, Tc
<1>2. nvMap[r][m.view] \in NvInstance
  BY <1>1 DEF IInv, TypeOK
<1>3. newViews \subseteq newViews' /\ TypeOK
  BY DEF IInv
<1>4. held = nvMap[r][m.view].newViewProto \cup {e0}
  BY DEF Added
<1>5. Voters(held) \in SUBSET Replica
  BY <1>3, AddedType, VotersType
<1>. HIDE DEF held
<1>7. \A e \in held :
        \E n \in newViews' : n.from = e.from /\ n.view = m.view /\ n.high = e.high
  <2>1. \A e \in nvMap[r][m.view].newViewProto :
          \E n \in newViews : n.from = e.from /\ n.view = m.view /\ n.high = e.high
    BY <1>1 DEF IInv, EntriesWereSent
  <2>2. m \in newViews' /\ m.from = e0.from /\ m.high = e0.high
    OBVIOUS
  <2>. QED  BY <1>4, <2>1, <2>2
<1>8. Voters(held) \subseteq Askers(m.view)'
  BY <1>7 DEF Voters, Askers
<1>9. \A q \in Replica, v \in View :
        \/ nvMap'[q][v] = nvMap[q][v]
        \/ /\ q = r /\ v = m.view
           /\ nvMap'[q][v].newViewProto = held
           /\ nvMap'[q][v].sent => selfMsg \/ nvMap[q][v].sent
           /\ nvMap'[q][v].complete => Completes(r, m) \/ nvMap[q][v].complete
  <2>1. nvMap \in [Replica -> [View -> NvInstance]]
    BY <1>3 DEF TypeOK
  <2>. QED  BY <1>1, <1>3, <2>1, OnNewViewInstances DEF held
<1>10. Completes(r, m) => IsQuorum(Voters(held))
  BY DEF Completes, held
<1>11. Completes(r, m) => IsQuorum(Askers(m.view)')
  <2>1. Askers(m.view)' \in SUBSET Replica
    BY <1>1, <1>3 DEF Askers, TypeOK, NewViewMsg
  <2>. QED  BY <1>5, <1>8, <1>10, <2>1, QuorumGrows
<1>12. EntriesWereSent'
  <2>. SUFFICES ASSUME NEW q \in Replica, NEW v \in View, NEW e \in nvMap'[q][v].newViewProto
               PROVE  \E n \in newViews' : n.from = e.from /\ n.view = v /\ n.high = e.high
    BY DEF EntriesWereSent
  <2>1. CASE nvMap'[q][v] = nvMap[q][v]
    BY <2>1, <1>3 DEF IInv, EntriesWereSent
  <2>2. CASE v = m.view /\ nvMap'[q][v].newViewProto = held
    BY <2>2, <1>7
  <2>. QED  BY <1>9, <2>1, <2>2
<1>12a. EntriesFinite'
  <2>1. IsFiniteSet(held)
    BY <1>1, <1>4, FS_AddElement DEF IInv, EntriesFinite
  <2>. QED  BY <1>9, <2>1 DEF IInv, EntriesFinite
<1>13. TcsBacked'
  <2>1. \A q \in Replica : TcBacked(lastTc[q])'
    <3>. SUFFICES ASSUME NEW q \in Replica PROVE TcBacked(lastTc[q])'
      OBVIOUS
    <3>1. CASE lastTc'[q] = lastTc[q]
      <4>1. PICK tc : tc = lastTc[q]
        OBVIOUS
      <4>2. TcBacked(tc)
        BY <4>1 DEF IInv, TcsBacked
      <4>3. TcBacked(tc)'
        BY <4>2, <1>3, TcBackedStays
      <4>. QED  BY <4>1, <4>3, <3>1 DEF TcBacked, Askers
    <3>2. CASE Completes(r, m) /\ lastTc'[q] = GetTc(m.view, held)
      BY <3>2, <1>8, <1>10 DEF TcBacked, GetTc, Askers
    <3>3. \/ lastTc' = lastTc
          \/ /\ Completes(r, m)
             /\ lastTc' = [lastTc EXCEPT ![r] = GetTc(m.view, held)]
      BY DEF OnNewView, held
    <3>. QED  BY <3>1, <3>2, <3>3, <1>3 DEF TypeOK
  <2>2. \A n \in newViews' : TcBacked(n.lastTc)'
    <3>. SUFFICES ASSUME NEW n \in newViews' PROVE TcBacked(n.lastTc)'
      OBVIOUS
    <3>1. TcBacked(n.lastTc)
      BY DEF IInv, TcsBacked
    <3>. QED  BY <3>1, <1>3, TcBackedStays
  <2>. QED  BY <2>1, <2>2 DEF TcsBacked
<1>14. AskedFromBackedView'
  <2>. SUFFICES ASSUME NEW n \in newViews', NEW u \in 1 .. (n.view - 1)
               PROVE  IsQuorum(Askers(u)')
    BY DEF AskedFromBackedView, IsQuorum
  <2>1. IsQuorum(Askers(u))
    BY DEF IInv, AskedFromBackedView
  <2>2. u \in View
    BY <1>3, <1>1, ViewType DEF TypeOK, NewViewMsg
  <2>. QED  BY <1>3, <2>1, <2>2, BackedStays
<1>15. CompleteOnQuorum'
  <2>. SUFFICES ASSUME NEW q \in Replica, NEW v \in View, nvMap'[q][v].complete
               PROVE  IsQuorum(Voters(nvMap'[q][v].newViewProto))
    BY DEF CompleteOnQuorum, IsQuorum, Voters
  <2>1. CASE nvMap'[q][v] = nvMap[q][v]
    BY <2>1 DEF IInv, CompleteOnQuorum
  <2>2. CASE /\ q = r /\ v = m.view
             /\ nvMap'[q][v].newViewProto = held
             /\ Completes(r, m)
    BY <2>2, <1>10 DEF Voters
  <2>3. CASE /\ q = r /\ v = m.view
             /\ nvMap'[q][v].newViewProto = held
             /\ nvMap[q][v].complete
    <3>1. IsQuorum(Voters(nvMap[r][m.view].newViewProto))
      BY <2>3, <1>1 DEF IInv, CompleteOnQuorum
    <3>2. Voters(nvMap[r][m.view].newViewProto) \subseteq Voters(held)
      BY <1>4 DEF Voters
    <3>3. Voters(nvMap[r][m.view].newViewProto) \in SUBSET Replica
      BY <1>2, VotersType DEF NvInstance
    <3>4. IsQuorum(Voters(held))
      BY <3>1, <3>2, <3>3, <1>5, QuorumGrows
    <3>. QED  BY <3>4, <2>3 DEF Voters
  <2>. QED  BY <1>9, <2>1, <2>2, <2>3
<1>15a. SentWasAsked'
  <2>. SUFFICES ASSUME NEW q \in Replica, NEW v \in View, nvMap'[q][v].sent
               PROVE  q \in Askers(v)'
    BY DEF SentWasAsked
  <2>1. CASE nvMap[q][v].sent
    BY <2>1, <1>3, AskersGrow DEF IInv, SentWasAsked
  <2>2. CASE q = r /\ v = m.view /\ selfMsg
    BY <2>2 DEF Askers
  <2>. QED  BY <1>9, <2>1, <2>2
<1>16. EveryViewBacked'
  <2>. SUFFICES ASSUME NEW q \in Replica, NEW v \in 1 .. view'[q]
               PROVE  IsQuorum(Askers(v)')
    BY DEF EveryViewBacked, IsQuorum
  <2>1. v \in View
    BY <1>3, ViewType DEF TypeOK
  <2>2. CASE view'[q] = view[q]
    <3>1. IsQuorum(Askers(v))
      BY <2>2 DEF IInv, EveryViewBacked
    <3>. QED  BY <3>1, <2>1, <1>3, BackedStays
  <2>3. CASE view'[q] = m.lastTc.view /\ CatchesUp(r, m)
    <3>0. m.lastTc.view \in Nat /\ view[r] \in Nat
      BY <1>1, <1>3, ViewType DEF TypeOK
    <3>1. m.lastTc.view > 0
      BY <2>3, <3>0 DEF CatchesUp, TcAhead
    <3>2. IsQuorum(Askers(v))
      BY <3>1, <1>1, <2>3, TcViewsBacked
    <3>. QED  BY <3>2, <2>1, <1>3, BackedStays
  <2>4. CASE view'[q] = m.view /\ Completes(r, m)
    <3>0. m.view \in Nat
      BY <1>1, ViewType
    <3>1. v = m.view \/ v \in 1 .. (m.view - 1)
      BY <2>4, <3>0
    <3>2. CASE v = m.view
      BY <3>2, <2>4, <1>11
    <3>3. CASE v \in 1 .. (m.view - 1)
      BY <3>3, <2>1, <1>3, BackedStays
    <3>. QED  BY <3>1, <3>2, <3>3
  <2>5. \/ view' = view
        \/ CatchesUp(r, m) /\ view' = [view EXCEPT ![r] = m.lastTc.view]
        \/ Completes(r, m) /\ view' = [view EXCEPT ![r] = m.view]
    BY DEF OnNewView, ChangeViewTo
  <2>. QED  BY <2>2, <2>3, <2>4, <2>5, <1>3 DEF TypeOK
<1>. QED  BY <1>12, <1>12a, <1>13, <1>14, <1>15, <1>15a, <1>16 DEF IInv

LEMMA NewNewViewType ==
  ASSUME TypeOK, NEW r \in Replica, NEW v \in View
  PROVE  NewNewView(r, v) \in NewViewMsg
BY DEF TypeOK, NewNewView, NewViewMsg

\* The types, step by step.
LEMMA NextTypeOK == TypeOK /\ [Next]_vars => TypeOK'
<1>. SUFFICES ASSUME TypeOK, [Next]_vars PROVE TypeOK'
  OBVIOUS
<1>1. CASE UNCHANGED vars
  BY <1>1 DEF vars, TypeOK
<1>2. ASSUME NEW r \in Replica, RotateBegin(r) PROVE TypeOK'
  BY <1>2 DEF RotateBegin, TypeOK
<1>3. ASSUME NEW r \in Replica, RotateSend(r) PROVE TypeOK'
  <2>1. view[r] + 1 \in View
    BY <1>3, PaceMakerAssumption DEF RotateSend, TypeOK, View
  <2>2. PICK m \in NewViewMsg : m = NewNewView(r, view[r] + 1)
    BY <2>1, NewNewViewType
  <2>3. /\ OnNewView(r, m, TRUE)
        /\ newViews' = newViews \cup {m}
        /\ rotating' = [rotating EXCEPT ![r] = FALSE]
        /\ UNCHANGED highQc
    BY <1>3, <2>2 DEF RotateSend
  <2>. QED  BY <2>3, OnNewViewTypes DEF TypeOK
<1>4. ASSUME NEW r \in Replica, NEW m \in newViews, RecvNewView(r, m) PROVE TypeOK'
  <2>1. m \in NewViewMsg
    BY DEF TypeOK
  <2>2. OnNewView(r, m, FALSE) /\ UNCHANGED <<rotating, highQc, newViews>>
    BY <1>4 DEF RecvNewView
  <2>. QED  BY <2>1, <2>2, OnNewViewTypes DEF TypeOK
<1>5. ASSUME NEW r \in Replica, OnTimeout(r) PROVE TypeOK'
  <2>1. PICK due \in SUBSET SentViews(r) :
          /\ nvMap' = [nvMap EXCEPT ![r] =
               [v \in View |-> IF v < view[r] - NewviewMessageOffset THEN Absent ELSE @[v]]]
          /\ newViews' = newViews \cup {NewNewView(r, v) : v \in due}
          /\ UNCHANGED <<view, active, rotating, lastTc, highQc>>
    BY <1>5 DEF OnTimeout
  <2>2. Absent \in NvInstance
    BY DEF Absent, NvInstance
  <2>3. nvMap' \in [Replica -> [View -> NvInstance]]
    BY <2>1, <2>2 DEF TypeOK
  <2>4. \A v \in due : v \in View
    BY <2>1 DEF SentViews
  <2>5. newViews' \subseteq NewViewMsg
    BY <2>1, <2>4, NewNewViewType DEF TypeOK
  <2>. QED  BY <2>1, <2>3, <2>5 DEF TypeOK
<1>6. ASSUME NEW r \in Replica, NEW v \in View, NEW q0 \in HighQc, SyncProof(r, v, q0) PROVE TypeOK'
  BY <1>6 DEF SyncProof, ChangeViewTo, TypeOK
<1>7. ASSUME NEW r \in Replica, NEW q \in HighQc, UpdateHighQc(r, q) PROVE TypeOK'
  BY <1>7 DEF UpdateHighQc, TypeOK
<1>. QED  BY <1>1, <1>2, <1>3, <1>4, <1>5, <1>6, <1>7 DEF Next

\* A step that only adds NEWVIEWs of views their sender was next to, and changes
\* neither a view nor a certificate, nor adds to an instance.
LEMMA QuietStepKeeps ==
  ASSUME IInv, TypeOK',
         newViews \subseteq newViews',
         \A m \in newViews' : \/ m \in newViews
                             \/ /\ TcBacked(m.lastTc)
                                /\ \A u \in 1 .. (m.view - 1) : IsQuorum(Askers(u)),
         UNCHANGED lastTc,
         \A r \in Replica, v \in View :
           nvMap'[r][v] = nvMap[r][v] \/ nvMap'[r][v] = Absent,
         EveryViewBacked'
  PROVE  IInv'
<1>1. EntriesWereSent'
  <2>. SUFFICES ASSUME NEW r \in Replica, NEW v \in View, NEW e \in nvMap'[r][v].newViewProto
               PROVE  \E m \in newViews' : m.from = e.from /\ m.view = v /\ m.high = e.high
    BY DEF EntriesWereSent
  <2>1. nvMap'[r][v] = nvMap[r][v]
    BY DEF Absent
  <2>. QED  BY <2>1 DEF IInv, EntriesWereSent
<1>2. TcsBacked'
  <2>1. \A r \in Replica : TcBacked(lastTc[r])'
    <3>. SUFFICES ASSUME NEW r \in Replica PROVE TcBacked(lastTc[r])'
      OBVIOUS
    <3>1. PICK tc : tc = lastTc[r]
      OBVIOUS
    <3>2. TcBacked(tc)'
      BY <3>1, TcBackedStays DEF IInv, TcsBacked
    <3>. QED  BY <3>1, <3>2 DEF TcBacked, Askers
  <2>2. ASSUME NEW m \in newViews' PROVE TcBacked(m.lastTc)'
    BY TcBackedStays DEF IInv, TcsBacked
  <2>. QED  BY <2>1, <2>2 DEF TcsBacked
<1>3. AskedFromBackedView'
  <2>. SUFFICES ASSUME NEW m \in newViews', NEW u \in 1 .. (m.view - 1)
               PROVE  IsQuorum(Askers(u)')
    BY DEF AskedFromBackedView, IsQuorum
  <2>1. IsQuorum(Askers(u))
    BY DEF IInv, AskedFromBackedView
  <2>2. u \in View
    BY ViewType DEF TypeOK, NewViewMsg
  <2>. QED  BY <2>1, <2>2, BackedStays DEF IInv
<1>4. CompleteOnQuorum'
  <2>. SUFFICES ASSUME NEW r \in Replica, NEW v \in View, nvMap'[r][v].complete
               PROVE  IsQuorum(Voters(nvMap'[r][v].newViewProto))
    BY DEF CompleteOnQuorum, IsQuorum, Voters
  <2>1. nvMap'[r][v] = nvMap[r][v]
    BY DEF Absent
  <2>. QED  BY <2>1 DEF IInv, CompleteOnQuorum
<1>5. SentWasAsked'
  BY AskersGrow DEF IInv, SentWasAsked, Absent
<1>6. EntriesFinite'
  <2>. SUFFICES ASSUME NEW r \in Replica, NEW v \in View
               PROVE  IsFiniteSet(nvMap'[r][v].newViewProto)
    BY DEF EntriesFinite
  <2>1. CASE nvMap'[r][v] = nvMap[r][v]
    BY <2>1 DEF IInv, EntriesFinite
  <2>2. CASE nvMap'[r][v] = Absent
    <3>1. nvMap'[r][v].newViewProto = {}
      BY <2>2 DEF Absent
    <3>. QED  BY <3>1, FS_EmptySet
  <2>. QED  BY <2>1, <2>2
<1>. QED  BY <1>1, <1>2, <1>3, <1>4, <1>5, <1>6 DEF IInv

\* When no view changes, the views backed before are backed after.
LEMMA SameViewsBacked ==
  ASSUME IInv, TypeOK', newViews \subseteq newViews', UNCHANGED view
  PROVE  EveryViewBacked'
<1>. SUFFICES ASSUME NEW r \in Replica, NEW v \in 1 .. view[r] PROVE IsQuorum(Askers(v)')
  BY DEF EveryViewBacked, IsQuorum
<1>1. v \in View
  BY ViewType DEF IInv, TypeOK
<1>2. IsQuorum(Askers(v))
  BY DEF IInv, EveryViewBacked
<1>. QED  BY <1>1, <1>2, BackedStays DEF IInv

LEMMA NextIInv == IInv /\ [Next]_vars => IInv'
<1>. SUFFICES ASSUME IInv, [Next]_vars PROVE IInv'
  OBVIOUS
<1>. USE NextTypeOK
<1>0. TypeOK /\ TypeOK'
  BY DEF IInv
<1>1. CASE UNCHANGED vars
  <2>1. EveryViewBacked'
    BY <1>0, <1>1, SameViewsBacked DEF vars
  <2>. QED  BY <1>0, <1>1, <2>1, QuietStepKeeps DEF vars
<1>2. ASSUME NEW r \in Replica, RotateBegin(r) PROVE IInv'
  <2>1. EveryViewBacked'
    BY <1>0, <1>2, SameViewsBacked DEF RotateBegin
  <2>. QED  BY <1>0, <1>2, <2>1, QuietStepKeeps DEF RotateBegin
<1>3. ASSUME NEW r \in Replica, RotateSend(r) PROVE IInv'
  <2>1. view[r] + 1 \in View /\ view[r] \in Nat
    BY <1>0, <1>3, PaceMakerAssumption DEF RotateSend, TypeOK, View
  <2>2. PICK m \in NewViewMsg : m = NewNewView(r, view[r] + 1)
    BY <1>0, <2>1, NewNewViewType
  <2>3. OnNewView(r, m, TRUE) /\ newViews' = newViews \cup {m}
    BY <1>3, <2>2 DEF RotateSend
  <2>4. TcBacked(m.lastTc)
    BY <2>2 DEF IInv, TcsBacked, NewNewView
  <2>5. \A u \in 1 .. (m.view - 1) : IsQuorum(Askers(u))
    BY <2>1, <2>2 DEF IInv, EveryViewBacked, NewNewView
  <2>6. m.from = r
    BY <2>2 DEF NewNewView
  <2>. QED  BY <1>0, <2>3, <2>4, <2>5, <2>6, OnNewViewKeeps
<1>4. ASSUME NEW r \in Replica, NEW m \in newViews, RecvNewView(r, m) PROVE IInv'
  <2>1. m \in NewViewMsg
    BY <1>0 DEF TypeOK
  <2>2. OnNewView(r, m, FALSE) /\ newViews' = newViews \cup {m}
    BY <1>4 DEF RecvNewView
  <2>3. TcBacked(m.lastTc) /\ \A u \in 1 .. (m.view - 1) : IsQuorum(Askers(u))
    BY DEF IInv, TcsBacked, AskedFromBackedView
  <2>. QED  BY <1>0, <2>1, <2>2, <2>3, OnNewViewKeeps
<1>5. ASSUME NEW r \in Replica, OnTimeout(r) PROVE IInv'
  <2>1. PICK due \in SUBSET SentViews(r) :
          /\ nvMap' = [nvMap EXCEPT ![r] =
               [v \in View |-> IF v < view[r] - NewviewMessageOffset THEN Absent ELSE @[v]]]
          /\ newViews' = newViews \cup {NewNewView(r, v) : v \in due}
          /\ UNCHANGED <<view, active, rotating, lastTc, highQc>>
    BY <1>5 DEF OnTimeout
  <2>2. \A q \in Replica, v \in View : nvMap'[q][v] = nvMap[q][v] \/ nvMap'[q][v] = Absent
    BY <1>0, <2>1 DEF TypeOK
  <2>3. EveryViewBacked'
    BY <1>0, <2>1, SameViewsBacked
  <2>4. ASSUME NEW v \in due
        PROVE  /\ TcBacked(NewNewView(r, v).lastTc)
               /\ \A u \in 1 .. (NewNewView(r, v).view - 1) : IsQuorum(Askers(u))
    <3>1. v \in View /\ nvMap[r][v].sent
      BY <2>1 DEF SentViews
    <3>2. PICK m \in newViews : m.from = r /\ m.view = v
      BY <3>1 DEF IInv, SentWasAsked, Askers
    <3>3. \A u \in 1 .. (v - 1) : IsQuorum(Askers(u))
      BY <3>2 DEF IInv, AskedFromBackedView
    <3>4. TcBacked(lastTc[r])
      BY DEF IInv, TcsBacked
    <3>. QED  BY <3>3, <3>4 DEF NewNewView
  <2>. QED  BY <1>0, <2>1, <2>2, <2>3, <2>4, QuietStepKeeps
<1>6. ASSUME NEW r \in Replica, NEW v \in View, NEW q0 \in HighQc, SyncProof(r, v, q0) PROVE IInv'
  <2>1. PICK s \in Replica : view[s] >= v
    BY <1>6 DEF SyncProof
  <2>2. view' = [view EXCEPT ![r] = v] /\ UNCHANGED <<nvMap, lastTc, newViews>>
    BY <1>6 DEF SyncProof, ChangeViewTo
  <2>3. ASSUME NEW q \in Replica, NEW u \in 1 .. view'[q] PROVE IsQuorum(Askers(u))
    <3>1. view[s] \in Nat /\ view[q] \in Nat /\ v \in Nat
      BY <1>0, ViewType DEF TypeOK
    <3>2. u \in 1 .. view[q] \/ u \in 1 .. v
      BY <1>0, <2>2 DEF TypeOK
    <3>3. u \in 1 .. v => u \in 1 .. view[s]
      BY <2>1, <3>1
    <3>. QED  BY <3>2, <3>3 DEF IInv, EveryViewBacked
  <2>4. EveryViewBacked'
    BY <2>2, <2>3 DEF EveryViewBacked, Askers
  <2>. QED  BY <1>0, <2>2, <2>4, QuietStepKeeps
<1>7. ASSUME NEW r \in Replica, NEW q \in HighQc, UpdateHighQc(r, q) PROVE IInv'
  <2>1. EveryViewBacked'
    BY <1>0, <1>7, SameViewsBacked DEF UpdateHighQc
  <2>. QED  BY <1>0, <1>7, <2>1, QuietStepKeeps DEF UpdateHighQc
<1>. QED  BY <1>1, <1>2, <1>3, <1>4, <1>5, <1>6, <1>7 DEF Next

-----------------------------------------------------------------------------
(* Theorems                                                                *)

\* The invariant holds in every behaviour of the pacemaker.
THEOREM Invariance == Spec => []IInv
BY InitIInv, NextIInv, PTL DEF Spec

\* The variables keep their types.
THEOREM TypeCorrect == Spec => []TypeOK
BY Invariance, PTL DEF IInv

\* A replica is only ever in a view that a quorum asked for, as is every view
\* before it, for any number of replicas (XbftLiveness.cpp:63, 102, 116, 142).
THEOREM ViewsBacked == Spec => []EveryViewBacked
BY Invariance, PTL DEF IInv

\* Every certificate is backed by a quorum that asked for its view and passes
\* the receiver's check (XbftTc.cpp:36), so a late replica can always follow it.
THEOREM TcsSound == Spec => []TcSound
<1>1. IInv => TcSound
  <2>. SUFFICES ASSUME IInv,
                      NEW tc \in {lastTc[r] : r \in Replica} \cup {m.lastTc : m \in newViews},
                      tc # NoTc
               PROVE  IsValid(tc) /\ tc.signers \subseteq Askers(tc.view)
    BY DEF TcSound
  <2>1. TcBacked(tc)
    BY DEF IInv, TcsBacked
  <2>2. tc.signers \in SUBSET Replica
    BY DEF IInv, TypeOK, Tc, NewViewMsg
  <2>3. tc.signers \cap Replica = tc.signers
    BY <2>2
  <2>. QED  BY <2>1, <2>3 DEF TcBacked, IsValid
<1>. QED  BY <1>1, Invariance, PTL

\* A view never goes back, whatever the order of messages and proofs.
THEOREM ViewsAdvance == Spec => ViewsOnlyAdvance
<1>1. TypeOK /\ [Next]_vars => [\A r \in Replica : view'[r] >= view[r]]_vars
  <2>. SUFFICES ASSUME TypeOK, Next, NEW q \in Replica PROVE view'[q] >= view[q]
    BY DEF vars
  <2>0. view \in [Replica -> View] /\ \A r \in Replica : view[r] \in Nat
    BY ViewType DEF TypeOK
  <2>1. ASSUME NEW r \in Replica, NEW m \in NewViewMsg, NEW selfMsg \in BOOLEAN,
               OnNewView(r, m, selfMsg)
        PROVE  view'[q] >= view[q]
    <3>1. m.view \in Nat /\ m.lastTc.view \in Nat
      BY ViewType DEF NewViewMsg, Tc
    <3>2. CatchesUp(r, m) => m.lastTc.view > view[r]
      BY DEF CatchesUp, TcAhead
    <3>3. Completes(r, m) => m.view > view[r]
      BY <2>0, <3>1, <3>2 DEF Completes, Adds, ViewAfterTc
    <3>4. \/ view' = view
          \/ CatchesUp(r, m) /\ view' = [view EXCEPT ![r] = m.lastTc.view]
          \/ Completes(r, m) /\ view' = [view EXCEPT ![r] = m.view]
      BY <2>1 DEF OnNewView, ChangeViewTo
    <3>. QED  BY <2>0, <3>1, <3>2, <3>3, <3>4
  <2>2. ASSUME NEW r \in Replica, RotateSend(r) PROVE view'[q] >= view[q]
    <3>1. view[r] + 1 \in View
      BY <2>0, <2>2, PaceMakerAssumption DEF RotateSend, View
    <3>2. NewNewView(r, view[r] + 1) \in NewViewMsg
      BY <3>1, NewNewViewType
    <3>3. PICK m \in NewViewMsg : m = NewNewView(r, view[r] + 1)
      BY <3>2
    <3>. QED  BY <2>1, <2>2, <3>3 DEF RotateSend
  <2>3. ASSUME NEW r \in Replica, NEW m \in newViews, RecvNewView(r, m) PROVE view'[q] >= view[q]
    BY <2>1, <2>3 DEF RecvNewView, TypeOK
  <2>4. ASSUME NEW r \in Replica, NEW v \in View, NEW q0 \in HighQc, SyncProof(r, v, q0) PROVE view'[q] >= view[q]
    BY <2>0, <2>4 DEF SyncProof, ChangeViewTo
  <2>5. ASSUME NEW r \in Replica, RotateBegin(r) \/ OnTimeout(r) PROVE view'[q] >= view[q]
    <3>1. view' = view
      BY <2>5 DEF RotateBegin, OnTimeout
    <3>. QED  BY <2>0, <3>1
  <2>6. ASSUME NEW r \in Replica, NEW c \in HighQc, UpdateHighQc(r, c) PROVE view'[q] >= view[q]
    BY <2>0, <2>6 DEF UpdateHighQc
  <2>. QED  BY <2>2, <2>3, <2>4, <2>5, <2>6 DEF Next
<1>. QED  BY <1>1, TypeCorrect, PTL DEF Spec, ViewsOnlyAdvance

-----------------------------------------------------------------------------
(* The highest certificate survives a view change                          *)

\* A set of entries that is finite and not empty has a best one by GetHighQc's
\* order: one that the fewest entries are better than.
LEMMA BestEntryExists ==
  ASSUME NEW S \in SUBSET NvEntry, IsFiniteSet(S), S # {}
  PROVE  \E e \in S : \A f \in S :
           \/ e.high.sequence > f.high.sequence
           \/ e.high.sequence = f.high.sequence /\ e.from <= f.from
<1>. DEFINE Ahead(f, e) == \/ f.high.sequence > e.high.sequence
                           \/ f.high.sequence = e.high.sequence /\ f.from < e.from
<1>. DEFINE Rank(e) == Cardinality({f \in S : Ahead(f, e)})
<1>1. \A e \in S : e.high.sequence \in Nat /\ e.from \in Int
  BY PaceMakerAssumption DEF NvEntry, Replica
<1>2. \A e \in S : Rank(e) \in Nat
  BY FS_Subset, FS_CardinalityType
<1>3. PICK n \in {Rank(e) : e \in S} : \A k \in {Rank(e) : e \in S} : ~ (k < n)
  <2>. DEFINE ranks == {Rank(e) : e \in S}
  <2>1. ranks \subseteq Nat /\ ranks # {}
    BY <1>2
  <2>. HIDE DEF ranks
  <2>2. \E x \in ranks : \A y \in ranks : ~ (<<y, x>> \in OpToRel(<, Nat))
    BY <2>1, NatLessThanWellFounded, WFMin
  <2>. QED  BY <2>1, <2>2 DEF OpToRel, ranks
<1>4. PICK e \in S : n = Rank(e)
  BY <1>3
<1>5. ASSUME NEW f \in S, Ahead(f, e) PROVE FALSE
  <2>. DEFINE overF == {g \in S : Ahead(g, f)}
  <2>. DEFINE overE == {g \in S : Ahead(g, e)}
  <2>1. overF \subseteq overE /\ f \in overE /\ f \notin overF
    BY <1>1, <1>5
  <2>2. IsFiniteSet(overE)
    BY FS_Subset
  <2>3. Rank(f) = Cardinality(overF) /\ Rank(e) = Cardinality(overE)
    OBVIOUS
  <2>4. Rank(f) \in Nat /\ Rank(e) \in Nat /\ ~ (Rank(f) < Rank(e))
    BY <1>2, <1>3, <1>4
  <2>. HIDE DEF overF, overE, Rank
  <2>5. Cardinality(overF) <= Cardinality(overE) /\ Cardinality(overF) # Cardinality(overE)
    BY <2>1, <2>2, FS_Subset
  <2>. QED  BY <2>3, <2>4, <2>5
<1>6. \A f \in S : ~ Ahead(f, e)
  BY <1>5
<1>7. \A f \in S : \/ e.high.sequence > f.high.sequence
                   \/ e.high.sequence = f.high.sequence /\ e.from <= f.from
  <2>. SUFFICES ASSUME NEW f \in S
               PROVE  \/ e.high.sequence > f.high.sequence
                      \/ e.high.sequence = f.high.sequence /\ e.from <= f.from
    OBVIOUS
  <2>1. /\ e.high.sequence \in Nat /\ e.from \in Int
        /\ f.high.sequence \in Nat /\ f.from \in Int
    BY <1>1
  <2>2. /\ ~ (f.high.sequence > e.high.sequence)
        /\ f.high.sequence = e.high.sequence => ~ (f.from < e.from)
    BY <1>6
  <2>. HIDE DEF Ahead, Rank
  <2>. QED  BY <2>1, <2>2
<1>. QED  BY <1>7

\* GetHighQc returns a certificate as high as any of the entries'.
LEMMA GetHighQcIsHighest ==
  ASSUME NEW S \in SUBSET NvEntry, IsFiniteSet(S), NEW e \in S
  PROVE  /\ GetHighQc(S) \in HighQc
         /\ GetHighQc(S).sequence >= e.high.sequence
<1>. DEFINE better(x, y) == \/ x.high.sequence > y.high.sequence
                            \/ /\ x.high.sequence = y.high.sequence
                               /\ x.from <= y.from
<1>. DEFINE best == CHOOSE x \in S : \A y \in S : better(x, y)
<1>1. \E x \in S : \A y \in S : better(x, y)
  BY BestEntryExists
<1>2. best \in S /\ \A y \in S : better(best, y)
  BY <1>1
<1>3. /\ best.high \in HighQc /\ best.high.sequence \in Nat
      /\ e.high.sequence \in Nat
  BY <1>2, PaceMakerAssumption DEF NvEntry
<1>4. best.high.sequence >= e.high.sequence
  BY <1>2, <1>3
<1>5. GetHighQc(S) = IF best.high.sequence > 0 THEN best.high ELSE NoQc
  BY DEF GetHighQc
<1>. HIDE DEF best
<1>. QED  BY <1>3, <1>4, <1>5, PaceMakerAssumption

\* The certificate a replica changes its view with is at least as high as what
\* every replica of some quorum reported in each NEWVIEW it sent for the view
\* (XbftLiveness.cpp:147, XbftNvInstance.cpp:96).
THEOREM HighQcKept == Spec => []HighQcSurvives
<1>1. IInv => HighQcSurvives
  <2>. SUFFICES ASSUME IInv, NEW v \in 1 .. (MaxView + 1), NEW q \in HighQc,
                      NEW reporters,
                      reporters = {r \in Askers(v) :
                        \A m \in {n \in newViews : n.from = r /\ n.view = v} :
                          m.high.sequence >= q.sequence},
                      IsQuorum(reporters),
                      NEW r \in Replica, nvMap[r][v].complete
               PROVE  GetHighQc(nvMap[r][v].newViewProto).sequence >= q.sequence
    BY DEF HighQcSurvives
  <2>. DEFINE entries == nvMap[r][v].newViewProto
  <2>1. v \in View /\ TypeOK
    BY PaceMakerAssumption DEF View, IInv
  <2>2. entries \in SUBSET NvEntry /\ IsFiniteSet(entries)
    BY <2>1 DEF IInv, TypeOK, NvInstance, EntriesFinite
  <2>3. IsQuorum(Voters(entries)) /\ Voters(entries) \in SUBSET Replica
    BY <2>1, <2>2, VotersType DEF IInv, CompleteOnQuorum
  <2>4. reporters \in SUBSET Replica
    BY <2>1, AskersType
  <2>5. PICK s \in Replica : s \in Voters(entries) /\ s \in reporters
    BY <2>3, <2>4, QuorumsMeet
  <2>6. PICK e \in entries : e.from = s
    BY <2>5 DEF Voters
  <2>7. PICK m \in newViews : m.from = s /\ m.view = v /\ m.high = e.high
    BY <2>1, <2>6 DEF IInv, EntriesWereSent
  <2>8. e.high.sequence >= q.sequence
    BY <2>5, <2>7
  <2>9. GetHighQc(entries).sequence >= e.high.sequence
    BY <2>2, <2>6, GetHighQcIsHighest
  <2>10. e.high.sequence \in Nat /\ q.sequence \in Nat
    BY <2>2, <2>6, PaceMakerAssumption DEF NvEntry
  <2>11. GetHighQc(entries) \in HighQc
    BY <2>2, <2>6, GetHighQcIsHighest
  <2>12. GetHighQc(entries).sequence \in Nat
    BY <2>11, PaceMakerAssumption
  <2>. HIDE DEF entries
  <2>13. GetHighQc(entries).sequence >= q.sequence
    BY <2>8, <2>9, <2>10, <2>12
  <2>. QED  BY <2>13 DEF entries
<1>. QED  BY <1>1, Invariance, PTL
=============================================================================
