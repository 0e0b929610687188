------------------------------ MODULE XbftMsg ------------------------------
(***************************************************************************)
(* The messages of the engine and the checks a replica makes before it      *)
(* looks at one: src/lib/engine/XbftMsg.cpp, and the functions of            *)
(* XbftConsensus.cpp and XbftLiveness.cpp that make messages. A signature    *)
(* is who signed and what.                                                 *)
(***************************************************************************)
EXTENDS XbftMembers

\* The keys of the application (KeyInterface, KeyToolInterface): the sample's, of
\* test/sample/common/Ed25519.cpp, with signatures nobody else can make. An address
\* is of one key.
Sign(a, text) == [by |-> a, text |-> text]
Verify(text, signature) == signature.text = text
PublicKeyToAddr(signature) == signature.by

\* A message is signed as a whole by who sends it.
Env(a, xbft) == [xbft |-> xbft, signature |-> Sign(a, xbft)]

\* What a VOTE is for, and a certificate of.
QcValue(h, n) == [node |-> h, view |-> n.view, sequence |-> n.sequence]

newPropose(a, id, h, n) == Env(a, [type |-> "PROPOSE", id |-> id, content |-> QcValue(h, n)])

\* The vote itself is signed too: that signature is what a certificate holds.
newVote(a, id, content) ==
  Env(a, [type |-> "VOTE", id |-> id, content |-> content, signature |-> Sign(a, content)])

newDecide(a, id, qc) == Env(a, [type |-> "DECIDE", id |-> id, qc |-> qc])

\* GetBasicInfo, of the messages that XbftConsensus takes.
Content(m) == IF m.xbft.type = "DECIDE" THEN m.xbft.qc.content ELSE m.xbft.content
ReplicaId(m) == m.xbft.id
ReplicaAddress(m) == PublicKeyToAddr(m.signature)

\* Who signed the message is a validator, and has the id that the message gives.
CheckSender(vs, m) ==
  /\ QueryId(vs, ReplicaAddress(m)) # -1
  /\ QueryId(vs, ReplicaAddress(m)) = ReplicaId(m)

\* The parts of a message are there; a VOTE's own signature is checked here.
CheckParts(m) ==
  m.xbft.type = "VOTE" => Verify(m.xbft.content, m.xbft.signature)

CheckMsgItem(vs, m) == CheckSender(vs, m) /\ CheckParts(m) /\ Verify(m.xbft, m.signature)

\* The validators of vs whose signatures in a certificate are good.
ValidSigners(vs, qc) ==
  {PublicKeyToAddr(sig) :
     sig \in {s \in qc.signatures : QueryId(vs, PublicKeyToAddr(s)) # -1 /\ Verify(qc.content, s)}}

CheckQc(vs, qc) == DOMAIN vs = {} \/ Cardinality(ValidSigners(vs, qc)) >= QuorumSize(vs)
=============================================================================
