----------------------------- MODULE MCSample -----------------------------
(* The threads of the sample with queues small enough to be full. Only the     *)
(* queue of the messages to send has more than one producer.                 *)
EXTENDS XbftSample

MCCapacity == [k \in Queue |-> IF k = "m_sendMsgQueue" THEN 2 ELSE 1]
=============================================================================
