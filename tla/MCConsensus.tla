---------------------------- MODULE MCConsensus ----------------------------
(* Instances of the consensus small enough for TLC: its constants are all     *)
(* numbers, so the configurations need nothing more.                         *)
EXTENDS XbftConsensus
=============================================================================
