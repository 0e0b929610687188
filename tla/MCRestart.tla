----------------------------- MODULE MCRestart -----------------------------
(* An instance of the restarts small enough for TLC.                         *)
EXTENDS XbftRestart
=============================================================================
