------------------------------ MODULE MCSystem ------------------------------
(* An instance of the engine small enough for TLC.                           *)
EXTENDS XbftSystem
=============================================================================
