---------------------------- MODULE MCPaceMaker ----------------------------
(* Instances of the pacemaker small enough for TLC.                        *)
EXTENDS XbftPaceMaker

\* A NEWVIEW carries no certificate or one of a low or a high sequence.
MCNoQc == [sequence |-> 0]
MCHighQc == {[sequence |-> s] : s \in 0 .. 1}
MCNoHighQc == {MCNoQc}
=============================================================================
