------------------------ MODULE MCOperatorConsole --------------------------
(* Instances of OperatorConsole for TLC. *)
EXTENDS OperatorConsole

CONSTANTS r1, r2, c1, c2, c3
=============================================================================
