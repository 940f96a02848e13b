-------------------------- MODULE MCMutationStage --------------------------
(* An instance of MutationStage for TLC. *)
EXTENDS MutationStage

CONSTANTS w1, c1, c2, good, bad

OneInvocation == {w1}
TwoCalls      == {c1, c2}
BothEvidence  == {good, bad}
GoodEvidence  == {good}
=============================================================================
