-------------------------- MODULE MCSnapshotStage --------------------------
(* Instances of SnapshotStage for TLC. *)
EXTENDS SnapshotStage, TLC

CONSTANTS w1, w2, c1, c2

OneInvocation  == {w1}
TwoInvocations == {w1, w2}
TwoCalls       == {c1, c2}

\* Invocations and helper slots are interchangeable.
Interchangeable == Permutations(TwoInvocations) \cup Permutations(TwoCalls)
=============================================================================
