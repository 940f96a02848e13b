-------------------------- MODULE MCPlanAuthority --------------------------
(* Instances of PlanAuthority for TLC. *)
EXTENDS PlanAuthority, TLC

CONSTANTS r1, r2, c1, c2, q1, q2, h1, h2, p0, p1, p2

OneResource   == {r1}
TwoResources  == {r1, r2}
OneCaller     == {c1}
TwoCallers    == {c1, c2}
OneRequest    == {q1}
TwoRequests   == {q1, q2}
OneHolder     == {h1}
TwoHolders    == {h1, h2}
NoHolder      == {}
TwoPlans      == {p0, p1}
ThreePlans    == {p0, p1, p2}

\* Within each of these sets the members are interchangeable.
PlanSymmetry  == Permutations({p1, p2}) \cup Permutations(TwoRequests)
FenceSymmetry == Permutations(TwoResources) \cup Permutations(TwoCallers)
                     \cup Permutations(TwoRequests) \cup Permutations(TwoHolders)
=============================================================================
