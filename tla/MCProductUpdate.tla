--------------------------- MODULE MCProductUpdate ---------------------------
(* Instances of the product updater for TLC.                               *)
EXTENDS ProductUpdate

\* An update of the program and its unit that resets the authority, one of
\* the host's side, and one of the program alone.
PlanReset  == [changed |-> {"app", "unit"}, reset |-> TRUE]
PlanVenv   == [changed |-> {"app", "venv", "req"}, reset |-> FALSE]
PlanHost   == [changed |-> {"app", "helper", "boundary", "access", "config"}, reset |-> FALSE]
\* The first activation of an old installation replaces almost everything.
PlanFirst  == [changed |-> Artifacts \ {"marker", "boundary"}, reset |-> TRUE]
AllPlans   == {PlanReset, PlanVenv, PlanHost, PlanFirst}
SomePlans  == {PlanReset, PlanVenv, PlanHost}

\* An installation made by this updater, and one from before it.
Updated    == [marker |-> TRUE, route |-> TRUE]
Original   == [marker |-> FALSE, route |-> FALSE]
Both       == {Updated, Original}
OnlyUpdated == {Updated}
============================================================================
