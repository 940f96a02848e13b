--------------------------- MODULE HostOperation ---------------------------
(***************************************************************************)
(* What each stage of a package-update job promises of the one operation   *)
(* it asks of the Proxmox host (a snapshot, a package command, a           *)
(* rollback), whatever journals, leases, runners and retries it takes:     *)
(*                                                                         *)
(*   - the operation only starts once the job is armed for it, and once;   *)
(*   - a job closed without the operation never sees it start;             *)
(*   - a job is confirmed only over an operation that achieved its         *)
(*     purpose, and fails, or keeps a result nobody asks for any more,     *)
(*     only over the outcome that calls for it.                            *)
(*                                                                         *)
(* MutationStage, SnapshotStage and PostMutation implement it.             *)
(***************************************************************************)
VARIABLES
    stage,      \* where the job row has the operation
    effect      \* what the host made of it

Stages  == {"open", "armed", "closed", "confirmed", "failed", "retained"}
Effects == {"none", "started", "achieved", "failed"}

Init == stage = "open" /\ effect = "none"

\* The write-ahead checkpoint.
Arm == stage = "open" /\ stage' = "armed" /\ UNCHANGED effect

\* The job ends, or goes on without the operation, which never started.
Close ==
    /\ stage \in {"open", "armed"} /\ effect = "none"
    /\ stage' = "closed"
    /\ UNCHANGED effect

Start ==
    /\ stage = "armed" /\ effect = "none"
    /\ effect' = "started"
    /\ UNCHANGED stage

Finish ==
    /\ stage = "armed" /\ effect = "started"
    /\ effect' \in {"achieved", "failed"}
    /\ UNCHANGED stage

\* The row records an outcome the host has already reached.
Conclude ==
    /\ stage = "armed"
    /\ \/ effect = "achieved" /\ stage' \in {"confirmed", "retained"}
       \/ effect = "failed" /\ stage' = "failed"
    /\ UNCHANGED effect

Next == Arm \/ Close \/ Start \/ Finish \/ Conclude

Spec == Init /\ [][Next]_<<stage, effect>>
=============================================================================
