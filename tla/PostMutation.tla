---------------------------- MODULE PostMutation ----------------------------
(***************************************************************************)
(* What becomes of a package-update job once its package command is armed: *)
(* the worker's health evaluation, which ends in one verdict, and the      *)
(* operator's rollback to the job's own snapshot, which may overtake it at *)
(* any checkpoint.  On the host the rollback has a lease, a journal, a     *)
(* detached runner and a PVE task like the snapshot stage, but no witness  *)
(* besides the identity of its task: the runner learns it only when the    *)
(* rollback is over, and without it nothing is ever concluded.             *)
(***************************************************************************)
EXTENDS Integers

CONSTANTS
    Invocations,        \* orchestrator invocations that may be in flight
    Calls,              \* slots for rollback helpers alive on the host
    MaxFaults,          \* bound: crashes, reboots, timeouts, failed reads
    MaxMoves,           \* bound: operator's requests, changes to the resource
    None,               \* "no invocation / no holder / no answer yet"
    Runner              \* the detached runner, as a lease holder

VARIABLES
    status, checkpoint, verdict, task,  \* the job's row
    context,                            \* the resource, as the store knows it
    live, listing,                      \* guest on its node, its snapshots
    request,                            \* a rollback request and its listing
    writer,                             \* invocation inside BEGIN IMMEDIATE
    pc, reply, upid,                    \* the orchestrator invocations
    proven,                             \* those with durable in-flight proof
    sealTried,                          \* those that may not seal again
    op, caller, step, answer, found,    \* helper processes on the host
    phase, jtask, capture,              \* the operation's journal and capture
    lease, runner,                      \* flock and detached runner
    pveTask, submissions,               \* PVE: the task, tasks started
    faults, moves                       \* so far, against their bounds

jobRow  == <<status, checkpoint, verdict, task>>
guest   == <<live, listing>>
world   == <<context, guest, request>>
inv     == <<pc, reply, upid, proven, sealTried>>
calls   == <<op, caller, step, answer, found>>
journal == <<phase, jtask, capture>>
pve     == <<pveTask, submissions>>
host    == <<journal, lease, runner, pve>>
bounds  == <<faults, moves>>
vars    == <<jobRow, world, writer, inv, calls, host, bounds>>

-----------------------------------------------------------------------------

Statuses    == {"active", "succeeded", "rolled_back", "blocked"}

\* The checkpoints a rollback may be armed from; none is a success claim.
EligibleCheckpoints == {"mutation_may_have_started", "mutation_completed",
                        "health_started", "health_completed"}
Checkpoints == EligibleCheckpoints \cup {"rollback_may_have_started",
                                         "rollback_completed"}

\* _post_mutation_job_context_is_current: a node that is away comes back, a
\* resource that moved or was replaced is never the job's again.
Contexts == {"current", "unavailable", "stale"}

\* The job's snapshot in a PVE listing: there and parent of the current state,
\* there with a newer one taken since, or deleted.
Listings == {"own", "superseded", "gone"}

\* Journal phases; "absent" is a journal without a record.
SubmissionPermitted == {"absent", "intent"}
PostSubmission      == {"submitted", "task_known", "terminal"}
Phases == SubmissionPermitted \cup PostSubmission \cup {"sealed_not_submitted"}

\* PVE names a task by its UPID; here the how-manieth submission it was.
NoTask == 0

Verdicts == {"passed", "failed"}

\* What the host-control channel makes of an answer:
\*   sealed, not_submitted   NOT_SUBMITTED with and without the durable seal
\*   unsubmitted             UNCERTAIN over an absent or intent journal
\*   submitted, task_known   UNCERTAIN, but the operation is in flight
\*   in_progress             the lease is held, the journal was not read
\*   stopped, error          UNCERTAIN, nothing to wait for
\*   failed                  the task ended in error
\*   completed, unproven     the task ended well, and the listing taken then
\*                           shows the job's snapshot as parent, or does not
Replies == {"sealed", "not_submitted", "unsubmitted", "submitted",
            "task_known", "in_progress", "stopped", "error", "failed",
            "completed", "unproven"} \cup Verdicts

ASSUME PostMutationAssumption ==
    /\ MaxFaults \in Nat /\ MaxMoves \in Nat
    /\ None \notin Invocations \cup Calls \cup Replies \cup Listings
    /\ Runner \notin Calls /\ Runner # None

Ops == {"inspect", "submit", "seal"}

WaitingPcs == {"inspecting", "submitting", "sealing", "polling"}
TxnPcs     == {"health", "verdict", "submit", "seal", "persist", "apply",
               "complete"}
Pcs        == {"idle", "prove", "probing", "reprove", "inspect"}
                  \cup WaitingPcs \cup TxnPcs

\* "task" and "listing" are reads under the lease; from "prepared" on the
\* runner owns it, and the last two write the journal without it.
HelperSteps == {"free", "sent", "leased", "task", "listing", "intent",
                "prepared", "journaled", "released", "promote", "rewrite",
                "done"}

RunnerStates == {"none", "ready", "abandoned", "released", "running",
                 "captured"}

-----------------------------------------------------------------------------
(* Backend side: an invocation and its calls.                              *)

Active == status = "active"
Armed  == Active /\ checkpoint = "rollback_may_have_started"

\* Invocation w goes on at p, with reply r and the UPID t it carries.
Continue(w, p, r, t) ==
    /\ pc' = [pc EXCEPT ![w] = p]
    /\ reply' = [reply EXCEPT ![w] = r]
    /\ upid' = [upid EXCEPT ![w] = t]

Keep(w, p) == Continue(w, p, reply[w], upid[w])

Goto(w, p) == Continue(w, p, None, NoTask)

Same == UNCHANGED <<proven, sealTried>>

\* The invocation ends.  Unknown health, an uncertain or a failed rollback
\* only append an event to the job, which stays as it is.
Stop(w) ==
    /\ Goto(w, "idle")
    /\ proven' = proven \ {w}
    /\ sealTried' = sealTried \ {w}

\* Start a helper process for invocation w, which waits for its answer at p.
Send(w, p, o) ==
    /\ Goto(w, p)
    /\ \E c \in Calls :
        /\ step[c] = "free"
        /\ op' = [op EXCEPT ![c] = o]
        /\ caller' = [caller EXCEPT ![c] = w]
        /\ step' = [step EXCEPT ![c] = "sent"]
        /\ UNCHANGED <<answer, found>>

\* The worker reads the job afresh and runs the one stage its checkpoint
\* calls for; a recorded task is proof, from the start, of one in flight.
StartCycle(w) ==
    /\ pc[w] = "idle"
    /\ \/ /\ Armed
          /\ Goto(w, "inspect")
          /\ proven' = IF task # NoTask THEN proven \cup {w} ELSE proven
          /\ UNCHANGED sealTried
       \/ /\ Active /\ checkpoint \in {"mutation_completed", "health_started"}
          /\ Goto(w, "health")
          /\ Same
    /\ UNCHANGED <<jobRow, world, writer, calls, host, bounds>>

-----------------------------------------------------------------------------
(* Backend side: health.                                                   *)

StartHealth(w) ==
    /\ pc[w] = "health" /\ writer = None
    /\ \/ /\ Active /\ checkpoint \in {"mutation_completed", "health_started"}
          /\ checkpoint' = "health_started"
          /\ Goto(w, "prove")
          /\ Same
       \/ /\ ~(Active /\ checkpoint \in {"mutation_completed", "health_started"})
          /\ Stop(w)
          /\ UNCHANGED checkpoint
    /\ UNCHANGED <<status, verdict, task, world, writer, calls, host, bounds>>

\* package_update_health_request, before the host is asked and again after.
ProveHealthContext(w) ==
    /\ \/ /\ Active /\ context = "current"
          /\ \/ pc[w] = "prove" /\ Goto(w, "probing")
             \/ pc[w] = "reprove" /\ Keep(w, "verdict")
          /\ Same
       \/ /\ ~(Active /\ context = "current")
          /\ pc[w] \in {"prove", "reprove"}
          /\ Stop(w)
    /\ UNCHANGED <<jobRow, world, writer, calls, host, bounds>>

\* One read-only round trip: a decisive verdict, or none.
EvaluateHealth(w) ==
    /\ pc[w] = "probing"
    /\ \/ live /\ \E v \in Verdicts : Continue(w, "reprove", v, NoTask) /\ Same
       \/ Stop(w)
    /\ UNCHANGED <<jobRow, world, writer, calls, host, bounds>>

\* Mutant: a late verdict is recorded whatever has become of the job.
CompleteHealth_Late(w) ==
    /\ pc[w] = "verdict" /\ writer = None
    /\ checkpoint' = IF checkpoint = "health_started" THEN "health_completed"
                     ELSE checkpoint
    /\ verdict' = reply[w]
    /\ status' = IF checkpoint = "health_started" /\ reply[w] = "passed"
                 THEN "succeeded" ELSE status
    /\ Stop(w)
    /\ UNCHANGED <<task, world, writer, calls, host, bounds>>

\* A passed verdict and the job's success are one fact; a failed one leaves
\* the job active.
CompleteHealth(w) ==
    /\ pc[w] = "verdict" /\ writer = None
    /\ \/ /\ Active /\ checkpoint = "health_started" /\ context = "current"
          /\ checkpoint' = "health_completed"
          /\ verdict' = reply[w]
          /\ status' = IF reply[w] = "passed" THEN "succeeded" ELSE status
       \/ /\ ~(Active /\ checkpoint = "health_started" /\ context = "current")
          /\ UNCHANGED <<status, checkpoint, verdict>>
    /\ Stop(w)
    /\ UNCHANGED <<task, world, writer, calls, host, bounds>>

-----------------------------------------------------------------------------
(* Backend side: the operator's request.                                   *)

\* The route obtains a fresh listing from the snapshot helper first.
RequestRollback ==
    /\ moves < MaxMoves /\ moves' = moves + 1
    /\ request = None /\ Active /\ live
    /\ request' = listing
    /\ UNCHANGED <<jobRow, context, guest, writer, inv, calls, host, faults>>

Armable ==
    /\ Active /\ checkpoint \in EligibleCheckpoints
    /\ checkpoint = "health_completed" => verdict = "failed"
    /\ context = "current"
    /\ request \in {"own", "superseded"}

\* arm_package_update_rollback: proof and write-ahead boundary in one
\* transaction, over a listing that may be out of date by now.  A writer lock
\* that stays busy refuses the request.
ArmRollback ==
    /\ request # None
    /\ request' = None
    /\ checkpoint' = IF Armable /\ writer = None
                     THEN "rollback_may_have_started" ELSE checkpoint
    /\ UNCHANGED <<status, verdict, task, context, guest, writer, inv, calls,
                   host, bounds>>

-----------------------------------------------------------------------------
(* Backend side: the rollback, up to its submission or its seal.           *)

BeginInspection(w) ==
    /\ pc[w] = "inspect"
    /\ Send(w, "inspecting", "inspect")
    /\ Same
    /\ UNCHANGED <<jobRow, world, writer, host, bounds>>

InspectionReturned(w) ==
    /\ pc[w] = "inspecting" /\ reply[w] # None
    /\ \/ reply[w] \in {"sealed", "not_submitted"} /\ Goto(w, "seal")
       \/ reply[w] = "unsubmitted" /\ Goto(w, "submit")
       \/ /\ reply[w] \notin {"sealed", "not_submitted", "unsubmitted"}
          /\ Keep(w, "persist")
    /\ Same
    /\ UNCHANGED <<jobRow, world, writer, calls, host, bounds>>

\* Mutant: the context proof commits before the host is called.
SubmitIfCurrent_LockDropped(w) ==
    /\ pc[w] = "submit" /\ writer = None
    /\ Armed /\ context = "current"
    /\ Send(w, "submitting", "submit")
    /\ Same
    /\ UNCHANGED <<jobRow, world, writer, host, bounds>>

\* Mutant: a refused submission is only reported as uncertain.
SubmitIfCurrent_NoSeal(w) ==
    /\ pc[w] = "submit" /\ writer = None
    /\ \/ /\ Armed /\ context = "current"
          /\ writer' = w
          /\ Send(w, "submitting", "submit")
          /\ Same
       \/ /\ ~(Armed /\ context = "current")
          /\ Stop(w)
          /\ UNCHANGED <<writer, calls>>
    /\ UNCHANGED <<jobRow, world, host, bounds>>

\* execute_rollback_submission_if_current holds the writer lock over the
\* host call; a context that is not current refuses before it, and seals.
SubmitIfCurrent(w) ==
    /\ pc[w] = "submit" /\ writer = None
    /\ \/ /\ Armed /\ context = "current"
          /\ writer' = w
          /\ Send(w, "submitting", "submit")
          /\ Same
       \/ /\ Armed /\ context # "current"
          /\ Goto(w, "seal")
          /\ Same
          /\ UNCHANGED <<writer, calls>>
       \/ /\ ~Armed
          /\ Stop(w)
          /\ UNCHANGED <<writer, calls>>
    /\ UNCHANGED <<jobRow, world, host, bounds>>

SubmissionReturned(w) ==
    /\ pc[w] = "submitting" /\ reply[w] # None
    /\ writer' = None
    /\ Keep(w, "persist")
    /\ Same
    /\ UNCHANGED <<jobRow, world, calls, host, bounds>>

\* Mutant: an unsubmitted inspection is taken as proof, without the seal.
BeginSeal_TrustsInspection(w) ==
    /\ pc[w] = "seal" /\ writer = None
    /\ status' = IF Armed /\ task = NoTask THEN "blocked" ELSE status
    /\ Stop(w)
    /\ UNCHANGED <<checkpoint, verdict, task, world, writer, calls, host,
                   bounds>>

\* resolve_pre_rollback_block: a job with a recorded task was submitted.
BeginSeal(w) ==
    /\ pc[w] = "seal" /\ writer = None
    /\ \/ /\ Armed /\ task = NoTask
          /\ writer' = w
          /\ Send(w, "sealing", "seal")
          /\ sealTried' = sealTried \cup {w}
          /\ UNCHANGED proven
       \/ /\ ~(Armed /\ task = NoTask)
          /\ Stop(w)
          /\ UNCHANGED <<writer, calls>>
    /\ UNCHANGED <<jobRow, world, host, bounds>>

SealReturned(w) ==
    /\ pc[w] = "sealing" /\ reply[w] # None
    /\ writer' = None
    /\ \/ /\ reply[w] = "sealed"
          /\ status' = "blocked"
          /\ Stop(w)
       \/ /\ reply[w] # "sealed"
          /\ Keep(w, "persist")
          /\ Same
          /\ UNCHANGED status
    /\ UNCHANGED <<checkpoint, verdict, task, world, calls, host, bounds>>

-----------------------------------------------------------------------------
(* Backend side: the known task, polling, and applying a result.           *)

\* record_package_update_rollback_task is write-once and only while armed.
TaskRecordable(w) == Armed /\ task \in {NoTask, upid[w]}

PersistConflict(w) == upid[w] # NoTask /\ ~TaskRecordable(w)

PersistKnownTask(w) == task' = IF upid[w] # NoTask THEN upid[w] ELSE task

\* _proven_in_flight and _pending, for the reply in hand: a held lease keeps
\* whatever proof there is, an in-flight phase is proof itself.
StillProven(w) ==
    \/ reply[w] \in {"submitted", "task_known"}
    \/ reply[w] = "in_progress" /\ w \in proven

UpdateProof(w) ==
    /\ proven' = IF StillProven(w) THEN proven \cup {w} ELSE proven \ {w}
    /\ UNCHANGED sealTried

\* _finish: the task identity is durable before the first poll.
FinishResult(w) ==
    /\ pc[w] = "persist" /\ writer = None
    /\ \/ PersistConflict(w) /\ Stop(w) /\ UNCHANGED <<task, calls>>
       \/ /\ ~PersistConflict(w)
          /\ PersistKnownTask(w)
          /\ UpdateProof(w)
          /\ \/ StillProven(w) /\ Send(w, "polling", "inspect")
             \/ ~StillProven(w) /\ Keep(w, "apply") /\ UNCHANGED calls
    /\ UNCHANGED <<status, checkpoint, verdict, world, writer, host, bounds>>

\* Each round of _poll_until_resolved, up to its deadline.
PollReturned(w) ==
    /\ pc[w] = "polling" /\ reply[w] # None
    /\ UpdateProof(w)
    /\ \/ StillProven(w) /\ Send(w, "polling", "inspect")
       \/ Keep(w, "apply") /\ UNCHANGED calls
    /\ UNCHANGED <<jobRow, world, writer, host, bounds>>

\* _apply_host_result, up to the transaction its outcome calls for.
ApplyResult(w) ==
    /\ pc[w] = "apply" /\ writer = None
    /\ \/ PersistConflict(w) /\ Stop(w) /\ UNCHANGED task
       \/ /\ ~PersistConflict(w)
          /\ PersistKnownTask(w)
          /\ \/ /\ reply[w] \in {"sealed", "not_submitted"} /\ w \notin sealTried
                /\ Goto(w, "seal") /\ Same
             \/ reply[w] = "completed" /\ Keep(w, "complete") /\ Same
             \/ /\ reply[w] # "completed"
                /\ reply[w] \in {"sealed", "not_submitted"} => w \in sealTried
                /\ Stop(w)
    /\ UNCHANGED <<status, checkpoint, verdict, world, writer, calls, host,
                   bounds>>

\* Mutant: completion asks for the resource context again.
CompleteRollback_NeedsContext(w) ==
    /\ pc[w] = "complete" /\ writer = None
    /\ \/ /\ Armed /\ task # NoTask /\ context = "current"
          /\ checkpoint' = "rollback_completed" /\ status' = "rolled_back"
       \/ /\ ~(Armed /\ task # NoTask /\ context = "current")
          /\ UNCHANGED <<status, checkpoint>>
    /\ Stop(w)
    /\ UNCHANGED <<verdict, task, world, writer, calls, host, bounds>>

\* complete_package_update_rollback, over a listing that proves it.
CompleteRollback(w) ==
    /\ pc[w] = "complete" /\ writer = None
    /\ \/ /\ Armed /\ task # NoTask
          /\ checkpoint' = "rollback_completed" /\ status' = "rolled_back"
       \/ /\ ~(Armed /\ task # NoTask)
          /\ UNCHANGED <<status, checkpoint>>
    /\ Stop(w)
    /\ UNCHANGED <<verdict, task, world, writer, calls, host, bounds>>

Fault == faults < MaxFaults /\ faults' = faults + 1

\* A writer lock that stays busy past its timeout ends the invocation.  The
\* holder is another invocation, or (a fault) some other writer of the backend.
WriterBusy(w) ==
    /\ pc[w] \in TxnPcs
    /\ IF writer = None THEN Fault ELSE UNCHANGED faults
    /\ Stop(w)
    /\ UNCHANGED <<jobRow, world, writer, calls, host, moves>>

-----------------------------------------------------------------------------
(* Host side: a helper under the lease, reading its journal and its task.  *)

\* Helper c goes on at s, with the UPID t it has found.
Advance(c, s, t) ==
    /\ step' = [step EXCEPT ![c] = s]
    /\ found' = [found EXCEPT ![c] = t]
    /\ UNCHANGED <<op, caller, answer>>

\* Answer r, with UPID t, and nothing left to do but deliver it.
Finish(c, r, t) ==
    /\ step' = [step EXCEPT ![c] = "done"]
    /\ answer' = [answer EXCEPT ![c] = r]
    /\ found' = [found EXCEPT ![c] = t]
    /\ UNCHANGED <<op, caller>>

\* VmidRollbackLease: a non-blocking flock every operation takes first.
AcquireLease(c) ==
    /\ step[c] = "sent"
    /\ \/ lease = None /\ lease' = c /\ Advance(c, "leased", NoTask)
       \/ lease # None /\ UNCHANGED lease /\ Finish(c, "in_progress", NoTask)
    /\ UNCHANGED <<jobRow, world, writer, inv, journal, runner, pve, bounds>>

\* inspect_rollback_state before submission: routing evidence, no PVE read.
InspectJournal(c) ==
    /\ step[c] = "leased" /\ op[c] = "inspect"
    /\ phase \notin PostSubmission
    /\ lease' = None
    /\ Finish(c, IF phase \in SubmissionPermitted THEN "unsubmitted" ELSE "sealed",
              NoTask)
    /\ UNCHANGED <<jobRow, world, writer, inv, journal, runner, pve, bounds>>

\* _promote_completed_capture, under the lease.
Promotable == phase = "submitted" /\ capture # NoTask

\* Mutant: the captured UPID is used up without being journaled.
Promote_NotJournaled ==
    capture' = NoTask /\ UNCHANGED <<phase, jtask>>

Promote ==
    phase' = "task_known" /\ jtask' = capture /\ capture' = NoTask

\* Mutant: a submitted operation without a task is submitted again.
ResolveJournal_Resubmits(c) ==
    /\ step[c] = "leased" /\ op[c] = "submit"
    /\ phase = "submitted" /\ ~Promotable
    /\ Advance(c, "intent", NoTask)
    /\ UNCHANGED <<jobRow, world, writer, inv, host, bounds>>

\* _resolve_post_submission, for an inspection and a repeated submission
\* alike: without a task identity nothing can be said, ever.
ResolveJournal(c) ==
    /\ step[c] = "leased" /\ op[c] \in {"inspect", "submit"}
    /\ \/ /\ Promotable
          /\ Promote
          /\ Advance(c, "task", capture)
          /\ UNCHANGED lease
       \/ /\ phase = "submitted" /\ ~Promotable
          /\ lease' = None
          /\ Finish(c, "submitted", NoTask)
          /\ UNCHANGED journal
       \/ /\ phase \in {"task_known", "terminal"}
          /\ Advance(c, "task", jtask)
          /\ UNCHANGED <<journal, lease>>
    /\ UNCHANGED <<jobRow, world, writer, inv, runner, pve, bounds>>

\* Mutant: a task that has stopped counts as successful, however it ended.
ReadTask_StoppedIsOk(c) ==
    /\ step[c] = "task" /\ pveTask # "running"
    /\ Advance(c, "listing", found[c])
    /\ UNCHANGED <<jobRow, world, writer, inv, host, bounds>>

\* The exact task, read once and classified by PVE's own rule; one that PVE
\* no longer runs and that left no exit status cannot be classified.
ReadTask(c) ==
    /\ step[c] = "task"
    /\ \/ /\ pveTask = "ok"
          /\ Advance(c, "listing", found[c])
          /\ UNCHANGED <<phase, lease>>
       \/ /\ pveTask # "ok"
          /\ lease' = None
          /\ phase' = IF pveTask = "error" THEN "terminal" ELSE phase
          /\ Finish(c, CASE pveTask = "running" -> "task_known"
                         [] pveTask = "error"   -> "failed"
                         [] OTHER               -> "stopped", found[c])
    /\ UNCHANGED <<jobRow, world, writer, inv, jtask, capture, runner, pve,
                   bounds>>

\* The listing is read after the task, and only when that succeeded.
ReadListing(c) ==
    /\ step[c] = "listing"
    /\ lease' = None
    /\ \/ /\ live
          /\ phase' = "terminal"
          /\ Finish(c, IF listing = "own" THEN "completed" ELSE "unproven",
                    found[c])
       \/ ~live /\ UNCHANGED phase /\ Finish(c, "error", NoTask)
    /\ UNCHANGED <<jobRow, world, writer, inv, jtask, capture, runner, pve,
                   bounds>>

\* Either PVE read fails, or the journal write after it.
ReadFails(c) ==
    /\ faults < MaxFaults /\ faults' = faults + 1
    /\ step[c] \in {"task", "listing"}
    /\ lease' = None
    /\ Finish(c, "error", NoTask)
    /\ UNCHANGED <<jobRow, world, writer, inv, journal, runner, pve, moves>>

\* seal_rollback_never_submitted needs no PVE read, so no guest either.
Seal(c) ==
    /\ step[c] = "leased" /\ op[c] = "seal"
    /\ lease' = None
    /\ \/ /\ phase \notin PostSubmission
          /\ phase' = "sealed_not_submitted"
          /\ Finish(c, "sealed", NoTask)
       \/ /\ phase \in PostSubmission
          /\ Finish(c, "error", NoTask)
          /\ UNCHANGED phase
    /\ UNCHANGED <<jobRow, world, writer, inv, jtask, capture, runner, pve,
                   bounds>>

-----------------------------------------------------------------------------
(* Host side: submission.                                                  *)

\* submit_same_job_rollback before submission: the seal forbids it; the live
\* target, the guest's lock and type, and the listing may refuse it; the
\* intent is journaled when they do not.
SubmitPreflight(c) ==
    /\ step[c] = "leased" /\ op[c] = "submit"
    /\ \/ /\ phase \in SubmissionPermitted
          /\ live /\ listing # "gone"
          /\ phase' = "intent"
          /\ Advance(c, "intent", NoTask)
          /\ UNCHANGED lease
       \/ /\ phase \in SubmissionPermitted
          /\ lease' = None
          /\ Finish(c, IF live THEN "not_submitted" ELSE "error", NoTask)
          /\ UNCHANGED phase
       \/ /\ phase = "sealed_not_submitted"
          /\ lease' = None
          /\ Finish(c, "not_submitted", NoTask)
          /\ UNCHANGED phase
    /\ UNCHANGED <<jobRow, world, writer, inv, jtask, capture, runner, pve,
                   bounds>>

\* A runner that holds the lease and awaits release, or none.
SubmitPrepare(c) ==
    /\ step[c] = "intent"
    /\ \/ /\ runner' = "ready" /\ lease' = Runner
          /\ Advance(c, "prepared", NoTask)
       \/ /\ lease' = None
          /\ Finish(c, "not_submitted", NoTask)
          /\ UNCHANGED runner
    /\ UNCHANGED <<jobRow, world, writer, inv, journal, pve, bounds>>

\* The submission is durable before the runner may start.
SubmitJournal(c) ==
    /\ step[c] = "prepared"
    /\ phase' = "submitted"
    /\ Advance(c, "journaled", NoTask)
    /\ UNCHANGED <<jobRow, world, writer, inv, jtask, capture, lease, runner,
                   pve, bounds>>

\* The journal write raises, before or after its rename: the runner is
\* abandoned and the answer claims that nothing was submitted.
SubmitJournalFails(c) ==
    /\ faults < MaxFaults /\ faults' = faults + 1
    /\ step[c] = "prepared"
    /\ phase' \in {phase, "submitted"}
    /\ runner' = "abandoned"
    /\ Finish(c, "not_submitted", NoTask)
    /\ UNCHANGED <<jobRow, world, writer, inv, jtask, capture, lease, pve,
                   moves>>

SubmitRelease(c) ==
    /\ step[c] = "journaled"
    /\ runner' = "released"
    /\ Advance(c, "released", NoTask)
    /\ UNCHANGED <<jobRow, world, writer, inv, journal, lease, pve, bounds>>

\* The launching helper looks for the capture too, without the lease: it
\* reads in one step and writes in two others, the second of them redundant.
SubmitReadCapture(c) ==
    /\ step[c] = "released"
    /\ IF capture = NoTask THEN Finish(c, "submitted", NoTask)
       ELSE Advance(c, "promote", capture)
    /\ UNCHANGED <<jobRow, world, writer, inv, host, bounds>>

SubmitPromote(c) ==
    /\ step[c] = "promote"
    /\ phase' = "task_known" /\ jtask' = found[c] /\ capture' = NoTask
    /\ Advance(c, "rewrite", found[c])
    /\ UNCHANGED <<jobRow, world, writer, inv, lease, runner, pve, bounds>>

SubmitRewrite(c) ==
    /\ step[c] = "rewrite"
    /\ phase' = "task_known" /\ jtask' = found[c]
    /\ Finish(c, "task_known", found[c])
    /\ UNCHANGED <<jobRow, world, writer, inv, capture, lease, runner, pve,
                   bounds>>

\* The answer reaches the caller, if it still waits.
Deliver(c) ==
    /\ step[c] = "done"
    /\ op' = [op EXCEPT ![c] = "none"]
    /\ caller' = [caller EXCEPT ![c] = None]
    /\ step' = [step EXCEPT ![c] = "free"]
    /\ answer' = [answer EXCEPT ![c] = None]
    /\ found' = [found EXCEPT ![c] = NoTask]
    /\ \/ caller[c] = None /\ UNCHANGED <<reply, upid>>
       \/ /\ caller[c] # None
          /\ reply' = [reply EXCEPT ![caller[c]] = answer[c]]
          /\ upid' = [upid EXCEPT ![caller[c]] = found[c]]
    /\ UNCHANGED <<jobRow, world, writer, pc, proven, sealTried, host, bounds>>

-----------------------------------------------------------------------------
(* Host side: the detached runner and the PVE task.                        *)

\* pvesh reaches PVE, or fails without starting a task.
RunnerStart ==
    /\ runner = "released"
    /\ \/ /\ runner' = "running"
          /\ submissions' = submissions + 1
          /\ pveTask' = "running"
       \/ /\ runner' = "captured"
          /\ UNCHANGED <<submissions, pveTask>>
    /\ UNCHANGED <<jobRow, world, writer, inv, calls, journal, lease, bounds>>

\* pvesh returns once its task is over, and its output is captured, with a
\* UPID in it or without.
RunnerCapture ==
    /\ runner = "running" /\ pveTask # "running"
    /\ runner' = "captured"
    /\ capture' \in {NoTask, submissions}
    /\ UNCHANGED <<jobRow, world, writer, inv, calls, phase, jtask, lease, pve,
                   bounds>>

\* The runner exits, and with it goes the lease: after its capture, or on
\* reading end-of-file where a release was due.
RunnerExit ==
    /\ runner \in {"abandoned", "captured"}
    /\ runner' = "none"
    /\ lease' = None
    /\ UNCHANGED <<jobRow, world, writer, inv, calls, journal, pve, bounds>>

\* PVE rolls back, which makes the job's snapshot the parent again, or fails.
PveTaskStep ==
    /\ pveTask = "running"
    /\ \/ live /\ listing # "gone" /\ pveTask' = "ok" /\ listing' = "own"
       \/ pveTask' = "error" /\ UNCHANGED listing
    /\ UNCHANGED <<jobRow, context, live, request, writer, inv, calls, journal,
                   lease, runner, submissions, bounds>>

-----------------------------------------------------------------------------
(* Faults and the environment.                                             *)

\* The caller stops waiting; the helper on the host knows nothing of it.
CallTimeout(w) ==
    /\ Fault
    /\ pc[w] \in WaitingPcs /\ reply[w] = None
    /\ reply' = [reply EXCEPT ![w] = "error"]
    /\ caller' = [c \in Calls |-> IF caller[c] = w THEN None ELSE caller[c]]
    /\ UNCHANGED <<jobRow, world, writer, pc, upid, proven, sealTried, op,
                   step, answer, found, host, moves>>

\* A lost request, a helper killed or failing anywhere, or a lost answer.
\* A runner that was prepared but not released sees its pipe close.
HelperDies(c) ==
    /\ Fault
    /\ step[c] # "free"
    /\ Finish(c, "error", NoTask)
    /\ lease' = IF lease = c THEN None ELSE lease
    /\ runner' = IF step[c] \in {"prepared", "journaled"} THEN "abandoned"
                 ELSE runner
    /\ UNCHANGED <<jobRow, world, writer, inv, journal, pve, moves>>

\* The runner dies after its release; a PVE task it started goes on.
RunnerLost ==
    /\ Fault
    /\ runner \in {"released", "running"}
    /\ runner' = "none"
    /\ lease' = None
    /\ UNCHANGED <<jobRow, world, writer, inv, calls, journal, pve, moves>>

\* The host loses every process and every flock, and a running task its exit
\* status; journal, capture and the guest's configuration stay.
HostReboot ==
    /\ Fault
    /\ step' = [c \in Calls |-> IF step[c] = "free" THEN "free" ELSE "done"]
    /\ answer' = [c \in Calls |-> IF step[c] = "free" THEN None ELSE "error"]
    /\ found' = [c \in Calls |-> NoTask]
    /\ lease' = None
    /\ runner' = "none"
    /\ pveTask' = IF pveTask = "running" THEN "lost" ELSE pveTask
    /\ UNCHANGED <<jobRow, world, writer, inv, op, caller, journal,
                   submissions, moves>>

\* The backend process dies and starts again.  Its SSH calls go on without
\* it; startup recovery leaves a job behind its mutation boundary alone.
BackendRestart ==
    /\ Fault
    /\ pc' = [w \in Invocations |-> "idle"]
    /\ reply' = [w \in Invocations |-> None]
    /\ upid' = [w \in Invocations |-> NoTask]
    /\ proven' = {} /\ sealTried' = {}
    /\ writer' = None /\ request' = None
    /\ caller' = [c \in Calls |-> None]
    /\ UNCHANGED <<jobRow, context, guest, op, step, answer, found, host,
                   moves>>

\* Discovery and operator edits change the resource; they are writers too.
ContextMoves ==
    /\ moves < MaxMoves /\ moves' = moves + 1
    /\ writer = None
    /\ context # "stale"
    /\ context' \in Contexts \ {context}
    /\ UNCHANGED <<jobRow, guest, request, writer, inv, calls, host, faults>>

\* A guest that left its node is found elsewhere, or not at all.
DiscoveryNotices ==
    /\ writer = None
    /\ ~live /\ context # "stale"
    /\ context' = "stale"
    /\ UNCHANGED <<jobRow, guest, request, writer, inv, calls, host, bounds>>

\* PVE's lock on the guest keeps others off it while the task runs.
GuestLeaves ==
    /\ moves < MaxMoves /\ moves' = moves + 1
    /\ live /\ pveTask # "running"
    /\ live' = FALSE
    /\ UNCHANGED <<jobRow, context, listing, request, writer, inv, calls, host,
                   faults>>

\* An operator takes another snapshot, or deletes the job's own.
OperatorTouchesSnapshots ==
    /\ moves < MaxMoves /\ moves' = moves + 1
    /\ live /\ listing # "gone" /\ pveTask # "running"
    /\ listing' \in {"superseded", "gone"} \ {listing}
    /\ UNCHANGED <<jobRow, context, live, request, writer, inv, calls, host,
                   faults>>

\* The mutation stage completes the package command, unless overtaken.
MutationCompletes ==
    /\ writer = None
    /\ Active /\ checkpoint = "mutation_may_have_started"
    /\ checkpoint' = "mutation_completed"
    /\ UNCHANGED <<status, verdict, task, world, writer, inv, calls, host,
                   bounds>>

-----------------------------------------------------------------------------

Init ==
    /\ status = "active" /\ checkpoint = "mutation_may_have_started"
    /\ verdict = "none" /\ task = NoTask
    /\ context = "current"
    /\ live = TRUE /\ listing = "own"
    /\ request = None
    /\ writer = None
    /\ pc = [w \in Invocations |-> "idle"]
    /\ reply = [w \in Invocations |-> None]
    /\ upid = [w \in Invocations |-> NoTask]
    /\ proven = {} /\ sealTried = {}
    /\ op = [c \in Calls |-> "none"]
    /\ caller = [c \in Calls |-> None]
    /\ step = [c \in Calls |-> "free"]
    /\ answer = [c \in Calls |-> None]
    /\ found = [c \in Calls |-> NoTask]
    /\ phase = "absent" /\ jtask = NoTask /\ capture = NoTask
    /\ lease = None
    /\ runner = "none"
    /\ pveTask = "none" /\ submissions = 0
    /\ faults = 0 /\ moves = 0

InvocationStep(w) ==
    \/ StartCycle(w)
    \/ StartHealth(w) \/ ProveHealthContext(w) \/ EvaluateHealth(w)
    \/ CompleteHealth(w)
    \/ BeginInspection(w) \/ InspectionReturned(w)
    \/ SubmitIfCurrent(w) \/ SubmissionReturned(w)
    \/ BeginSeal(w) \/ SealReturned(w)
    \/ FinishResult(w) \/ PollReturned(w) \/ ApplyResult(w)
    \/ CompleteRollback(w)

HelperStep(c) ==
    \/ AcquireLease(c) \/ InspectJournal(c) \/ ResolveJournal(c)
    \/ ReadTask(c) \/ ReadListing(c) \/ Seal(c)
    \/ SubmitPreflight(c) \/ SubmitPrepare(c)
    \/ SubmitJournal(c) \/ SubmitRelease(c)
    \/ SubmitReadCapture(c) \/ SubmitPromote(c) \/ SubmitRewrite(c)
    \/ Deliver(c)

RunnerStep == RunnerStart \/ RunnerCapture \/ RunnerExit

Next ==
    \/ \E w \in Invocations :
          InvocationStep(w) \/ WriterBusy(w) \/ CallTimeout(w)
    \/ \E c \in Calls :
          \/ HelperStep(c) \/ HelperDies(c)
          \/ ReadFails(c) \/ SubmitJournalFails(c)
    \/ RequestRollback \/ ArmRollback
    \/ RunnerStep \/ PveTaskStep
    \/ RunnerLost \/ HostReboot \/ BackendRestart
    \/ ContextMoves \/ DiscoveryNotices
    \/ GuestLeaves \/ OperatorTouchesSnapshots
    \/ MutationCompletes

Spec == Init /\ [][Next]_vars

\* An invocation that was started runs to its end; the helpers, the runner and
\* the PVE task are ordinary processes; discovery scans for ever and finds the
\* writer lock free sooner or later.  That another invocation starts is not
\* assumed.
Fairness ==
    /\ \A w \in Invocations : WF_vars(pc[w] # "idle" /\ InvocationStep(w))
    /\ \A c \in Calls : WF_vars(HelperStep(c))
    /\ WF_vars(RunnerStep) /\ WF_vars(PveTaskStep)
    /\ SF_vars(DiscoveryNotices)

FairSpec == Spec /\ Fairness

\* The worker has no timer and no retry: one wake is one attempt, and only a
\* start, a resume, a rollback request or a restart of the backend wakes it
\* (_run_loop).  What must hold of the operator for a job to get anywhere: it
\* does not stay as it is without somebody asking again.
OperatorResumes == \A w \in Invocations : WF_vars(StartCycle(w))

-----------------------------------------------------------------------------
(* Properties.                                                             *)

\* Every reply and every stored value stays in its closed set, timeouts and
\* dead helpers included.
TypeOK ==
    /\ status \in Statuses
    /\ checkpoint \in Checkpoints
    /\ verdict \in Verdicts \cup {"none"}
    /\ task \in Nat
    /\ context \in Contexts
    /\ live \in BOOLEAN
    /\ listing \in Listings
    /\ request \in Listings \cup {None}
    /\ writer \in Invocations \cup {None}
    /\ pc \in [Invocations -> Pcs]
    /\ reply \in [Invocations -> Replies \cup {None}]
    /\ upid \in [Invocations -> Nat]
    /\ proven \subseteq Invocations
    /\ sealTried \subseteq Invocations
    /\ op \in [Calls -> Ops \cup {"none"}]
    /\ caller \in [Calls -> Invocations \cup {None}]
    /\ step \in [Calls -> HelperSteps]
    /\ answer \in [Calls -> Replies \cup {None}]
    /\ found \in [Calls -> Nat]
    /\ phase \in Phases
    /\ jtask \in Nat
    /\ capture \in Nat
    /\ lease \in Calls \cup {None, Runner}
    /\ runner \in RunnerStates
    /\ pveTask \in {"none", "running", "ok", "error", "lost"}
    /\ submissions \in Nat
    /\ faults \in 0..MaxFaults
    /\ moves \in 0..MaxMoves

\* A job released on the strength of the host's seal stays unsubmitted: a
\* helper that a dead backend launched, and that still waits for the lease,
\* finds the seal (_commit_pre_rollback_block).
BlockedIsSealed ==
    status = "blocked" => /\ phase = "sealed_not_submitted"
                          /\ runner \notin {"released", "running"}

\* The task the job row names is the one the host journaled, for good,
\* although the launching helper writes its journal after the lease is gone.
RecordedTaskStands ==
    task # NoTask => phase \in {"task_known", "terminal"} /\ jtask = task

\* The row only says what the host bears out (the parts above).
RowIsTrue == TypeOK /\ BlockedIsSealed /\ RecordedTaskStands

VerdictStep == verdict # "none" \/ Armed => UNCHANGED verdict

\* A verdict that comes late is not recorded: the first one stands, so a second
\* evaluation under way with it cannot turn a failed job into a successful one,
\* and one that was under way when the rollback was armed is dropped.
NoLateVerdict == [][VerdictStep]_vars

SubmitStep ==
    \A c \in Calls :
        step[c] = "prepared" /\ step'[c] = "journaled" /\ caller[c] # None
        => context = "current" /\ writer = caller[c]

\* A helper whose caller still waits journals its submission only while that
\* caller holds the writer lock over a context that is still current.
SubmitUnderCurrentContext == [][SubmitStep]_vars

\* If the operator resumes it as long as it stands still, an armed rollback that
\* is not submitted does not hold the one job slot for ever: it is submitted or
\* the job is released, whatever becomes of the guest, its snapshots and its
\* context (_resolve_pre_rollback_block).
ArmedIsResolved == OperatorResumes =>
    (Armed /\ phase \notin PostSubmission)
        ~> (status = "blocked" \/ phase \in PostSubmission)

\* If the operator resumes the job, a rollback that ended well and whose task is
\* journaled is recorded, whether or not the resource is still current, unless
\* the guest has left or its snapshots no longer show it
\* (complete_package_update_rollback).
SuccessfulRollbackIsRecorded == OperatorResumes =>
    (jtask # NoTask /\ pveTask = "ok")
        ~> (status = "rolled_back" \/ listing # "own" \/ ~live)

\* The stage as the one host operation it promises: what the row says of the
\* rollback, and what PVE made of it.  A second task has no abstract name.
OperationStage ==
    IF status = "rolled_back" THEN "confirmed"
    ELSE IF status \in {"succeeded", "blocked"} THEN "closed"
    ELSE IF Armed THEN "armed"
    ELSE "open"

OperationEffect ==
    IF submissions = 0 THEN "none"
    ELSE IF submissions > 1 THEN "repeated"
    ELSE IF pveTask = "running" THEN "started"
    ELSE IF pveTask = "ok" THEN "achieved"
    ELSE "failed"

Operation == INSTANCE HostOperation
                 WITH stage <- OperationStage, effect <- OperationEffect

\* The rollback is a host operation: armed before it is asked of PVE, asked
\* once, never for a job that succeeded or was released, and recorded as done
\* only when its one task ended well.
ImplementsOperation == Operation!Spec
=============================================================================
