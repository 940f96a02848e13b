--------------------------- MODULE SnapshotStage ---------------------------
(***************************************************************************)
(* The pre-update snapshot stage of one package-update job: preflight, the *)
(* write-ahead intent, submission under the authority writer lock, task    *)
(* polling, confirmation and the ways a job is released instead; and on    *)
(* the host the per-VMID lease, the operation journal, the detached pvesh  *)
(* runner with its completion capture, and the PVE task it starts.         *)
(*                                                                         *)
(* Unlike the mutation stage, every helper operation takes the lease, the  *)
(* work goes on in a PVE task the runner does not control, and current     *)
(* authority is asked for again at the very end, when the snapshot exists. *)
(***************************************************************************)
EXTENDS Integers

CONSTANTS
    Invocations,        \* orchestrator invocations that may be in flight
    Calls,              \* slots for helper processes alive on the host
    MaxFaults,          \* bound: crashes, reboots, timeouts, failed reads
    None,               \* "no invocation / no holder / no answer yet"
    Runner              \* the detached runner, as a lease holder

VARIABLES
    status, checkpoint, task, release,  \* the job's row
    authority,                          \* what the authority proof would find
    writer,                             \* invocation inside BEGIN IMMEDIATE
    pc, reply, upid,                    \* the orchestrator invocations
    proven,                             \* those with durable in-flight proof
    sealTried,                          \* those that may not seal again
    op, caller, step, answer, found,    \* helper processes on the host
    phase, jtask, capture,              \* the operation's journal and capture
    lease, runner,                      \* flock and detached runner
    snapshot, pveTask, submissions,     \* PVE: listing, task, tasks started
    faults

jobRow  == <<status, checkpoint, task, release>>
inv     == <<pc, reply, upid, proven, sealTried>>
calls   == <<op, caller, step, answer, found>>
journal == <<phase, jtask, capture>>
pve     == <<snapshot, pveTask, submissions>>
host    == <<journal, lease, runner, pve>>
vars    == <<jobRow, authority, writer, inv, calls, host, faults>>

-----------------------------------------------------------------------------

Statuses    == {"active", "blocked", "interrupted"}
Checkpoints == {"issued", "preflight_passed", "snapshot_may_have_started",
                "snapshot_confirmed"}

\* Why a job left "active"; the terminal event its transaction appends.
Releases == {"none", "sealed", "failed", "retained", "restart"}

\* CURRENT, STALE without a reason (resource or source context moved on),
\* STALE with a reason (plan drift), TEMPORARILY_UNAVAILABLE (scan running).
AuthorityStates == {"current", "stale", "drift", "unavailable"}

\* Journal phases; "absent" is a journal without a record.
Phases == {"absent", "intent", "sealed_not_submitted", "submitted",
           "task_known", "terminal"}
SubmissionPermitted == {"absent", "intent"}

\* PVE names a task by its UPID; here the how-manieth submission it was.
NoTask == 0

\* What the host-control channel makes of an answer:
\*   sealed, not_submitted   NOT_SUBMITTED with and without the durable seal
\*   unsubmitted             UNCERTAIN over an absent or intent journal
\*   submitted, task_known   UNCERTAIN, but the operation is in flight
\*   in_progress             the lease is held, the journal was not read
\*   stopped, error          UNCERTAIN, nothing to wait for
\*   failed, completed       with a listing that shows no trace of, exactly
\*                           one, complete and owned snapshot
Replies == {"sealed", "not_submitted", "unsubmitted", "submitted",
            "task_known", "in_progress", "stopped", "error", "failed",
            "completed"}

ASSUME SnapshotAssumption ==
    /\ MaxFaults \in Nat
    /\ None \notin Invocations \cup Calls \cup Replies
    /\ Runner \notin Calls /\ Runner # None

Ops == {"inspect", "submit", "seal"}

WaitingPcs == {"inspecting", "submitting", "sealing", "polling"}
TxnPcs     == {"preflight", "intent", "submit", "seal", "persist", "apply",
               "fail", "confirm", "retain", "reconfirm"}
Pcs        == {"idle", "inspect"} \cup WaitingPcs \cup TxnPcs

\* "listing_*" carry the evidence an inspection has listed on to its task
\* read; from "prepared" on the runner owns the lease.
HelperSteps == {"free", "sent", "leased", "list", "listing_absent",
                "listing_incomplete", "listing_present", "preflight",
                "prepared", "journaled", "released", "promote", "done"}

Listed(s) == CASE s = "absent"     -> "listing_absent"
               [] s = "incomplete" -> "listing_incomplete"
               [] OTHER            -> "listing_present"

RunnerStates == {"none", "ready", "abandoned", "released", "running",
                 "captured"}

-----------------------------------------------------------------------------
(* Backend side: preflight, write-ahead intent, inspection.                *)

Active == status = "active"
Armed  == Active /\ checkpoint = "snapshot_may_have_started"

\* Invocation w goes on at p, with reply r and the UPID t it carries.
Continue(w, p, r, t) ==
    /\ pc' = [pc EXCEPT ![w] = p]
    /\ reply' = [reply EXCEPT ![w] = r]
    /\ upid' = [upid EXCEPT ![w] = t]

Keep(w, p) == Continue(w, p, reply[w], upid[w])

Goto(w, p) == Continue(w, p, None, NoTask)

Same == UNCHANGED <<proven, sealTried>>

\* The invocation ends, as completed, released or uncertain: an uncertain
\* outcome only appends an event to the job.
Stop(w) ==
    /\ Goto(w, "idle")
    /\ proven' = proven \ {w}
    /\ sealTried' = sealTried \ {w}

\* Start a helper process for invocation w, which waits for its answer at p.
Send(w, p, o) ==
    /\ Goto(w, p)
    /\ \E c \in Calls :
        /\ step[c] = "free"
        /\ op' = [op EXCEPT ![c] = o]
        /\ caller' = [caller EXCEPT ![c] = w]
        /\ step' = [step EXCEPT ![c] = "sent"]
        /\ UNCHANGED <<answer, found>>

\* A UPID on the job row is proof, from the start, of an operation in flight.
SeedProof(w) ==
    /\ proven' = IF task # NoTask THEN proven \cup {w} ELSE proven
    /\ UNCHANGED sealTried

\* The worker reads the job afresh; ensure_job_owned_snapshot enters an armed
\* job at the inspection.
StartCycle(w) ==
    /\ pc[w] = "idle"
    /\ \/ Armed /\ Goto(w, "inspect") /\ SeedProof(w)
       \/ /\ Active /\ checkpoint \in {"issued", "preflight_passed"}
          /\ Goto(w, "preflight")
          /\ Same
    /\ UNCHANGED <<jobRow, authority, writer, calls, host, faults>>

\* record_package_update_preflight_passed: proof and transition in one
\* transaction; idempotent.
RecordPreflight(w) ==
    /\ pc[w] = "preflight" /\ writer = None
    /\ \/ /\ Active /\ authority = "current"
          /\ checkpoint \in {"issued", "preflight_passed"}
          /\ checkpoint' = "preflight_passed"
          /\ Goto(w, "intent")
          /\ Same
       \/ /\ ~(Active /\ authority = "current"
               /\ checkpoint \in {"issued", "preflight_passed"})
          /\ Stop(w)
          /\ UNCHANGED checkpoint
    /\ UNCHANGED <<status, task, release, authority, writer, calls, host, faults>>

\* record_package_update_snapshot_intent: the write-ahead boundary.
RecordIntent(w) ==
    /\ pc[w] = "intent" /\ writer = None
    /\ \/ /\ Active /\ authority = "current"
          /\ checkpoint \in {"preflight_passed", "snapshot_may_have_started"}
          /\ checkpoint' = "snapshot_may_have_started"
          /\ Goto(w, "inspect")
          /\ SeedProof(w)
       \/ /\ ~(Active /\ authority = "current"
               /\ checkpoint \in {"preflight_passed", "snapshot_may_have_started"})
          /\ Stop(w)
          /\ UNCHANGED checkpoint
    /\ UNCHANGED <<status, task, release, authority, writer, calls, host, faults>>

BeginInspection(w) ==
    /\ pc[w] = "inspect"
    /\ Send(w, "inspecting", "inspect")
    /\ Same
    /\ UNCHANGED <<jobRow, authority, writer, host, faults>>

\* A pre-submission journal leads to the submission, any other proof that
\* nothing was submitted to the seal; the rest is evidence to finish with.
InspectionReturned(w) ==
    /\ pc[w] = "inspecting" /\ reply[w] # None
    /\ \/ reply[w] \in {"sealed", "not_submitted"} /\ Goto(w, "seal")
       \/ reply[w] = "unsubmitted" /\ Goto(w, "submit")
       \/ /\ reply[w] \notin {"sealed", "not_submitted", "unsubmitted"}
          /\ Keep(w, "persist")
    /\ Same
    /\ UNCHANGED <<jobRow, authority, writer, calls, host, faults>>

-----------------------------------------------------------------------------
(* Backend side: submission and sealing, both inside the writer lock.      *)

\* Mutant: a stale context is only reported as uncertain.
SubmitIfCurrent_NoSeal(w) ==
    /\ pc[w] = "submit" /\ writer = None
    /\ \/ /\ Armed /\ authority = "current"
          /\ writer' = w
          /\ Send(w, "submitting", "submit")
          /\ Same
       \/ /\ ~Armed \/ authority # "current"
          /\ Stop(w)
          /\ UNCHANGED <<writer, calls>>
    /\ UNCHANGED <<jobRow, authority, host, faults>>

\* Only a stale context is the refusal that goes on to seal; plan drift, an
\* unavailable authority or a job that moved on end the cycle as uncertain.
SubmitIfCurrent(w) ==
    /\ pc[w] = "submit" /\ writer = None
    /\ \/ /\ Armed /\ authority = "current"
          /\ writer' = w
          /\ Send(w, "submitting", "submit")
          /\ Same
       \/ /\ Armed /\ authority = "stale"
          /\ Goto(w, "seal")
          /\ Same
          /\ UNCHANGED <<writer, calls>>
       \/ /\ ~Armed \/ authority \in {"drift", "unavailable"}
          /\ Stop(w)
          /\ UNCHANGED <<writer, calls>>
    /\ UNCHANGED <<jobRow, authority, host, faults>>

SubmissionReturned(w) ==
    /\ pc[w] = "submitting" /\ reply[w] # None
    /\ writer' = None
    /\ Keep(w, "persist")
    /\ Same
    /\ UNCHANGED <<jobRow, authority, calls, host, faults>>

\* Mutant: an unsubmitted inspection is taken as proof, without the seal.
BeginSeal_TrustsInspection(w) ==
    /\ pc[w] = "seal" /\ writer = None
    /\ \/ Armed /\ task = NoTask /\ status' = "blocked" /\ release' = "sealed"
       \/ ~(Armed /\ task = NoTask) /\ UNCHANGED <<status, release>>
    /\ Stop(w)
    /\ UNCHANGED <<checkpoint, task, authority, writer, calls, host, faults>>

\* resolve_pre_submission_block: a job with a recorded task was submitted.
BeginSeal(w) ==
    /\ pc[w] = "seal" /\ writer = None
    /\ \/ /\ Armed /\ task = NoTask
          /\ writer' = w
          /\ Send(w, "sealing", "seal")
          /\ sealTried' = sealTried \cup {w}
          /\ UNCHANGED proven
       \/ /\ ~(Armed /\ task = NoTask)
          /\ Stop(w)
          /\ UNCHANGED <<writer, calls>>
    /\ UNCHANGED <<jobRow, authority, host, faults>>

SealReturned(w) ==
    /\ pc[w] = "sealing" /\ reply[w] # None
    /\ writer' = None
    /\ \/ /\ reply[w] = "sealed"
          /\ status' = "blocked" /\ release' = "sealed"
          /\ Stop(w)
       \/ /\ reply[w] # "sealed"
          /\ Keep(w, "persist")
          /\ Same
          /\ UNCHANGED <<status, release>>
    /\ UNCHANGED <<checkpoint, task, authority, calls, host, faults>>

-----------------------------------------------------------------------------
(* Backend side: the known task, polling, and applying a result.           *)

\* record_package_update_snapshot_task is write-once and only while armed.
TaskRecordable(w) ==
    Armed /\ (task = NoTask \/ task = upid[w])

PersistConflict(w) == upid[w] # NoTask /\ ~TaskRecordable(w)

PersistKnownTask(w) ==
    task' = IF upid[w] # NoTask THEN upid[w] ELSE task

\* _proven_in_flight and _pending, for the reply in hand: a held lease keeps
\* whatever proof there is, an in-flight phase is proof itself.
StillProven(w) ==
    \/ reply[w] \in {"submitted", "task_known"}
    \/ reply[w] = "in_progress" /\ w \in proven

UpdateProof(w) ==
    /\ proven' = IF StillProven(w) THEN proven \cup {w} ELSE proven \ {w}
    /\ UNCHANGED sealTried

\* _finish: the task identity is durable before the first poll.
FinishResult(w) ==
    /\ pc[w] = "persist" /\ writer = None
    /\ \/ PersistConflict(w) /\ Stop(w) /\ UNCHANGED <<task, calls>>
       \/ /\ ~PersistConflict(w)
          /\ PersistKnownTask(w)
          /\ UpdateProof(w)
          /\ \/ StillProven(w) /\ Send(w, "polling", "inspect")
             \/ ~StillProven(w) /\ Keep(w, "apply") /\ UNCHANGED calls
    /\ UNCHANGED <<status, checkpoint, release, authority, writer, host, faults>>

\* Each round of _poll_until_resolved, up to its deadline.
PollReturned(w) ==
    /\ pc[w] = "polling" /\ reply[w] # None
    /\ UpdateProof(w)
    /\ \/ StillProven(w) /\ Send(w, "polling", "inspect")
       \/ Keep(w, "apply") /\ UNCHANGED calls
    /\ UNCHANGED <<jobRow, authority, writer, host, faults>>

\* _apply_host_result, up to the transaction its outcome calls for.
ApplyResult(w) ==
    /\ pc[w] = "apply" /\ writer = None
    /\ \/ PersistConflict(w) /\ Stop(w) /\ UNCHANGED task
       \/ /\ ~PersistConflict(w)
          /\ PersistKnownTask(w)
          /\ \/ /\ reply[w] \in {"sealed", "not_submitted"} /\ w \notin sealTried
                /\ Goto(w, "seal") /\ Same
             \/ reply[w] = "failed" /\ Keep(w, "fail") /\ Same
             \/ reply[w] = "completed" /\ Keep(w, "confirm") /\ Same
             \/ /\ \/ reply[w] \in {"sealed", "not_submitted"} /\ w \in sealTried
                   \/ reply[w] \notin {"sealed", "not_submitted", "failed",
                                       "completed"}
                /\ Stop(w)
    /\ UNCHANGED <<status, checkpoint, release, authority, writer, calls, host,
                   faults>>

\* fail_package_update_snapshot, over a listing without a trace.
FailSnapshot(w) ==
    /\ pc[w] = "fail" /\ writer = None
    /\ \/ Armed /\ status' = "blocked" /\ release' = "failed"
       \/ ~Armed /\ UNCHANGED <<status, release>>
    /\ Stop(w)
    /\ UNCHANGED <<checkpoint, task, authority, writer, calls, host, faults>>

\* confirm_package_update_snapshot, at its first call and at its one retry.
MayConfirm == Active /\ authority = "current"
              /\ checkpoint \in {"snapshot_may_have_started",
                                 "snapshot_confirmed"}

ConfirmSnapshot(w) ==
    /\ pc[w] \in {"confirm", "reconfirm"} /\ writer = None
    /\ \/ /\ MayConfirm
          /\ checkpoint' = "snapshot_confirmed"
          /\ Stop(w)
       \/ /\ ~MayConfirm /\ pc[w] = "confirm"
          /\ Keep(w, "retain") /\ Same
          /\ UNCHANGED checkpoint
       \/ /\ ~MayConfirm /\ pc[w] = "reconfirm"
          /\ Stop(w)
          /\ UNCHANGED checkpoint
    /\ UNCHANGED <<status, task, release, authority, writer, calls, host, faults>>

\* Mutant: a snapshot that cannot be confirmed is only reported.
RetainSnapshot_Reports(w) ==
    /\ pc[w] = "retain" /\ writer = None
    /\ \/ Armed /\ authority = "current" /\ Keep(w, "reconfirm") /\ Same
       \/ ~(Armed /\ authority = "current") /\ Stop(w)
    /\ UNCHANGED <<jobRow, authority, writer, calls, host, faults>>

\* block_package_update_after_snapshot_success_with_stale_authority: any
\* authority that is not current now releases the job and keeps the snapshot.
RetainSnapshot(w) ==
    /\ pc[w] = "retain" /\ writer = None
    /\ \/ /\ Armed /\ authority # "current"
          /\ status' = "blocked" /\ release' = "retained"
          /\ Stop(w)
       \/ /\ Armed /\ authority = "current"
          /\ Keep(w, "reconfirm") /\ Same
          /\ UNCHANGED <<status, release>>
       \/ /\ ~Armed
          /\ Stop(w)
          /\ UNCHANGED <<status, release>>
    /\ UNCHANGED <<checkpoint, task, authority, writer, calls, host, faults>>

Fault == faults < MaxFaults /\ faults' = faults + 1

\* A writer lock that stays busy past its timeout ends the invocation.  The
\* holder is another invocation, or (a fault) some other writer of the backend.
WriterBusy(w) ==
    /\ pc[w] \in TxnPcs
    /\ IF writer = None THEN Fault ELSE UNCHANGED faults
    /\ Stop(w)
    /\ UNCHANGED <<jobRow, authority, writer, calls, host>>

-----------------------------------------------------------------------------
(* Host side: the helper processes.                                        *)

Advance(c, s) ==
    /\ step' = [step EXCEPT ![c] = s]
    /\ UNCHANGED <<op, caller, answer, found>>

\* Answer r, with UPID t, and nothing left to do but deliver it.
Finish(c, r, t) ==
    /\ step' = [step EXCEPT ![c] = "done"]
    /\ answer' = [answer EXCEPT ![c] = r]
    /\ found' = [found EXCEPT ![c] = t]
    /\ UNCHANGED <<op, caller>>

\* VmidMutationLock: a non-blocking flock every operation takes first.
AcquireLease(c) ==
    /\ step[c] = "sent"
    /\ \/ lease = None /\ lease' = c /\ Advance(c, "leased")
       \/ lease # None /\ UNCHANGED lease /\ Finish(c, "in_progress", NoTask)
    /\ UNCHANGED <<jobRow, authority, writer, inv, journal, runner, pve, faults>>

\* _promote_completed_capture, under the lease.
Promotable == phase = "submitted" /\ capture # NoTask
\* Mutant: the captured UPID is used up without being journaled.
Promote_NotJournaled ==
    capture' = NoTask /\ UNCHANGED <<phase, jtask>>

Promote ==
    phase' = "task_known" /\ jtask' = capture /\ capture' = NoTask

InspectJournal(c) ==
    /\ step[c] = "leased" /\ op[c] = "inspect"
    /\ \/ /\ phase = "sealed_not_submitted"
          /\ lease' = None
          /\ Finish(c, "sealed", NoTask)
          /\ UNCHANGED journal
       \/ /\ phase # "sealed_not_submitted"
          /\ Advance(c, "list")
          /\ IF Promotable THEN Promote ELSE UNCHANGED journal
          /\ UNCHANGED lease
    /\ UNCHANGED <<jobRow, authority, writer, inv, runner, pve, faults>>

\* The guest carries the lock of a snapshot operation in flight.
Locked == pveTask = "running"

\* A submitted operation without a task identity is over when the guest has no
\* such lock and the listing shows exactly this job's complete snapshot.
TasklessCompletion == snapshot = "present" /\ ~Locked

\* Mutant: an entry that still carries a snapstate counts as a snapshot.
InspectListing_IncompleteCounts(c) ==
    /\ step[c] = "list"
    /\ lease' = None
    /\ \/ phase \in SubmissionPermitted /\ Finish(c, "unsubmitted", NoTask)
       \/ /\ phase \notin SubmissionPermitted
          /\ Finish(c, IF snapshot # "absent" THEN "completed" ELSE "submitted",
                    NoTask)
    /\ UNCHANGED <<jobRow, authority, writer, inv, journal, runner, pve, faults>>

\* One with a known task needs the status of that task, read after the listing.
InspectListing(c) ==
    /\ step[c] = "list"
    /\ \/ /\ phase = "task_known"
          /\ Advance(c, Listed(snapshot))
          /\ UNCHANGED lease
       \/ /\ phase # "task_known"
          /\ lease' = None
          /\ \/ /\ phase \in SubmissionPermitted
                /\ Finish(c, "unsubmitted", NoTask)
             \/ /\ phase = "submitted"
                /\ IF TasklessCompletion THEN Finish(c, "completed", NoTask)
                   ELSE Finish(c, "submitted", NoTask)
             \/ /\ phase = "terminal"
                /\ IF snapshot = "present"
                   THEN Finish(c, "completed", NoTask)
                   ELSE Finish(c, "stopped", NoTask)
    /\ UNCHANGED <<jobRow, authority, writer, inv, journal, runner, pve, faults>>

\* Mutant: a canonical absence is a failure, whatever the task does.
InspectTask_AbsenceFails(c) ==
    /\ step[c] = "listing_absent"
    /\ lease' = None
    /\ Finish(c, "failed", jtask)
    /\ UNCHANGED <<jobRow, authority, writer, inv, journal, runner, pve, faults>>

\* A stopped task in error fails the operation, unless the listing has a
\* trace; a snapshot only counts as completed once its task is over.
InspectTask(c) ==
    /\ lease' = None
    /\ \/ /\ step[c] = "listing_absent"
          /\ Finish(c, CASE pveTask = "error"   -> "failed"
                         [] pveTask = "running" -> "task_known"
                         [] OTHER               -> "stopped", jtask)
       \/ /\ step[c] = "listing_incomplete"
          /\ Finish(c, IF pveTask = "running" THEN "task_known" ELSE "stopped",
                    jtask)
       \/ /\ step[c] = "listing_present"
          /\ Finish(c, IF pveTask = "ok" THEN "completed" ELSE "stopped", jtask)
    /\ UNCHANGED <<jobRow, authority, writer, inv, journal, runner, pve, faults>>

\* A PVE read that fails is only proof of anything before submission.
InspectReadFails(c) ==
    /\ faults < MaxFaults /\ faults' = faults + 1
    /\ step[c] = "list"
    /\ lease' = None
    /\ Finish(c, IF phase \in SubmissionPermitted THEN "not_submitted"
                 ELSE "error", NoTask)
    /\ UNCHANGED <<jobRow, authority, writer, inv, journal, runner, pve>>

Seal(c) ==
    /\ step[c] = "leased" /\ op[c] = "seal"
    /\ lease' = None
    /\ \/ /\ phase \in SubmissionPermitted \cup {"sealed_not_submitted"}
          /\ phase' = "sealed_not_submitted"
          /\ Finish(c, "sealed", NoTask)
       \/ /\ phase \in {"submitted", "task_known"}
          /\ Finish(c, phase, jtask)
          /\ UNCHANGED phase
       \/ /\ phase = "terminal"
          /\ Finish(c, "stopped", NoTask)
          /\ UNCHANGED phase
    /\ UNCHANGED <<jobRow, authority, writer, inv, jtask, capture, runner, pve,
                   faults>>

\* _ensure_submitted on a fresh operation: the intent is journaled first.
SubmitIntent(c) ==
    /\ step[c] = "leased" /\ op[c] = "submit"
    /\ phase \in SubmissionPermitted
    /\ phase' = "intent"
    /\ Advance(c, "preflight")
    /\ UNCHANGED <<jobRow, authority, writer, inv, jtask, capture, lease, runner,
                   pve, faults>>

\* _ensure_submitted on one that is past submission: report, never resubmit.
SubmitReplay(c) ==
    /\ step[c] = "leased" /\ op[c] = "submit"
    /\ lease' = None
    /\ \/ /\ phase = "sealed_not_submitted"
          /\ Finish(c, "sealed", NoTask)
          /\ UNCHANGED journal
       \/ /\ phase = "task_known"
          /\ Finish(c, "task_known", jtask)
          /\ UNCHANGED journal
       \/ Promotable /\ Promote /\ Finish(c, "task_known", capture)
       \/ /\ phase = "submitted" /\ ~Promotable
          /\ \/ /\ TasklessCompletion
                /\ phase' = "terminal"
                /\ Finish(c, "completed", NoTask)
                /\ UNCHANGED <<jtask, capture>>
             \/ /\ ~TasklessCompletion
                /\ Finish(c, "submitted", NoTask)
                /\ UNCHANGED journal
       \/ /\ phase = "terminal"
          /\ IF snapshot = "present" THEN Finish(c, "completed", NoTask)
             ELSE Finish(c, "stopped", NoTask)
          /\ UNCHANGED journal
    /\ UNCHANGED <<jobRow, authority, writer, inv, runner, pve, faults>>

\* Mutant: the runner does not wait for the submission to be durable.
SubmitPreflight_NoBarrier(c) ==
    /\ step[c] = "preflight" /\ snapshot = "absent"
    /\ runner' = "released" /\ lease' = Runner
    /\ Advance(c, "prepared")
    /\ UNCHANGED <<jobRow, authority, writer, inv, journal, pve, faults>>

\* The live target, the guest's lock and the listing, right before the
\* mutation; then a runner that holds the lease and awaits release.
SubmitPreflight(c) ==
    /\ step[c] = "preflight"
    /\ \/ /\ snapshot = "absent"
          /\ runner' = "ready" /\ lease' = Runner
          /\ Advance(c, "prepared")
          /\ UNCHANGED phase
       \/ /\ snapshot = "present"
          /\ phase' = "terminal" /\ lease' = None
          /\ Finish(c, "completed", NoTask)
          /\ UNCHANGED runner
       \/ /\ lease' = None         \* target moved, or no runner could start
          /\ Finish(c, "not_submitted", NoTask)
          /\ UNCHANGED <<phase, runner>>
       \/ /\ lease' = None         \* guest locked, or an incomplete entry
          /\ Finish(c, "unsubmitted", NoTask)
          /\ UNCHANGED <<phase, runner>>
    /\ UNCHANGED <<jobRow, authority, writer, inv, jtask, capture, pve, faults>>

\* The submission is durable before the runner may start.
SubmitJournal(c) ==
    /\ step[c] = "prepared"
    /\ phase' = "submitted"
    /\ Advance(c, "journaled")
    /\ UNCHANGED <<jobRow, authority, writer, inv, jtask, capture, lease, runner,
                   pve, faults>>

\* The journal write raises, before or after its rename: the runner is
\* abandoned and the answer claims that nothing was submitted.
SubmitJournalFails(c) ==
    /\ faults < MaxFaults /\ faults' = faults + 1
    /\ step[c] = "prepared"
    /\ phase' \in {phase, "submitted"}
    /\ runner' = "abandoned"
    /\ Finish(c, "not_submitted", NoTask)
    /\ UNCHANGED <<jobRow, authority, writer, inv, jtask, capture, lease, pve>>

SubmitRelease(c) ==
    /\ step[c] = "journaled"
    /\ runner' = "released"
    /\ Advance(c, "released")
    /\ UNCHANGED <<jobRow, authority, writer, inv, journal, lease, pve, faults>>

\* The launching helper looks for the capture too, without the lease: it
\* reads in one step and writes in another.
SubmitReadCapture(c) ==
    /\ step[c] = "released"
    /\ \/ capture = NoTask /\ Finish(c, "submitted", NoTask)
       \/ /\ capture # NoTask
          /\ step' = [step EXCEPT ![c] = "promote"]
          /\ found' = [found EXCEPT ![c] = capture]
          /\ UNCHANGED <<op, caller, answer>>
    /\ UNCHANGED <<jobRow, authority, writer, inv, host, faults>>

SubmitPromote(c) ==
    /\ step[c] = "promote"
    /\ phase' = "task_known" /\ jtask' = found[c] /\ capture' = NoTask
    /\ Finish(c, "task_known", found[c])
    /\ UNCHANGED <<jobRow, authority, writer, inv, lease, runner, pve, faults>>

\* The answer reaches the caller, if it still waits.
Deliver(c) ==
    /\ step[c] = "done"
    /\ op' = [op EXCEPT ![c] = "none"]
    /\ caller' = [caller EXCEPT ![c] = None]
    /\ step' = [step EXCEPT ![c] = "free"]
    /\ answer' = [answer EXCEPT ![c] = None]
    /\ found' = [found EXCEPT ![c] = NoTask]
    /\ \/ caller[c] = None /\ UNCHANGED <<reply, upid>>
       \/ /\ caller[c] # None
          /\ reply' = [reply EXCEPT ![caller[c]] = answer[c]]
          /\ upid' = [upid EXCEPT ![caller[c]] = found[c]]
    /\ UNCHANGED <<jobRow, authority, writer, pc, proven, sealTried, host, faults>>

-----------------------------------------------------------------------------
(* Host side: the detached runner and the PVE task.                        *)

\* pvesh reaches PVE, or fails without starting a task.
RunnerStart ==
    /\ runner = "released"
    /\ \/ /\ runner' = "running"
          /\ submissions' = submissions + 1
          /\ pveTask' = "running"
       \/ /\ runner' = "captured"
          /\ UNCHANGED <<submissions, pveTask>>
    /\ UNCHANGED <<jobRow, authority, writer, inv, calls, journal, lease,
                   snapshot, faults>>

\* pvesh returns and its output is captured, with a UPID in it or without.
RunnerCapture ==
    /\ runner = "running"
    /\ runner' = "captured"
    /\ capture' \in {NoTask, submissions}
    /\ UNCHANGED <<jobRow, authority, writer, inv, calls, phase, jtask, lease,
                   pve, faults>>

\* The runner exits, and with it goes the lease: after its capture, or on
\* reading end-of-file where a release was due.
RunnerExit ==
    /\ runner \in {"abandoned", "captured"}
    /\ runner' = "none"
    /\ lease' = None
    /\ UNCHANGED <<jobRow, authority, writer, inv, calls, journal, pve, faults>>

\* The PVE task enters the snapshot in the configuration, completes it and
\* stops; or stops in error, cleaning up or leaving the entry behind.
PveTaskStep ==
    /\ pveTask = "running"
    /\ \/ snapshot = "absent" /\ snapshot' = "incomplete" /\ UNCHANGED pveTask
       \/ snapshot = "incomplete" /\ snapshot' = "present" /\ UNCHANGED pveTask
       \/ snapshot = "present" /\ pveTask' = "ok" /\ UNCHANGED snapshot
       \/ /\ snapshot # "present"
          /\ snapshot' \in {snapshot, "absent"}
          /\ pveTask' = "error"
    /\ UNCHANGED <<jobRow, authority, writer, inv, calls, journal, lease, runner,
                   submissions, faults>>

-----------------------------------------------------------------------------
(* Faults and the environment.                                             *)

\* The caller stops waiting; the helper on the host knows nothing of it.
CallTimeout(w) ==
    /\ Fault
    /\ pc[w] \in WaitingPcs /\ reply[w] = None
    /\ reply' = [reply EXCEPT ![w] = "error"]
    /\ caller' = [c \in Calls |-> IF caller[c] = w THEN None ELSE caller[c]]
    /\ UNCHANGED <<jobRow, authority, writer, pc, upid, proven, sealTried, op,
                   step, answer, found, host>>

\* A lost request, a helper killed or failing anywhere, or a lost answer.
\* A runner that was prepared but not released sees its pipe close.
HelperDies(c) ==
    /\ Fault
    /\ step[c] # "free"
    /\ Finish(c, "error", NoTask)
    /\ lease' = IF lease = c THEN None ELSE lease
    /\ runner' = IF step[c] \in {"prepared", "journaled"} THEN "abandoned"
                 ELSE runner
    /\ UNCHANGED <<jobRow, authority, writer, inv, journal, pve>>

\* The runner dies after its release; a PVE task it started goes on.
RunnerLost ==
    /\ Fault
    /\ runner \in {"released", "running"}
    /\ runner' = "none"
    /\ lease' = None
    /\ UNCHANGED <<jobRow, authority, writer, inv, calls, journal, pve>>

\* The host loses every process and every flock; journal, capture and the
\* guest's configuration stay.
HostReboot ==
    /\ Fault
    /\ step' = [c \in Calls |-> IF step[c] = "free" THEN "free" ELSE "done"]
    /\ answer' = [c \in Calls |-> IF step[c] = "free" THEN None ELSE "error"]
    /\ found' = [c \in Calls |-> NoTask]
    /\ lease' = None
    /\ runner' = "none"
    /\ pveTask' = IF pveTask = "running" THEN "error" ELSE pveTask
    /\ UNCHANGED <<jobRow, authority, writer, inv, op, caller, journal, snapshot,
                   submissions>>

\* The backend process dies and starts again.  Its SSH calls go on without
\* it; startup recovery interrupts a job that no snapshot can be under way for.
BackendRestart ==
    /\ Fault
    /\ pc' = [w \in Invocations |-> "idle"]
    /\ reply' = [w \in Invocations |-> None]
    /\ upid' = [w \in Invocations |-> NoTask]
    /\ proven' = {} /\ sealTried' = {}
    /\ writer' = None
    /\ caller' = [c \in Calls |-> None]
    /\ \/ /\ Active /\ checkpoint # "snapshot_may_have_started"
          /\ status' = "interrupted" /\ release' = "restart"
       \/ /\ ~(Active /\ checkpoint # "snapshot_may_have_started")
          /\ UNCHANGED <<status, release>>
    /\ UNCHANGED <<checkpoint, task, authority, op, step, answer, found, host>>

\* Discovery, scans and operator edits change what the proof finds.  They are
\* writers too, so never while an invocation holds the writer lock.
AuthorityMoves ==
    /\ writer = None
    /\ authority' \in AuthorityStates \ {authority}
    /\ UNCHANGED <<jobRow, writer, inv, calls, host, faults>>

-----------------------------------------------------------------------------

Init ==
    /\ status = "active" /\ checkpoint = "issued"
    /\ task = NoTask /\ release = "none"
    /\ authority = "current"
    /\ writer = None
    /\ pc = [w \in Invocations |-> "idle"]
    /\ reply = [w \in Invocations |-> None]
    /\ upid = [w \in Invocations |-> NoTask]
    /\ proven = {} /\ sealTried = {}
    /\ op = [c \in Calls |-> "none"]
    /\ caller = [c \in Calls |-> None]
    /\ step = [c \in Calls |-> "free"]
    /\ answer = [c \in Calls |-> None]
    /\ found = [c \in Calls |-> NoTask]
    /\ phase = "absent" /\ jtask = NoTask /\ capture = NoTask
    /\ lease = None
    /\ runner = "none"
    /\ snapshot = "absent" /\ pveTask = "none" /\ submissions = 0
    /\ faults = 0

InvocationStep(w) ==
    \/ StartCycle(w) \/ RecordPreflight(w) \/ RecordIntent(w)
    \/ BeginInspection(w) \/ InspectionReturned(w)
    \/ SubmitIfCurrent(w) \/ SubmissionReturned(w)
    \/ BeginSeal(w) \/ SealReturned(w)
    \/ FinishResult(w) \/ PollReturned(w) \/ ApplyResult(w)
    \/ FailSnapshot(w) \/ ConfirmSnapshot(w) \/ RetainSnapshot(w)

HelperStep(c) ==
    \/ AcquireLease(c) \/ InspectJournal(c) \/ InspectListing(c)
    \/ InspectTask(c) \/ Seal(c)
    \/ SubmitIntent(c) \/ SubmitReplay(c) \/ SubmitPreflight(c)
    \/ SubmitJournal(c) \/ SubmitRelease(c)
    \/ SubmitReadCapture(c) \/ SubmitPromote(c) \/ Deliver(c)

RunnerStep == RunnerStart \/ RunnerCapture \/ RunnerExit

Next ==
    \/ \E w \in Invocations :
          InvocationStep(w) \/ WriterBusy(w) \/ CallTimeout(w)
    \/ \E c \in Calls :
          \/ HelperStep(c) \/ HelperDies(c)
          \/ InspectReadFails(c) \/ SubmitJournalFails(c)
    \/ RunnerStep \/ PveTaskStep
    \/ RunnerLost \/ HostReboot \/ BackendRestart
    \/ AuthorityMoves

Spec == Init /\ [][Next]_vars

\* An invocation that was started runs to its end; helpers, runner and PVE
\* task are ordinary processes.  That another invocation starts is not assumed.
Fairness ==
    /\ \A w \in Invocations : WF_vars(pc[w] # "idle" /\ InvocationStep(w))
    /\ \A c \in Calls : WF_vars(HelperStep(c))
    /\ WF_vars(RunnerStep) /\ WF_vars(PveTaskStep)

FairSpec == Spec /\ Fairness

\* The worker has no timer and no retry: one wake is one attempt, and only a
\* start, a resume, a rollback request or a restart of the backend wakes it
\* (_run_loop).  What must hold of the operator for a job to get anywhere: it
\* does not stay as it is without somebody asking again.
OperatorResumes == \A w \in Invocations : WF_vars(StartCycle(w))

-----------------------------------------------------------------------------
(* Properties.                                                             *)

TypeOK ==
    /\ status \in Statuses
    /\ checkpoint \in Checkpoints
    /\ task \in Nat
    /\ release \in Releases
    /\ authority \in AuthorityStates
    /\ writer \in Invocations \cup {None}
    /\ pc \in [Invocations -> Pcs]
    /\ reply \in [Invocations -> Replies \cup {None}]
    /\ upid \in [Invocations -> Nat]
    /\ proven \subseteq Invocations
    /\ sealTried \subseteq Invocations
    /\ op \in [Calls -> Ops \cup {"none"}]
    /\ caller \in [Calls -> Invocations \cup {None}]
    /\ step \in [Calls -> HelperSteps]
    /\ answer \in [Calls -> Replies \cup {None}]
    /\ found \in [Calls -> Nat]
    /\ phase \in Phases
    /\ jtask \in Nat
    /\ capture \in Nat
    /\ lease \in Calls \cup {None, Runner}
    /\ runner \in RunnerStates
    /\ snapshot \in {"absent", "incomplete", "present"}
    /\ pveTask \in {"none", "running", "ok", "error"}
    /\ submissions \in Nat
    /\ faults \in 0..MaxFaults

\* A job released on the strength of the host's seal was never submitted and
\* never will be: a helper that a dead backend launched, and that still waits
\* for the lease, finds the seal (_commit_pre_submission_block).
SealedReleaseIsTrue ==
    release = "sealed" =>
        /\ phase = "sealed_not_submitted"
        /\ submissions = 0
        /\ runner \notin {"released", "running"}

\* The task the job row names is the one the host journaled, for good: it is
\* recorded before the first poll and no later answer replaces it.
RecordedTaskIsJournaled ==
    task # NoTask => phase = "task_known" /\ jtask = task

\* The row only says what the host bears out (the parts above).
RowIsTrue == TypeOK /\ SealedReleaseIsTrue /\ RecordedTaskIsJournaled

\* If the operator resumes it as long as it stands still, a job that was never
\* submitted does not hold the one job slot for ever once its resource or
\* source context is stale for good.
StaleContextIsReleased ==
    OperatorResumes /\ <>[](authority = "stale")
        => <>[]~(Armed /\ phase \in SubmissionPermitted \cup {"sealed_not_submitted"})

\* If the operator resumes the job, a snapshot that stands, with its task known,
\* ends the stage once the authority is decided and stops moving: confirmed, or
\* retained with the job released.  Of an undecided authority nothing is said.
StandingSnapshotIsResolved ==
    OperatorResumes
        /\ (\E a \in AuthorityStates \ {"unavailable"} : <>[](authority = a))
        => <>[]~(Armed /\ phase = "task_known" /\ pveTask = "ok")

\* What the orchestrator says of a refused submission: it "must also never be
\* allowed to fence this job's global slot forever purely because Hubinet's
\* own authority context moved on".
MovedOnAuthorityNeverFences ==
    OperatorResumes /\ <>[](authority \in {"stale", "drift"})
        => <>[]~(Armed /\ phase \in SubmissionPermitted)

RetainStep ==
    release' = "retained" /\ release # "retained" => authority # "unavailable"

\* What the architecture says of a scan still running: the authority is
\* undecided and "the job remains ACTIVE for retry".
UndecidedAuthorityNeverReleases == [][RetainStep]_vars

\* The stage as the one host operation it promises: what the row says of the
\* snapshot, and what PVE made of it.  A second task has no abstract name.
OperationStage ==
    IF release \in {"failed", "retained"} THEN release
    ELSE IF checkpoint = "snapshot_confirmed" THEN "confirmed"
    ELSE IF ~Active THEN "closed"
    ELSE IF Armed THEN "armed"
    ELSE "open"

OperationEffect ==
    IF submissions = 0 THEN "none"
    ELSE IF submissions > 1 THEN "repeated"
    ELSE IF snapshot = "present" THEN "achieved"
    ELSE IF pveTask = "error" THEN "failed"
    ELSE "started"

Operation == INSTANCE HostOperation
                 WITH stage <- OperationStage, effect <- OperationEffect

\* The snapshot is a host operation: armed before it is asked of PVE, asked
\* once, never for a job released without it; confirmed or retained only when
\* it stands complete, released as failed only when its task ended in error.
ImplementsOperation == Operation!Spec
=============================================================================
