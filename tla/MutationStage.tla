--------------------------- MODULE MutationStage ---------------------------
(***************************************************************************)
(* The package-mutation stage of one package-update job: the worker's      *)
(* execution gate, the backend orchestrator (prepare, arm, submit,         *)
(* recover, seal, complete), the job row it writes in the authority store, *)
(* the host helper processes it starts over SSH, the per-VMID lease, the   *)
(* durable operation journal and the detached runner that invokes          *)
(* apt-get inside the guest.                                               *)
(*                                                                         *)
(* The backend may crash, a host call may time out while its helper keeps  *)
(* running, a helper may die and the host may reboot.  What has to survive *)
(* all of it: the package command runs at most once per job, and never for *)
(* a job the backend has released.                                         *)
(***************************************************************************)
EXTENDS Integers

CONSTANTS
    Invocations,        \* orchestrator invocations that may be in flight
    Calls,              \* slots for helper processes alive on the host
    Evidence,           \* prepared evidence digests a preparation can yield
    MatchingEvidence,   \* those whose plan equals the job's frozen plan
    MaxFaults,          \* bound: crashes, reboots, timeouts, dead helpers
    None,               \* "no invocation / no holder / no digest"
    Runner              \* the detached runner, as a lease holder

VARIABLES
    status, checkpoint, accepted,   \* the job's row
    authority,                      \* what the authority proof would find
    writer,                         \* invocation inside BEGIN IMMEDIATE
    pc, digest, reply,              \* the orchestrator invocations
    op, arg, caller, step, answer,  \* helper processes on the host
    phase, intent, post,            \* the operation's journal record
    lease, runner,                  \* flock and detached runner
    guest,                          \* installed packages, against the plan
    runs,                           \* package commands started so far
    faults

jobRow  == <<status, checkpoint, accepted>>
inv     == <<pc, digest, reply>>
calls   == <<op, arg, caller, step, answer>>
journal == <<phase, intent, post>>
host    == <<journal, lease, runner, guest, runs>>
vars    == <<jobRow, authority, writer, inv, calls, host, faults>>

-----------------------------------------------------------------------------

Statuses    == {"active", "blocked", "interrupted"}
Checkpoints == {"snapshot_confirmed", "mutation_may_have_started",
                "mutation_completed"}

\* CURRENT, STALE without a reason (resource or source context moved on),
\* STALE with a reason (plan drift), TEMPORARILY_UNAVAILABLE.
AuthorityStates == {"current", "stale", "drift", "unavailable"}

\* Journal phases; "absent" is a journal without a record.
Phases == {"absent", "intent", "sealed_not_submitted", "submitted",
           "terminal_success", "terminal_failure"}
TerminalPhases      == {"terminal_success", "terminal_failure"}
SubmissionPermitted == {"absent", "intent"}

\* What a host call can answer: a phase, "running" for a submitted operation
\* whose runner holds the lease, or "error" for no usable outcome.
Replies == Phases \cup {"running", "error"}

ASSUME MutationAssumption ==
    /\ MatchingEvidence \subseteq Evidence
    /\ MaxFaults \in Nat
    /\ None \notin Invocations \cup Calls \cup Evidence \cup Replies
    /\ Runner \notin Calls /\ Runner # None

Ops == {"prepare", "execute", "seal", "inspect"}

WaitingPcs == {"prepare", "submitting", "inspect", "sealing"}
TxnPcs     == {"gate", "evaluate", "arm", "submit", "seal", "complete"}
Pcs        == {"idle", "mutate"} \cup WaitingPcs \cup TxnPcs

\* "leased".."journaled" are points inside a helper; from "prepared" on the
\* runner owns the lease.  A helper in "done" has only its answer left.
HelperSteps == {"free", "sent", "leased", "intent", "prepared", "journaled",
                "probe", "done"}

RunnerStates == {"none", "ready", "abandoned", "released", "running"}

-----------------------------------------------------------------------------
(* Backend side: the worker cycle, the execution gate and arming.          *)

Active == status = "active"
Armed  == Active /\ checkpoint = "mutation_may_have_started"
AtGate == Active /\ checkpoint = "snapshot_confirmed"

\* Invocation w goes on at p, with nothing but evidence d in hand.
Continue(w, p, d) ==
    /\ pc' = [pc EXCEPT ![w] = p]
    /\ digest' = [digest EXCEPT ![w] = d]
    /\ reply' = [reply EXCEPT ![w] = None]

Goto(w, p) == Continue(w, p, None)
Stop(w)    == Goto(w, "idle")

\* Start a helper process for invocation w, which waits for its answer at p.
Send(w, p, o, d) ==
    /\ Continue(w, p, d)
    /\ \E c \in Calls :
        /\ step[c] = "free"
        /\ op' = [op EXCEPT ![c] = o]
        /\ arg' = [arg EXCEPT ![c] = d]
        /\ caller' = [caller EXCEPT ![c] = w]
        /\ step' = [step EXCEPT ![c] = "sent"]
        /\ UNCHANGED answer

\* The worker reads the job afresh and dispatches on its checkpoint.
StartCycle(w) ==
    /\ pc[w] = "idle"
    /\ \/ AtGate /\ Goto(w, "gate")
       \/ Armed  /\ Goto(w, "mutate")
    /\ UNCHANGED <<jobRow, authority, writer, calls, host, faults>>

\* What the gate's transaction does when it does not let the job through:
\* stale authority releases the job, a scan still running or pending only
\* ends this invocation, and so does a job that is no longer at the gate.
GateRefuses(w) ==
    /\ writer = None
    /\ Stop(w)
    /\ UNCHANGED <<checkpoint, accepted>>
    /\ \/ (~AtGate \/ authority = "unavailable") /\ UNCHANGED status
       \/ AtGate /\ authority \in {"stale", "drift"} /\ status' = "blocked"

GateHolds == writer = None /\ AtGate /\ authority = "current"

RevalidateOrRelease(w) ==
    /\ pc[w] = "gate"
    /\ \/ GateRefuses(w)
       \/ GateHolds /\ Goto(w, "evaluate") /\ UNCHANGED jobRow
    /\ UNCHANGED <<authority, writer, calls, host, faults>>

\* The gate's own simulation only reads the guest.  It can reproduce the
\* frozen plan only while the guest has the plan's installed versions.
EvaluatePlan(w) ==
    /\ pc[w] = "evaluate"
    /\ \/ GateRefuses(w)
       \/ GateHolds /\ guest = "planned" /\ Goto(w, "mutate") /\ UNCHANGED jobRow
       \/ /\ GateHolds
          /\ status' = "blocked"
          /\ Stop(w)
          /\ UNCHANGED <<checkpoint, accepted>>
    /\ UNCHANGED <<authority, writer, calls, host, faults>>

\* execute_job_owned_mutation and recover_job_owned_mutation: a job that is
\* not armed is prepared, an armed one is only ever inspected.
BeginMutation(w) ==
    /\ pc[w] = "mutate"
    /\ \/ AtGate /\ Send(w, "prepare", "prepare", None)
       \/ Armed  /\ Send(w, "inspect", "inspect", None)
       \/ ~AtGate /\ ~Armed /\ Stop(w) /\ UNCHANGED calls
    /\ UNCHANGED <<jobRow, authority, writer, host, faults>>

PrepareReturned(w) ==
    /\ pc[w] = "prepare" /\ reply[w] # None
    /\ \/ /\ reply[w] = "absent"
          /\ Continue(w, "arm", digest[w])
       \/ reply[w] # "absent" /\ Stop(w)
    /\ UNCHANGED <<jobRow, authority, writer, calls, host, faults>>

\* Mutant: arms on any evidence, without the exact plan comparison.
ArmMutation_NoPlanEquality(w) ==
    /\ pc[w] = "arm" /\ GateHolds
    /\ checkpoint' = "mutation_may_have_started"
    /\ accepted' = digest[w]
    /\ Continue(w, "submit", digest[w])
    /\ UNCHANGED <<status, authority, writer, calls, host, faults>>

\* One transaction: the authority proof, exact plan equality, the write-ahead
\* checkpoint and the accepted digest.  Only the invocation that armed the
\* job submits; one that finds it armed already recovers instead.
ArmMutation(w) ==
    /\ pc[w] = "arm"
    /\ \/ ~Armed /\ GateRefuses(w)
       \/ Armed /\ writer = None /\ Goto(w, "mutate") /\ UNCHANGED jobRow
       \/ /\ GateHolds /\ digest[w] \in MatchingEvidence
          /\ checkpoint' = "mutation_may_have_started"
          /\ accepted' = digest[w]
          /\ Continue(w, "submit", digest[w])
          /\ UNCHANGED status
       \/ /\ GateHolds /\ digest[w] \notin MatchingEvidence
          /\ status' = "blocked"
          /\ Stop(w)
          /\ UNCHANGED <<checkpoint, accepted>>
    /\ UNCHANGED <<authority, writer, calls, host, faults>>

-----------------------------------------------------------------------------
(* Backend side: submission, sealing and completion.                       *)

\* Mutant: the authority proof commits before the host is called.
SubmitIfCurrent_LockDropped(w) ==
    /\ pc[w] = "submit" /\ writer = None
    /\ Armed /\ accepted = digest[w] /\ authority = "current"
    /\ Send(w, "submitting", "execute", digest[w])
    /\ UNCHANGED <<jobRow, authority, writer, host, faults>>

\* The writer transaction stays open across the host call.  A stale context
\* is the one refusal that goes on to seal; a digest this job did not accept,
\* plan drift or an unavailable authority end the invocation as uncertain.
SubmitIfCurrent(w) ==
    /\ pc[w] = "submit"
    /\ writer = None
    /\ LET mayProve == Armed /\ accepted = digest[w] IN
       \/ /\ mayProve /\ authority = "current"
          /\ writer' = w
          /\ Send(w, "submitting", "execute", digest[w])
       \/ /\ mayProve /\ authority = "stale"
          /\ Goto(w, "seal")
          /\ UNCHANGED <<writer, calls>>
       \/ /\ ~mayProve \/ authority \in {"drift", "unavailable"}
          /\ Stop(w)
          /\ UNCHANGED <<writer, calls>>
    /\ UNCHANGED <<jobRow, authority, host, faults>>

\* _resolve: what to do with a state the host reported.
Resolve(w, state, allowSeal) ==
    \/ /\ state \in SubmissionPermitted \cup {"sealed_not_submitted"}
       /\ IF allowSeal THEN Goto(w, "seal") ELSE Stop(w)
       /\ UNCHANGED calls
    \/ /\ state = "running"
       /\ \/ Send(w, "inspect", "inspect", None)       \* poll again
          \/ Stop(w) /\ UNCHANGED calls                \* poll deadline
    \/ /\ state \in {"submitted", "terminal_failure", "error"}
       /\ Stop(w)
       /\ UNCHANGED calls
    \/ /\ state = "terminal_success"
       /\ Goto(w, "complete")
       /\ UNCHANGED calls

SubmissionReturned(w) ==
    /\ pc[w] = "submitting" /\ reply[w] # None
    /\ writer' = None
    /\ Resolve(w, reply[w], TRUE)
    /\ UNCHANGED <<jobRow, authority, host, faults>>

\* Mutant: a recovered operation that was never submitted is not sealed.
InspectReturned_NoSeal(w) ==
    /\ pc[w] = "inspect" /\ reply[w] # None
    /\ Resolve(w, reply[w], FALSE)
    /\ UNCHANGED <<jobRow, authority, writer, host, faults>>

\* Mutant: a terminal result found on recovery is only reported.
InspectReturned_ReportsTerminal(w) ==
    /\ pc[w] = "inspect" /\ reply[w] # None
    /\ \/ reply[w] \in TerminalPhases /\ Stop(w) /\ UNCHANGED calls
       \/ reply[w] \notin TerminalPhases /\ Resolve(w, reply[w], TRUE)
    /\ UNCHANGED <<jobRow, authority, writer, host, faults>>

InspectReturned(w) ==
    /\ pc[w] = "inspect" /\ reply[w] # None
    /\ Resolve(w, reply[w], TRUE)
    /\ UNCHANGED <<jobRow, authority, writer, host, faults>>

\* Mutant: an unsubmitted inspection is taken as proof, without the seal.
BeginSeal_TrustsInspection(w) ==
    /\ pc[w] = "seal" /\ writer = None
    /\ status' = IF Armed THEN "blocked" ELSE status
    /\ Stop(w)
    /\ UNCHANGED <<checkpoint, accepted, authority, writer, calls, host, faults>>

\* resolve_pre_mutation_block: the seal runs inside the writer transaction.
BeginSeal(w) ==
    /\ pc[w] = "seal"
    /\ writer = None
    /\ \/ Armed /\ writer' = w /\ Send(w, "sealing", "seal", None)
       \/ ~Armed /\ Stop(w) /\ UNCHANGED <<writer, calls>>
    /\ UNCHANGED <<jobRow, authority, host, faults>>

SealReturned(w) ==
    /\ pc[w] = "sealing" /\ reply[w] # None
    /\ writer' = None
    /\ \/ /\ reply[w] = "sealed_not_submitted"
          /\ status' = "blocked"
          /\ Stop(w)
          /\ UNCHANGED calls
       \/ /\ reply[w] # "sealed_not_submitted"
          /\ Resolve(w, reply[w], FALSE)
          /\ UNCHANGED status
    /\ UNCHANGED <<checkpoint, accepted, authority, host, faults>>

\* Mutant: the command's exit status is taken for the post-state proof.
CompleteMutation_TrustsExit(w) ==
    /\ pc[w] = "complete" /\ writer = None
    /\ checkpoint' = IF Armed THEN "mutation_completed" ELSE checkpoint
    /\ Stop(w)
    /\ UNCHANGED <<status, accepted, authority, writer, calls, host, faults>>

\* complete_package_update_mutation: only the independent dpkg post-state
\* proves completion; terminal evidence that does not prove it changes nothing.
CompleteMutation(w) ==
    /\ pc[w] = "complete"
    /\ writer = None
    /\ \/ /\ Armed /\ post = "proven"
          /\ checkpoint' = "mutation_completed"
       \/ /\ ~(Armed /\ post = "proven")
          /\ UNCHANGED checkpoint
    /\ Stop(w)
    /\ UNCHANGED <<status, accepted, authority, writer, calls, host, faults>>

\* A host read that fails, or a writer lock that stays busy past its timeout:
\* the invocation ends and leaves durable state alone.
AbandonInvocation(w) ==
    /\ \/ pc[w] = "evaluate"
       \/ pc[w] \in TxnPcs /\ writer # None
    /\ Stop(w)
    /\ UNCHANGED <<jobRow, authority, writer, calls, host, faults>>

-----------------------------------------------------------------------------
(* Host side: the helper processes.                                        *)

Advance(c, s) ==
    /\ step' = [step EXCEPT ![c] = s]
    /\ UNCHANGED <<op, arg, caller, answer>>

Finish(c, r) ==
    /\ step' = [step EXCEPT ![c] = "done"]
    /\ answer' = [answer EXCEPT ![c] = r]
    /\ UNCHANGED <<op, arg, caller>>

Journal(p, i, e) == phase' = p /\ intent' = i /\ post' = e

\* VmidMutationLease: a non-blocking flock, refused while anyone holds it.
AcquireLease(c) ==
    /\ step[c] = "sent" /\ op[c] # "inspect"
    /\ \/ lease = None /\ lease' = c /\ Advance(c, "leased")
       \/ lease # None /\ UNCHANGED lease /\ Finish(c, "error")
    /\ UNCHANGED <<jobRow, authority, writer, inv, journal, runner, guest, runs,
                   faults>>

\* _prepare writes nothing: it reports a journaled operation, or fresh
\* evidence.  Evidence can match the plan only on a guest still at it.
Prepare(c) ==
    /\ step[c] = "leased" /\ op[c] = "prepare"
    /\ lease' = None
    /\ \/ phase # "absent" /\ Finish(c, phase)
       \/ /\ phase = "absent"
          /\ \E d \in Evidence :
                /\ d \in MatchingEvidence => guest = "planned"
                /\ step' = [step EXCEPT ![c] = "done"]
                /\ answer' = [answer EXCEPT ![c] = "absent"]
                /\ arg' = [arg EXCEPT ![c] = d]
                /\ UNCHANGED <<op, caller>>
    /\ UNCHANGED <<jobRow, authority, writer, inv, journal, runner, guest, runs,
                   faults>>

Seal(c) ==
    /\ step[c] = "leased" /\ op[c] = "seal"
    /\ lease' = None
    /\ \/ /\ phase \in {"absent", "intent"}
          /\ Journal("sealed_not_submitted", None, "none")
          /\ Finish(c, "sealed_not_submitted")
       \/ /\ phase \notin {"absent", "intent"}
          /\ Finish(c, phase)
          /\ UNCHANGED journal
    /\ UNCHANGED <<jobRow, authority, writer, inv, runner, guest, runs, faults>>

\* _execute, first half: write the intent, or report what the journal says.
ExecuteIntent(c) ==
    /\ step[c] = "leased" /\ op[c] = "execute"
    /\ \/ /\ phase = "absent"
          /\ Journal("intent", arg[c], "none")
          /\ Advance(c, "intent")
          /\ UNCHANGED lease
       \/ /\ phase = "intent"
          /\ Advance(c, "intent")
          /\ UNCHANGED <<journal, lease>>
       \/ /\ phase \notin SubmissionPermitted
          /\ Finish(c, phase)
          /\ lease' = None
          /\ UNCHANGED journal
    /\ UNCHANGED <<jobRow, authority, writer, inv, runner, guest, runs, faults>>

\* _execute, second half: the exact evidence and installed versions, the
\* staged action gate, then a runner that holds the lease and awaits release.
ExecutePrepareRunner(c) ==
    /\ step[c] = "intent"
    /\ \/ /\ intent = arg[c] /\ guest = "planned"
          /\ runner' = "ready"
          /\ lease' = Runner
          /\ Advance(c, "prepared")
       \/ /\ intent # arg[c] \/ guest # "planned"
          /\ lease' = None
          /\ Finish(c, "error")
          /\ UNCHANGED runner
    /\ UNCHANGED <<jobRow, authority, writer, inv, journal, guest, runs, faults>>

\* The submission is durable before the runner may start.
ExecuteJournalSubmitted(c) ==
    /\ step[c] = "prepared"
    /\ Journal("submitted", None, "none")
    /\ Advance(c, "journaled")
    /\ UNCHANGED <<jobRow, authority, writer, inv, lease, runner, guest, runs,
                   faults>>

ExecuteRelease(c) ==
    /\ step[c] = "journaled"
    /\ runner' = "released"
    /\ Finish(c, "running")
    /\ UNCHANGED <<jobRow, authority, writer, inv, journal, lease, guest, runs,
                   faults>>

\* _inspect takes no lease: it reads the journal, and only then asks whether
\* the lease is held, which briefly takes it when nobody has it.
InspectRead(c) ==
    /\ step[c] = "sent" /\ op[c] = "inspect"
    /\ \/ phase = "submitted" /\ Advance(c, "probe")
       \/ phase # "submitted" /\ Finish(c, phase)
    /\ UNCHANGED <<jobRow, authority, writer, inv, host, faults>>

InspectProbe(c) ==
    /\ step[c] = "probe"
    /\ \/ lease = c    /\ lease' = None /\ Finish(c, "submitted")
       \/ lease = None /\ lease' = c    /\ UNCHANGED calls
       \/ lease \notin {c, None} /\ Finish(c, "running") /\ UNCHANGED lease
    /\ UNCHANGED <<jobRow, authority, writer, inv, journal, runner, guest, runs,
                   faults>>

\* The answer reaches the caller, if it still waits.
Deliver(c) ==
    /\ step[c] = "done"
    /\ op' = [op EXCEPT ![c] = "none"]
    /\ arg' = [arg EXCEPT ![c] = None]
    /\ caller' = [caller EXCEPT ![c] = None]
    /\ step' = [step EXCEPT ![c] = "free"]
    /\ answer' = [answer EXCEPT ![c] = None]
    /\ \/ caller[c] = None /\ UNCHANGED <<digest, reply>>
       \/ /\ caller[c] # None
          /\ reply' = [reply EXCEPT ![caller[c]] = answer[c]]
          /\ digest' = [digest EXCEPT ![caller[c]] = arg[c]]
    /\ UNCHANGED <<jobRow, authority, writer, pc, host, faults>>

-----------------------------------------------------------------------------
(* Host side: the detached runner.                                         *)

\* run_mutation starts apt-get.
RunnerStart ==
    /\ runner = "released"
    /\ runner' = "running"
    /\ runs' = runs + 1
    /\ UNCHANGED <<jobRow, authority, writer, inv, calls, journal, lease, guest,
                   faults>>

\* Mutant: the runner tries a failed command again.
RunnerFinish_Retries ==
    /\ runner = "running"
    /\ runner' = "released"
    /\ UNCHANGED <<jobRow, authority, writer, inv, calls, journal, lease, guest,
                   runs, faults>>

\* ... and journals its terminal result.  Off the plan the staged action gate
\* makes apt-get refuse.  A zero exit still leaves the post-state to be proved.
RunnerFinish ==
    /\ runner = "running"
    /\ \/ /\ guest = "planned"
          /\ guest' \in {"updated", "other"}
          /\ Journal("terminal_success", None,
                     IF guest' = "updated" THEN "proven" ELSE "unproven")
       \/ /\ guest' \in {guest, "other"}
          /\ Journal("terminal_failure", None, "unproven")
    /\ runner' = "none"
    /\ lease' = None
    /\ UNCHANGED <<jobRow, authority, writer, inv, calls, runs, faults>>

\* A runner whose launcher never released it reads end-of-file and exits.
RunnerExit ==
    /\ runner = "abandoned"
    /\ runner' = "none"
    /\ lease' = None
    /\ UNCHANGED <<jobRow, authority, writer, inv, calls, journal, guest, runs,
                   faults>>

-----------------------------------------------------------------------------
(* Faults and the environment.                                             *)

Fault == faults < MaxFaults /\ faults' = faults + 1

\* The caller stops waiting; the helper on the host knows nothing of it.
CallTimeout(w) ==
    /\ Fault
    /\ pc[w] \in WaitingPcs /\ reply[w] = None
    /\ reply' = [reply EXCEPT ![w] = "error"]
    /\ caller' = [c \in Calls |-> IF caller[c] = w THEN None ELSE caller[c]]
    /\ UNCHANGED <<jobRow, authority, writer, pc, digest, op, arg, step, answer,
                   host>>

\* A lost request, a helper killed or failing anywhere, or a lost answer.
\* A runner that was prepared but not released sees its pipe close.
HelperDies(c) ==
    /\ Fault
    /\ step[c] # "free"
    /\ Finish(c, "error")
    /\ lease' = IF lease = c THEN None ELSE lease
    /\ runner' = IF step[c] \in {"prepared", "journaled"} THEN "abandoned"
                 ELSE runner
    /\ UNCHANGED <<jobRow, authority, writer, inv, journal, guest, runs>>

\* The runner dies, or cannot journal its result, with the command started.
RunnerLost ==
    /\ Fault
    /\ runner = "running"
    /\ runner' = "none"
    /\ lease' = None
    /\ guest' \in {guest, "other"} \cup {g \in {"updated"} : guest = "planned"}
    /\ UNCHANGED <<jobRow, authority, writer, inv, calls, journal, runs>>

\* The host loses every process and every flock; the journal stays.
HostReboot ==
    /\ Fault
    /\ step' = [c \in Calls |-> IF step[c] = "free" THEN "free" ELSE "done"]
    /\ answer' = [c \in Calls |-> IF step[c] = "free" THEN None ELSE "error"]
    /\ lease' = None
    /\ runner' = "none"
    /\ guest' \in {guest} \cup {g \in {"other"} : runner = "running"}
    /\ UNCHANGED <<jobRow, authority, writer, inv, op, arg, caller, journal, runs>>

\* The backend process dies and starts again.  Its SSH calls go on without
\* it; startup recovery interrupts a job that provably submitted nothing.
BackendRestart ==
    /\ Fault
    /\ pc' = [w \in Invocations |-> "idle"]
    /\ digest' = [w \in Invocations |-> None]
    /\ reply' = [w \in Invocations |-> None]
    /\ writer' = None
    /\ caller' = [c \in Calls |-> None]
    /\ status' = IF AtGate THEN "interrupted" ELSE status
    /\ UNCHANGED <<checkpoint, accepted, authority, op, arg, step, answer, host>>

\* Discovery, scans and operator edits change what the proof finds.  They are
\* writers too, so never while an invocation holds the writer lock.
AuthorityMoves ==
    /\ writer = None
    /\ authority' \in AuthorityStates \ {authority}
    /\ UNCHANGED <<jobRow, writer, inv, calls, host, faults>>

\* Somebody else changes the guest's packages.
GuestDrifts ==
    /\ guest # "other"
    /\ guest' = "other"
    /\ UNCHANGED <<jobRow, authority, writer, inv, calls, journal, lease, runner,
                   runs, faults>>

-----------------------------------------------------------------------------

Init ==
    /\ status = "active" /\ checkpoint = "snapshot_confirmed" /\ accepted = None
    /\ authority = "current"
    /\ writer = None
    /\ pc = [w \in Invocations |-> "idle"]
    /\ digest = [w \in Invocations |-> None]
    /\ reply = [w \in Invocations |-> None]
    /\ op = [c \in Calls |-> "none"]
    /\ arg = [c \in Calls |-> None]
    /\ caller = [c \in Calls |-> None]
    /\ step = [c \in Calls |-> "free"]
    /\ answer = [c \in Calls |-> None]
    /\ phase = "absent" /\ intent = None /\ post = "none"
    /\ lease = None
    /\ runner = "none"
    /\ guest = "planned"
    /\ runs = 0
    /\ faults = 0

InvocationStep(w) ==
    \/ StartCycle(w) \/ RevalidateOrRelease(w) \/ EvaluatePlan(w)
    \/ BeginMutation(w) \/ PrepareReturned(w) \/ ArmMutation(w)
    \/ SubmitIfCurrent(w) \/ SubmissionReturned(w) \/ InspectReturned(w)
    \/ BeginSeal(w) \/ SealReturned(w) \/ CompleteMutation(w)

HelperStep(c) ==
    \/ AcquireLease(c) \/ Prepare(c) \/ Seal(c)
    \/ ExecuteIntent(c) \/ ExecutePrepareRunner(c)
    \/ ExecuteJournalSubmitted(c) \/ ExecuteRelease(c)
    \/ InspectRead(c) \/ InspectProbe(c) \/ Deliver(c)

RunnerStep == RunnerStart \/ RunnerFinish \/ RunnerExit

Next ==
    \/ \E w \in Invocations :
          InvocationStep(w) \/ AbandonInvocation(w) \/ CallTimeout(w)
    \/ \E c \in Calls : HelperStep(c) \/ HelperDies(c)
    \/ RunnerStep
    \/ RunnerLost \/ HostReboot \/ BackendRestart
    \/ AuthorityMoves \/ GuestDrifts

Spec == Init /\ [][Next]_vars

\* An invocation that was started runs to its end, helpers and the runner are
\* ordinary processes.  That another invocation starts is not assumed.
Fairness ==
    /\ \A w \in Invocations : WF_vars(pc[w] # "idle" /\ InvocationStep(w))
    /\ \A c \in Calls : WF_vars(HelperStep(c))
    /\ WF_vars(RunnerStep)

FairSpec == Spec /\ Fairness

\* The worker has no timer and no retry: one wake is one attempt, and only a
\* start, a resume, a rollback request or a restart of the backend wakes it
\* (_run_loop).  What must hold of the operator for a job to get anywhere: it
\* does not stay as it is without somebody asking again.
OperatorResumes == \A w \in Invocations : WF_vars(StartCycle(w))

-----------------------------------------------------------------------------
(* Properties.                                                             *)

TypeOK ==
    /\ status \in Statuses
    /\ checkpoint \in Checkpoints
    /\ accepted \in Evidence \cup {None}
    /\ authority \in AuthorityStates
    /\ writer \in Invocations \cup {None}
    /\ pc \in [Invocations -> Pcs]
    /\ digest \in [Invocations -> Evidence \cup {None}]
    /\ reply \in [Invocations -> Replies \cup {None}]
    /\ op \in [Calls -> Ops \cup {"none"}]
    /\ arg \in [Calls -> Evidence \cup {None}]
    /\ caller \in [Calls -> Invocations \cup {None}]
    /\ step \in [Calls -> HelperSteps]
    /\ answer \in [Calls -> Replies \cup {None}]
    /\ phase \in Phases
    /\ intent \in Evidence \cup {None}
    /\ post \in {"none", "proven", "unproven"}
    /\ lease \in Calls \cup {None, Runner}
    /\ runner \in RunnerStates
    /\ guest \in {"planned", "updated", "other"}
    /\ runs \in Nat
    /\ faults \in 0..MaxFaults

\* The package command of one job is started at most once, whatever crashes,
\* times out, or is retried (the helper's journal and lease discipline).
CommandRunsAtMostOnce == runs <= 1

\* A job the backend released (blocked by the gate, by the seal, or
\* interrupted at startup) never had and never will have its command run: a
\* delayed submission that is still on its way to the host cannot undo it.
ReleasedJobNeverRuns ==
    status # "active" => runs = 0 /\ runner \notin {"released", "running"}

\* The command only runs after the write-ahead checkpoint, and on evidence
\* whose plan equals the frozen plan and that the arming transaction accepted.
CommandIsWriteAheadAndAccepted ==
    runs > 0 => /\ checkpoint # "snapshot_confirmed"
                /\ accepted \in MatchingEvidence

\* mutation_completed is reached only over the durable terminal result of the
\* one run, with the dpkg post-state proving the plan.
CompletionIsProven ==
    checkpoint = "mutation_completed" =>
        /\ phase = "terminal_success" /\ post = "proven"
        /\ runs = 1

SubmitStep ==
    \A c \in Calls :
        step[c] = "prepared" /\ step'[c] = "journaled" /\ caller[c] # None
        => authority = "current" /\ writer = caller[c]

\* A helper whose caller still waits journals its submission only while that
\* caller holds the writer lock over an authority that is still current.
SubmitUnderCurrentAuthority == [][SubmitStep]_vars

JournalStep ==
    phase' # phase =>
        \/ phase = "absent" /\ phase' \in {"intent", "sealed_not_submitted"}
        \/ phase = "intent" /\ phase' \in {"submitted", "sealed_not_submitted"}
        \/ phase = "submitted" /\ phase' \in TerminalPhases

\* The journal never goes back: sealed and terminal records are final, and a
\* submitted operation can only become terminal.
JournalOnlyAdvances == [][JournalStep]_vars

\* If the operator resumes it as long as it stands still, an armed job whose
\* command was never submitted does not hold the job slot for ever: it is
\* sealed and released, or it is submitted after all.
ArmedIsResolved == OperatorResumes =>
    (Armed /\ phase \in SubmissionPermitted \cup {"sealed_not_submitted"})
        ~> (status = "blocked" \/ phase \in {"submitted"} \cup TerminalPhases)

\* If the operator resumes the job, a proven terminal result is recorded on it,
\* though the attempt that submitted the command ended uncertain or died.
ProvenRunCompletes == OperatorResumes =>
    (phase = "terminal_success" /\ post = "proven")
        ~> checkpoint = "mutation_completed"

\* The stage as the one host operation it promises: what the row says of the
\* package command, and what became of it.  A second run has no abstract name.
OperationStage ==
    IF status # "active" THEN "closed"
    ELSE IF checkpoint = "mutation_completed" THEN "confirmed"
    ELSE IF checkpoint = "snapshot_confirmed" THEN "open"
    ELSE "armed"

OperationEffect ==
    IF runs = 0 THEN "none"
    ELSE IF runs > 1 THEN "repeated"
    ELSE IF phase \notin TerminalPhases THEN "started"
    ELSE IF phase = "terminal_success" /\ post = "proven" THEN "achieved"
    ELSE "failed"

Operation == INSTANCE HostOperation
                 WITH stage <- OperationStage, effect <- OperationEffect

\* The package command is a host operation: armed before it starts, started
\* once, never for a released job, and completed only over a proven outcome.
ImplementsOperation == Operation!Spec
=============================================================================
