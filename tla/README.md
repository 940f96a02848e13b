# Formal verification of hubinet-ops

TLA+ models of hubinet-ops, the TLC configurations that check them on small
instances, and TLAPS proofs of their safety for every value of the constants.
Modules are translated from the code; `PROJECT.json` maps every definition to
the lines it stands for.

* [The system](#the-system): inventory of components, state, interactions
* [Modules](#modules): how state and actions correspond to the code
* [Runs](#runs): what TLC checks, bounds, fairness, findings
* [Proofs](#proofs): what is proved, and along which argument
* [Limits](#limits): what is only model-checked, what is not modelled
* [Plan](#plan)

To repeat the work, in this directory:

    tlc -workers 2 -config MutationStage.cfg MCMutationStage
    tlapm MutationStageProofs.tla

## The system

hubinet-ops updates the packages of Proxmox LXC guests. A backend in its own
container keeps all authority in one SQLite database; root helpers on the PVE
host, each reached by a forced SSH command, do the work; Home Assistant shows
the state and carries the operator's decisions. A package update goes through

    scan -> approve -> issue job -> snapshot -> execution gate -> mutation
         -> health verdict -> (rollback)        -> owed scan

| Component | State it keeps | Operations | What is hard |
|---|---|---|---|
| Discovery and reconciliation (`app/inventory/discovery.py`, `reconciliation.py`, `app/inventory_scheduler.py`) | discovery runs, resources, bindings, incarnations, source freshness | start, finalize, abandon a run; expire a source; quarantine or retire a resource | late results of abandoned runs, configuration changed during a run |
| Package scans (`app/package_scan*.py`) | scan runs with their plan rows, scan requests owed by jobs | issue, read the host, finalize, interrupt, wake | scans that asked the host before an update and finish after it; a lost wake; restarts |
| Plan approval and issuance (`app/inventory/authority.py`, `app/inventory_runtime.py`) | approvals, jobs | approve a reviewed scan, start an update, re-prove authority | the route reads before the transaction; two callers; idempotent retries |
| Health contracts (`health_contract.py`, `health_execution.py`) | contract generations per resource | default, replace, clear | cleared and declared again while a job holds the old one |
| Snapshot, mutation, rollback stages (`app/package_update_*.py`, `deploy/hubinet-package-*-helper.py`) | the job's checkpoint; on the host a journal, a lease (`flock`), a detached runner, a PVE task | prepare, arm (write-ahead), submit, inspect, seal, complete | a submission that outlives its caller; crash between any two steps; at most once |
| Health stage (`app/package_update_health.py`) | verdict of the job | evaluate once, record, record as unknown | verdict about a guest that was replaced |
| Worker and runtime (`app/package_update_worker.py`, `app/inventory_runtime.py`) | one active job for the whole installation | start, resume, recover at start-up | a job that never leaves its slot |
| Maintenance fence and product updater (`product_update_fence.py`, `deploy/lib/update-*.sh`) | fence file, activation journal | acquire, release, activate, restore | a file and a database kept consistent; late answers; partial activation |
| Home Assistant integration (`custom_components/hubinet_ops`) | last accepted snapshot, review references, Repairs | set up, refresh, review, approve, start, unload, new token | two reads that belong together; a stale review; a refresh that outlives its entry |
| Publication, configuration, bootstrap, scripts | none of protocol interest | read-only projections, one-shot installation | |

The components meet in three places. Inside the backend it is the SQLite writer
lock (`BEGIN IMMEDIATE`): every transaction is atomic, and two kinds of
transaction keep the lock while they look outside, at the host (submission
under current authority) or at the fence file. On the host it is the per-VMID
lease and the operation journal: helpers that were started by different calls,
some of whose callers are long dead, meet only there. Between the backend and
Home Assistant it is the published revision, which every visible change moves.

What makes the system correct:

* *Mutation*: the package command runs at most once per job, never for a job
  that was released, only behind its write-ahead checkpoint and on evidence
  equal to the approved plan; an armed job that is resumed does not hold the slot
  for ever.
* *Snapshot*: at most one submission; a confirmed snapshot exists and is the
  job's own; a job released as "never submitted" never is.
* *Plan authority*: a job freezes exactly what was approved, on a plan read
  after the last successful update; one success per approval; no job beside a
  maintenance fence; an owed scan is really made.
* *Health and rollback*: one verdict, and a job that succeeded was not rolled
  back; at most one rollback; "rolled back" and "never rolled back" are true of
  PVE; an armed rollback is submitted or released.
* *Discovery*: one run owns the source and only it is applied; the inventory is
  what the committed baselines say, a hidden guest is not a destroyed one, and
  "fresh" is never answered outside its interval.
* *Product updater*: an update ends in exactly the old or exactly the new
  installation, whatever fails or loses power; no fence without its run; the
  journal can always be resolved.
* *Home Assistant*: what it shows is one published state; nothing is approved
  that was not shown and current; it never refuses its own backend and always
  comes to show the present state.

`PROJECT.json` lists the hazards behind these properties, each at its line.

## Modules

### MutationStage

One job between `snapshot_confirmed` and `mutation_completed`.

* *Backend.* `status`, `checkpoint`, `accepted` are the job's row; `pc`,
  `digest`, `reply` the orchestrator invocations (`package_update_mutation.py`);
  `writer` is the invocation inside a transaction that stays open over a host
  call. `RevalidateOrRelease` and `EvaluatePlan` are the execution gate,
  `ArmMutation` the write-ahead transaction that compares prepared evidence
  with the frozen plan, `SubmitIfCurrent` the submission under the lock,
  `InspectReturned`, `BeginSeal`, `SealReturned` the recovery of an armed job,
  `CompleteMutation` the completing transaction.
* *Host.* `op` .. `answer` are helper processes, which live on when their caller
  is gone; `lease`, `phase`, `intent`, `post` the lock and the journal record;
  `runner` the detached process that calls `apt-get`; `runs` counts calls of it.
  The submitting helper is cut at each durable step: intent, runner prepared
  (the lease passes to it), `submitted` journaled, runner released.
* *Environment.* `CallTimeout`, `HelperDies`, `RunnerLost`, `HostReboot`,
  `BackendRestart` (all counted by `MaxFaults`), `AuthorityMoves`,
  `GuestDrifts`.

Evidence is a digest that equals the plan or not; a dpkg post-state proves the plan
or does not.

### SnapshotStage

One job between `issued` and `snapshot_confirmed`, with the same division. It
differs from the mutation stage where the code does: every helper operation
takes the lease; the work is a PVE task that nobody on our side controls
(`PveTaskStep`); the runner leaves a capture file that the launching helper or a
later inspection promotes into the journal; and authority is proved again at
the end. `release` remembers the event with which a job left `active`. A UPID
is the ordinal of its submission, so a second submission would be visible. An
inspection reads the listing and the task in two steps (`InspectListing`,
`InspectTask`), as the helper does. A listing that is ambiguous counts as
incomplete: the code treats both alike.

### PostMutation

One job from `mutation_may_have_started` to its end: health and rollback, which
share the job's row and may overtake each other.

* *Health.* `StartHealth`, `ProveHealthContext` (before and after the host is
  asked), `EvaluateHealth` (one read-only round trip, with any verdict or none)
  and `CompleteHealth`, where a passed verdict and the job's success are one
  update.
* *Request.* `RequestRollback` is the route's fresh listing, `ArmRollback` the
  transaction that decides over it; the listing may be out of date by then.
* *Rollback.* The division of SnapshotStage, with two differences of the code.
  `pvesh` is synchronous, so the runner keeps the lease until the PVE task is
  over (`RunnerCapture`). And nothing but the task's identity proves a rollback,
  since its result looks like that of an earlier one: without a capture the
  journal stays `submitted`, and the job fenced, for good. The launching helper
  writes `task_known` twice without the lease (`SubmitPromote`,
  `SubmitRewrite`), the second time perhaps over a `terminal` record.
* *World.* `context` is what the store's proof about the resource finds, `live`
  and `listing` what PVE would say; they disagree until discovery notices.

An uncertain or failed rollback and unknown health only append an event, which
is left out.

### PlanAuthority

Many resources, jobs, approvals and scans.

* *World.* `bind`, `guest`, `source`, `fresh`: what reconciliation makes of a
  resource (moved, stopped, unplaced, gone) and of its source.
* *Contracts.* `contract`, `rev`, `lastRev`: revisions never return to an old
  value, also over a clear.
* *Scans.* `attempts`, `scanLife`, `scanPlan`, ... are `package_scan_runs`;
  `lane`, `postQ`, `resQ`, `wake`, `exec` the scheduler's cycle: first the owed
  scans, then, when the cycle is a full one, every resource. The host read
  (`HostRead`) is a step between two transactions, and returns any plan.
* *Jobs.* `StartReads` is the route's read, `IssueBegins`/`IssueEnds` the issuing
  transaction around its look at the fence file; `JobAdvances` passes the
  checkpoints that matter here and proves authority again on the way to the
  mutation; `JobSucceeds` records success and the debt of a scan in one
  transaction; `JobEnds` is every other end (more generous than the code, which
  the stages refine).
* *Fence.* `FenceBegins`, `FenceWritten`, `FenceCommits`: the transaction checks
  for active jobs, writes the file, commits; `FenceReleased` deletes the file
  without the lock, as the updater does.
* *Restart* recovers jobs and scans and forgets calls, cycle and lock.

`sawSuccess` (which jobs had succeeded when a scan asked the host) and `withdrawn`
(jobs whose frozen contract changed) are history variables: no action reads
them.

### HostOperation

What the three stages have in common, as an abstract specification: a `stage`
of the job's row and an `effect` on the host. `Arm` is the write-ahead
checkpoint; `Start` and `Finish` the operation, which starts once and only for
an armed job; `Close` ends a job whose operation never started; `Conclude`
records an outcome the host has already reached. MutationStage, SnapshotStage
and PostMutation each define `OperationStage` and `OperationEffect` over their own
state, instantiate the module with them, and are shown to implement it
(`ImplementsOperation`): whatever journals, leases, runners and retries they
use, no reader of row and host can tell them from that two-variable machine.
A second start is mapped to an effect the abstract module does not have, and a
row that runs ahead of the host to a step it does not allow.

### ProductUpdate

`deploy/update-proxmox-0.5.sh` and its libraries, one process that may be killed,
and a machine that may lose power, at every step.

* *Disk.* `now` is what a path holds, `may` the set of states a power loss can
  leave it in; a rename or a write adds to `may`, and only the flush of the file
  system that holds the path (`FsOf`) shrinks it. The database, boot activation
  and the fence file are kept the same way. `/opt`, `/etc` and `/var` of the
  container are separate, the host root, with the journal, is one.
* *Run.* `BeginRun` .. `ClearJournal`: journal, plan, fence, disable, stop, the swap of
  each artifact as a sequence of operations (`todo`), start, marker, re-enable,
  completed checkpoint, release of the fence, cleanup, clearing of the journal.
  Any command may fail (`CommandFails`, which leads to the exit trap), the
  process may be killed, the host may lose power: `MaxFaults` in all.
* *Recovery.* `RecoveryGate` is the next invocation's look at the journal:
  untouched, completed, or a rollback of everything the ledger names, itself
  interruptible and repeatable (`UndoApp`, `UndoUnit`, `UndoDb`, ...).
* *Backend.* `ServeFence` answers the fence client, which gives up after its
  timeout (`ClientGone`); a workload job may start whenever no fence stops it.

The initial states are an installation made by this updater and one from before
it, without marker and fence route. The plan is a choice among kinds of update.
Ownership checks, staging, revalidation and the acceptance probes are commands
that may fail. Staged copies and the tool copied to the container's `/tmp` are
left out, the key files of a host boundary are part of it. The client inherits
the run lock, so a kill during the fence wait ends the run only when the answer
came. A run whose target was accepted is the last one.

### Discovery

How the authority learns what exists: `run_discovery_cycle`, the provider's
requests one by one, finalization, reconciliation, expiry, and the start-up of
the process with an edited configuration.

* *Ownership.* `issued`, `active`, `committed`, `life`, `runCtx` are the source's
  run sequences. Workers are executions of the cycle: the runtime starts one,
  and several compete here because single flight is the authority's promise and
  the scheduler's in-process lock is left out. A cycle may outlive its process
  (`MayLinger`), since `stop()` only expects it to exit.
* *Reads.* Each request is a step and sees the world of its moment: guests and
  nodes change, permissions are granted, replaced or cut in between. A
  standalone node has two guest lists, a cluster one.
* *Reconciliation.* `ReconcileSlot`, `ReconcileNode`: incarnations, bindings,
  quarantine, retirement, default contracts.
* *Time.* `clock` advances between any two steps and may be set back.
  The observation time is read with the issue, the commit time before the
  transaction. `AskFreshness` is every guarded reader.

`log` (the committed baselines), `expired`, `granted` and `steady` are history.
A partial outcome does not occur at runtime. `AuditOnly` is kept although
`SourceIsConsistent` shows that its case cannot arise: the context of an owner
does not change.

### InventoryReader

Extends Discovery with `Poll`: Home Assistant reads the published view
(`View`, `app/inventory/publication.py`) whenever it likes and checks it alone
(`ValidSnapshot`) and against the view it holds (`ValidTransition`). The two
sides are separate programs with separate rules; that they agree is the
property. A resource is named by its locator and generation; names, facts,
packages, plans, jobs and the endpoint's identity are left out of the view.

### OperatorConsole

The integration as an asynchronous client. `refresh` are refreshes, two requests
and a bounded retry each; `call` are operator actions (review, approve), each cut
at every await; `wire` holds approvals that are sent and may be late; `reviewed`,
`known`, `entities`, `issues` are what the coordinator remembers, and `issues`
(the Repairs) outlives a restart. The backend is what its routes show:
revisions, plans, approvals, contracts, the fence, and a product update that puts
another authority behind the address and brings the first one back. A scan
number stands for a scan run and the fingerprint of its plan.

Every setup of the entry makes a new coordinator, a `session`. `Unload` is
`async_unload_entry`: it clears the Repairs and forgets the coordinator, and
cancels nothing, so refreshes and actions of a former session go on. What such a
refresh still does to the outside is to write the entry's Repairs (`AcceptLate`;
`outdated` remembers it). `AuthFails` is the refused token
(`ConfigEntryAuthFailed`), after which no refresh is scheduled until one that an
operator's action asks for succeeds or `Reauthenticate` reloads the entry with a
new token; `RequestFails` is every other failure, after which the next refresh
comes. Refreshes also run while the platforms are set up (`entry = "forwarding"`).

Taken from Home Assistant and not from this repository: its update coordinator
serializes the refreshes of one coordinator, starts its interval with the first
listener, begins no refresh for an entry that is unloaded, and schedules none
after `ConfigEntryAuthFailed`. The unload is one step: what a refresh does while
the platforms are being unloaded is cleared with the rest. The platforms are one
platform, that of the buttons; each lists the resources and subscribes to new
ones without an await in between. Start, resume, rollback and the health-contract
services send one request and keep nothing; they are left out.

The `MC*` modules only give the constants values and define symmetry sets.
Operators named `X_Variant` are mutated forms of `X`, used to see that each
property notices the bug it is about; no action uses them.

## Runs

| Run | Checks | Instance | Distinct states |
|---|---|---|---|
| `mutation` | ReleasedJobNeverRuns, CommandIsWriteAheadAndAccepted, ImplementsOperation, SubmitUnderCurrentAuthority, ArmedIsResolved, ProvenRunCompletes | 1 invocation, 2 helpers, matching and other evidence, 3 faults | 0.18 M |
| `snapshot` | RowIsTrue, ImplementsOperation, StaleContextIsReleased, StandingSnapshotIsResolved | 1 invocation, 2 helpers, 1 fault | 0.17 M |
| `plan_safety` | PlanSeenAfterLastSuccess, ApprovalSucceedsOnce, FrozenPlanWasApproved, MutationKeepsContract | 1 resource, 3 plans (one empty), 1 caller with 2 request ids, 2 jobs, 2 approvals, 1 move, 1 fault | 2.1 M |
| `plan_liveness` | FenceExcludesJobs, OwedScanIsSettled | 1 resource, 1 job, 1 updater run, 1 move, 1 fault | 0.27 M |
| `post` | RowIsTrue, ImplementsOperation, NoLateVerdict, SubmitUnderCurrentContext, ArmedIsResolved, SuccessfulRollbackIsRecorded | 1 invocation, 2 helpers, 1 fault, 2 moves | 0.26 M |
| `update` | EndsWhole, FenceIsTheRuns, WritesSurvive, JournalResolved | 4 kinds of update, 2 kinds of old installation, 2 runs, 4 faults | 0.49 M |
| `update_reboot` | NeverMixed (violated) | 3 kinds of update, 2 faults | |
| `discovery` | SourceIsConsistent, OnlyTheOwnerIsApplied | cluster, 2 workers, 2 runs, 1 edit, 1 change of guest or node, 1 process end | 0.66 M |
| `discovery_liveness` | OwnerLetsGo | the same with 1 change of permissions in place of the guest's or node's | 0.50 M |
| `discovery_clock` | FreshIsEarned, GrantedInTime, GrantedOnRecentReads | 1 worker, 2 runs, clock to 3, set back once, 1 edit, 1 process end, 1 failed transaction | 2.6 M |
| `inventory_reader` | ReaderAccepts, InventoryIsItsHistory, CompleteIsTruthful, NoGapHidden | standalone with a container, 3 runs, 2 changes of the guest, 1 change of permissions | 0.96 M |
| `operator_console` | ConsoleIsCoherent, ApprovedWasShown, StaleReviewsGo, Converges | 2 resources, one of which appears later, 2 actions, 1 revision beyond approvals, 1 mishap: failed request, refused token, fence change, authority swap, unload or restart | 0.53 M |

`RowIsTrue`, `EndsWhole`, `FenceIsTheRuns`, `SourceIsConsistent` and
`ConsoleIsCoherent` are conjunctions of named invariants, each with its own
comment, and contain the type invariants.

Further instances, for a reader who wants another size or another question:

* `SnapshotStageTwo.cfg` (two invocations, one fault, 3.1 M states) and
  `SnapshotStageFaults.cfg` (one invocation, two faults, 0.62 M states): RowIsTrue
  and ImplementsOperation hold.
* `PostMutationTwo.cfg` (two invocations, one fault, 4.1 M states) and
  `PostMutationFaults.cfg` (one invocation, two faults, 1.0 M states): RowIsTrue,
  ImplementsOperation, NoLateVerdict and SubmitUnderCurrentContext hold.
* `PlanAuthorityFence.cfg` (two resources, callers, jobs and updater runs):
  FenceExcludesJobs holds.
* `DiscoveryCluster.cfg` (two nodes, one of which may join between two reads):
  NoStrandedRun, InventoryIsItsHistory and CompleteIsTruthful hold.
* `InventoryReaderClock.cfg` (clock, expiry made durable by the read, an edit, a
  process end): ReaderAccepts holds. The run `inventory_reader` has no clock, edit or
  process end; this instance and the theorem NeverRefused cover them.
* `OperatorConsoleTwo.cfg` (one resource, one action, two mishaps, 0.72 M states):
  the properties of `operator_console` hold.
* six configurations of the findings below.

*Why these bounds are enough.* Two helper slots are what a race needs: one
orphan of a dead call and one of the call that follows it. Two invocations are
the worker and a resume that overlaps it. They are given where they matter for
safety (`PostMutationTwo.cfg`, `SnapshotStageTwo.cfg`, the proofs of the stages);
liveness is claimed for the single worker the backend has, because two
invocations that contend for the host's lease can keep each other off it. The
mutation run has three faults, since its interesting histories need one to lose
the caller and one to lose the helper or the host; the snapshot stage has a
further process, the PVE task, that lives on by itself. The two
moves of PostMutation (`MaxMoves`: requests, changes of the resource or of its
snapshots) are the request itself and one change that comes between any two of
its steps, or a second request. In
`plan_safety` two jobs and two approvals on one resource are needed, and
suffice, to use a plan or an approval twice; resources share nothing but the
job slot and the fence, which `PlanAuthorityFence.cfg` gives two of everything.
The proofs remove these bounds from the safety properties of every module. An update with four faults can fail, be killed in the rollback,
lose power in the replay and fail in the next one; a second run is what could
meet the leavings of the first. Two discovery runs are what single flight needs,
three baselines what a gap needs: seen, not seen, seen. One change of permissions
is also what `CompleteIsTruthful` is about: two that cancel out between the two
reads around a baseline are not noticed by the code either. A clock to 3 passes
every boundary of an interval of 1 or 2. Two actions of the console are a review
and an approval, or two reviews; two approvals of one review are in
`OperatorConsoleReplay.cfg`, which has three actions, and in the theorem
PlansWereShown. The revision between them may come from a scan, an expiry, a
contract or a new resource. One mishap is enough to leave a refresh running
beside the one of the next setup; a second (`OperatorConsoleTwo.cfg`) can strike
that one too.

Deadlock is checked in MutationStage, SnapshotStage and PlanAuthority, where some
environment step or the next worker cycle is always possible. A job of
PostMutation ends or waits for its operator, an update ends, and Discovery,
InventoryReader and OperatorConsole stop at the bounds on runs and revisions.

*Fairness.* In the stages: an invocation that began goes on; helper, runner and
PVE task are ordinary processes. Faults are never fair. That another invocation
begins is not assumed: the worker has no timer and no retry
(`package_update_worker.py:36`), one wake is one attempt, and only a start, a
resume, a rollback request or a restart wakes it again. It is a premise of each
liveness property of the stages, `OperatorResumes`: the operator resumes a job
whose worker is idle. Without it an attempt that ended uncertain leaves its job
active, and the properties fail. In PostMutation discovery is fair too, strongly because other writers hold the
lock now and then: it scans periodically, and finds that a guest left. In
PlanAuthority: the periodic deadline of the scheduler comes round (weak
fairness of the full cycle); the scheduler's transactions and the renewal of
the source are strongly fair, since other writers may take the lock in between
but each waits for it with a budget longer than any critical section
(`contention_policy.py`); a transaction that holds the lock ends. Nothing is
assumed of operators, callers, product updates or the inventory. In
ProductUpdate an invoked updater runs on, the backend serves its request, and
the operator reruns the updater while a journal asks for it, as its messages
tell him to. In Discovery a cycle in flight goes on (every request has a
timeout, every transaction a busy timeout) and a service that is down is started
again by systemd. In OperatorConsole Home Assistant refreshes on its interval
and retries a failed setup as long as one is scheduled, a refresh in flight goes
on, also that of a former session, and a product updater ends what it began.
After a refused token nothing is scheduled; that the operator answers Home
Assistant's request for another is the premise `OperatorReauthenticates` of the two
liveness properties.

`OwedScanIsSettled` excludes two cases by name. The resource may stay away for
good. And a scan cycle that fails in its finalization leaves an ordinary scan
RUNNING; the unique index then refuses every other scan of that resource until
the next restart, the owed one too.

### Findings

* `update_reboot`. `deploy/lib/update-activate.sh:13` says that the service is
  disabled "for the whole mutation window so a PVE/CT reboot can never
  boot-activate a half-swapped installation". A rollback that begins, or is
  replayed, after boot activation was restored does not disable it again; a
  power loss in the middle of it boots old and new pieces together.
  `MixedOnlyAfterReenable`, a part of `EndsWhole`, shows that this is the only
  way to a mixture.

Six more disagreements between a statement of the repository and the code were
met while modelling. Each has its configuration, in which TLC finds the property
violated:

* `SnapshotStageFence.cfg`, MovedOnAuthorityNeverFences.
  `package_update_snapshot.py:554` says that a refused submission must never
  fence the job's global slot merely because authority moved on. It does when it
  moved on by plan drift: the proof then raises a plain `AuthorityConflict`
  (`authority.py:2461`), which is not turned into a refusal before the callback;
  the orchestrator reports an uncertain outcome and does not seal, in every
  later cycle too. For a stale resource or source context the statement holds:
  `StaleContextIsReleased`.
* `SnapshotStageUndecided.cfg`, UndecidedAuthorityNeverReleases.
  `ARCHITECTURE.md:1487` says that while a scan runs the authority is undecided
  and the job stays ACTIVE for retry. At confirmation the resolver for stale
  authority catches the conflict raised for "temporarily unavailable" as well
  and blocks the job, with its snapshot retained.
* `DiscoveryStranded.cfg`, NoStrandedRun. The docstring at
  `inventory_scheduler.py:282` says that once a run is claimed no exception
  leaves it durably stranded. `issue_discovery_run` commits the claim and reads
  the run back; an error of that read leaves before the safety net is entered,
  and so does a database error of the safety net itself. Every later cycle is
  refused until the process restarts. (`OwnerLetsGo` is checked without
  database errors for this reason.)
* `ProductUpdateFence.cfg`, NoOrphanFence. The comment at
  `hubinet-ops-update-fence.py:89` describes a fence written after its run gave
  up as closed by the client's timeout. It is while the client lives: an INT or
  TERM while the backend waits for the writer lock ends the client at once, the
  exit trap clears the journal, and the pending request writes a fence that no
  later invocation can match.
* `OperatorConsoleReplay.cfg`, NoBlindReplay. `services.py:479` says that a
  timeout must never turn a second press into a replay of an approval. The
  reference is read before an await, so a second press that read it meanwhile
  sends the approval again after the first one timed out. The authority's
  idempotent approval makes the replay harmless while it is not consumed.
* `OperatorConsoleUnload.cfg`, NoRepairsWhileUnloaded. `coordinator.py:455` says
  that a removed or reloaded entry must not leave a stale Repairs entry behind.
  `async_unload_entry` clears them and cancels no refresh: one in flight (an action
  ends by asking for one) accepts its pair afterwards and raises them again. A new
  setup puts them right with its own refreshes (`Converges`); after a removal
  nothing does.

## Proofs

Eight modules prove every safety property that the passing runs check, for all
values of the constants that satisfy the modules' assumptions. Every leaf is
checked by SMT, Zenon or (temporal steps) LS4; what the inductive invariants add
to the properties was checked by TLC first.

| Module | Theorems | Conditions |
|---|---|---|
| `MutationStageProofs` | TypeCorrect, Inductive, AtMostOnce, ReleaseIsFinal, WriteAhead, CompletionProven, JournalAdvances, SubmissionUnderAuthority, MutationRefines | |
| `SnapshotStageProofs` | Inductive, RowTrue, SnapshotImplements | |
| `PostMutationProofs` | Inductive, RowTrue, VerdictStands, SubmissionUnderContext, RollbackImplements | |
| `PlanAuthorityProofs` | PlanTypeCorrect, PlanInductive, NoPlanFromBeforeSuccess, OneSuccessPerApproval, FrozenIsApproved, MutationUnderFrozenContract, FenceIsExclusive, OwedScansAreHonest | |
| `ProductUpdateProofs` | Inductive, WholeEndings, FenceCovers, FenceHolds, WritesStand | FenceHolds: no interrupted client leaves a request |
| `DiscoveryProofs` | Inductive, SourceConsistent, FreshEarned, OwnerApplies, AnswersInTime, AnswersOnRecentReads, HistoryHolds, BaselineIsTruthful, NothingStranded | BaselineIsTruthful: at most one change of permissions; NothingStranded: no failed database access |
| `InventoryReaderProofs` | ReaderInductive, NeverRefused, ViewsSucceed, GapsAreShown | |
| `OperatorConsoleProofs` | Inductive, ConsoleCoherent, PlansWereShown | |

*Assumptions.* The special values (`None`, `Runner`) are distinct from the others
(in InventoryReader from every context, resource name and source record, in
OperatorConsole from every answer of a route), bounds are natural numbers, flags are Booleans, the matching evidence is
evidence, initial guests are guests, and a standalone node is the only node.
`PlansAssumption` says what the updater's plan can be: the application is always
replaced, the marker is not part of the change, and requirements and virtual
environment are replaced together, as `update-activate.sh` does.

*Conditions.* The three conditions are no conveniences of the proof; without each
of them the code breaks the property. `ProductUpdateFence.cfg` and
`DiscoveryStranded.cfg` show two of them (see Findings); two changes of the
permissions that cancel out between the two reads around a baseline are seen by
no request of the cycle.

**MutationStage.** "At most once" is not inductive: a state with an unused
runner, a submission under way and a journal that says `intent` satisfies it and
runs the command twice. The inductive invariant adds

* `LeaseInv`: the lease has one holder, inside its critical section; a runner
  that exists holds it;
* `LaunchInv`: how far a launch is, against journal and command count;
* `RunInv`: the journal's phase tells whether the command was started;
* `JobInv`: before arming nothing was sent that writes the journal; afterwards
  the accepted evidence matches, and a release rests on a seal;
* `AnswerInv`: an answer under way about a final phase is still true when used;
* `CallerInv`, `WriterInv`: a waiting caller has exactly one call, and calls made
  under the writer lock keep it.

The refinement `MutationRefines` says that the stage implements HostOperation. A step of the backend changes only the row and a step
of the host only journal and command, so the refinement is two arguments:
`RowStep` is all a backend step may do to the row and `CommandStep` all a host
step may do to the command, and under the inductive invariant each is a step of
the abstract operation or a stutter.

**SnapshotStage, PostMutation.** Their invariants have the same parts, because the
three host protocols are built alike. What differs is that PVE's task lives on by
itself and that a capture file comes between task and journal:

* `LaunchInv` adds what a helper holds while it has the lease or has just given
  it up: a capture that is being promoted is still the journal's, or was promoted
  by somebody else; a snapshot that was listed as present stays;
* `RunInv` adds that capture and journaled task are nothing or the one task PVE
  was asked for, and that only a journaled submission has a capture;
* `JobInv` says what a released or confirmed row is borne out by: a seal, a failed
  task without a snapshot, or a standing snapshot; in PostMutation also that a
  verdict closes the evaluation and arming ends it;
* `AnswerInv` is the delicate part: each answer is collected in several steps
  and used later, so it must be about facts that no longer change.

`RowTrue`, and `VerdictStands` and `SubmissionUnderContext` of PostMutation, follow
from the parts; `SnapshotImplements` and `RollbackImplements` are the two arguments
of the mutation stage again.

**PlanAuthority.** The variables fall into groups, and most actions touch one
or two of them; a frame lemma per action says which, so that each conjunct is
argued only over the actions that disturb it:

* `TypeInv`: types, and that calls, jobs and queues name existing things;
* `FenceInv`: who holds the writer lock, what it saw there, and that nobody can
  have falsified it since; gives `FenceIsExclusive`;
* `SlotInv`: only the newest job can be active, and not on an approval that was
  used up; gives `OneSuccessPerApproval`;
* `ContractInv`: revisions only grow, so a withdrawn generation never becomes
  current again; gives `MutationUnderFrozenContract`;
* `ScanInv`, `ApprovedInv`: finished scans do not change, approvals and jobs rest
  on successful, non-empty ones; give `FrozenIsApproved`;
* `OwesInv`, `ClaimedInv`, `SeenInv`: only successful jobs owe and claim scans, and
  the claimed scan and every later one of the resource asked the host after
  the success; give `OwedScansAreHonest` and, with the rule that nothing is
  issued while a scan is owed, `NoPlanFromBeforeSuccess`.

**ProductUpdate.** `EndsWhole` speaks of endings; the invariant has to say of every
intermediate state that its recovery leads to one, for every outcome of a
power loss at every moment:

* `PcInv`: where the process is and what the journal says go together;
* `LedgerInv`: while the journal is active, its ledger is an upper bound of what
  was touched, and in every state a power loss may leave (`may`) the old content
  of an artifact is live or preserved;
* `BootInv`: boot activation is away whenever something was touched and the run
  has not restored it; gives `MixedOnlyAfterReenable`;
* `CalmInv`, `DoneInv`: with nothing touched the old installation is there for
  sure, with the target accepted the new one;
* `SwapInv`, `SwapHand`: forwards, an artifact is untouched, in hand or new, and
  one in hand was journaled and preserved before it was replaced;
* `UndoneInv`, `UndoHand`: backwards, an artifact is still to be undone, in hand
  or back, and durably back before the journal says so;
* `FenceInv`: a request carries the running run's name, and from the answer on
  the fence is durable and no workload update is active.

`SwapLeft` and `UndoLeft` list what can be left of the operations on an artifact,
so that each case of the proof is about one operation. `WritesStand` rests on
`CalmInv` (what the restored service wrote is the only state of the database)
and on the `restored` entry of the ledger, which keeps a replay off it.

**Discovery.** `IInv` has the parts that ownership and freshness need:

* `OwnerInv`, `WorkInv`: the owner is the run issued last and newer than every
  run that had a say; a worker has a run of its own; with `HealthIsNewest` and
  `ContextInv` (the context of an owner does not change) they give
  `SourceConsistent` and `OwnerApplies`;
* `FreshInv`: only a newer run than the ones found expired makes the source fresh
  again; gives `FreshEarned` and `AnswersInTime`;
* `ClockInv`: while the clock is not set back, what a worker took down is ordered;
  gives `AnswersOnRecentReads`.

Three further invariants are proved on top of it. `HistoryInv` reads incarnation,
generation, binding and lifecycle of each locator from the log of committed
baselines (`Traced`, `NodeTraced`) and shows that one more baseline, reconciled,
is one more entry read: `HistoryHolds`. `TruthInv` carries what a list said
through the changes of guests and permissions until the second read of the
permissions: `BaselineIsTruthful`. `StrandInv` follows an owner through the process
end and start-up: `NothingStranded`.

**InventoryReader.** `ReaderAccepts` relates two programs: what
`publication.py` writes and what the integration's validators demand. The reader
may also skip any number of views, so the invariant must say of a view read long
ago that the present one is still a valid successor of it. `ReaderInv` is
Discovery's `IInv` and

* `SourceInv`: the row of the source against runs, contexts and the origin of its
  health, which is what `validate_source` compares;
* `StockInv`: rows of guests are well formed, a node that a row names has a row of
  its own, and nothing is there before the first baseline;
* `ReadInv`: a baseline that is about to be committed lists the node of every
  guest in it, without which `StockInv` would not survive the commit;
* `TraceInv`: a guest shown as active was sighted, with its type, in every
  baseline since it appeared;
* `HeldInv`: the held view is valid, the present one is a valid successor of it,
  and no resource in it has appeared anew since.

`StepEffect` sorts the steps by what they do to what is published: nothing, the
source created, its context moved, expired, a run moved, a run failed, a baseline
applied. `StepSucceeds` shows that each leaves a valid successor, which is
`ViewsSucceed`. `TransitionsCompose` shows that valid transitions compose, so a
reader that skips views is never refused: `NeverRefused`. Composition is the
fact that a test of two consecutive snapshots does not show; it is proved rule by
rule of `validate_transition`, from revisions and run numbers that only grow and
from the validity of the view in between. `GapsAreShown` follows from `TraceInv`
and `HeldInv`.

**OperatorConsole.** The coordinator awaits two answers and then acts on what it
holds by then; the invariant says what stays true of an answer while it is on
its way:

* `WasPublished`: a view that was read carries an older revision, or the present
  one and then exactly the present state. This is what lets two answers of equal
  revision be taken as one coherent pair;
* `SessionInv`: each session costs a mishap, and a refused token one that no
  session has used, so the next coordinator always has a number of its own;
* `EntryInv`: the entry holds a pair exactly when it got past its first refresh,
  and announced nothing before its platforms were set up; with `EntitiesOnce`,
  which is inductive only together with it, no entity is added twice, although
  refreshes run while the platforms are set up;
* `RefreshesInv`, `PairInv`: every refresh in flight, of whatever session, and the
  pair that is held were published, the pair is coherent, and the persisted
  Repairs are its own unless a former coordinator wrote since; give
  `ConsoleCoherent`;
* `ShownInv`: what is remembered as reviewed, carried by an action or on the wire
  was shown to the operator; gives `PlansWereShown`.

## Limits

*Only model-checked.* All liveness, since the prover does not do fairness:
ArmedIsResolved, ProvenRunCompletes, StaleContextIsReleased,
StandingSnapshotIsResolved, OwedScanIsSettled, SuccessfulRollbackIsRecorded,
JournalResolved, OwnerLetsGo, StaleReviewsGo, Converges. `InventoryIsItsHistory` and
`CompleteIsTruthful` are proved of Discovery, whose actions InventoryReader takes
over unchanged; its run checks them once more with the reader beside them.

*Abstracted.* Package lists, digests and fingerprints are opaque values, equal
or not. The execution gate's probes and the host's answers to a scan are any
answer, like the probes of a health evaluation. Journal writes are one step, so
torn temporary files are not seen. Operators who delete a job's snapshot by
hand are outside SnapshotStage. `expected_revision` of the contract routes is not
modelled. In PlanAuthority a discovery run is one step; Discovery has its inside.

*Not modelled.* Configuration parsing, the scan and health helpers' commands and
parsing, the text of entities and notifications, the bootstrap installer and the
repository's scripts hold no protocol state. The order of the stages, which the
worker takes from the job's checkpoint, appears as each stage's guard on that
checkpoint and not as a module of its own.

## Plan

Modelled so far: MutationStage, SnapshotStage, PostMutation and the HostOperation
they implement; PlanAuthority; ProductUpdate; Discovery and InventoryReader;
OperatorConsole. Their safety is proved. Left: the health helper's settling window
(rounds, deadline, when a round is decisive), with `aggregate_health_outcome`
against a reference definition.
