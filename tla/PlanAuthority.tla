--------------------------- MODULE PlanAuthority ---------------------------
(***************************************************************************)
(* Who may start a package update, and on which plan.  The package scans   *)
(* of each resource, the operator's approval of one exact scanned plan,    *)
(* the start route that turns the approval into the one ACTIVE job, the    *)
(* scan every successful job owes its resource, startup recovery, and the  *)
(* maintenance fence by which a product update keeps workload jobs out.    *)
(*                                                                         *)
(* Every database transaction is one atomic step, because BEGIN IMMEDIATE  *)
(* admits one writer; the two transactions that look outside the database, *)
(* at the fence file, are taken apart into the steps the file can see.     *)
(* The stages a running job goes through are modules of their own; here a  *)
(* job only passes the checkpoints that matter to recovery.                *)
(***************************************************************************)
EXTENDS Integers

CONSTANTS
    Resources,          \* LXC resources
    Plans,              \* exact package plans, identified by fingerprint
    EmptyPlan,          \* the plan with no package rows
    Callers,            \* start requests in flight at the HTTP routes
    RequestIds,         \* idempotency keys the callers may use
    Holders,            \* product-update runs
    MaxJobs,            \* bound: jobs ever issued
    MaxApprovals,       \* bound: approvals ever written
    MaxPeriodicScans,   \* bound: attempts after which none is periodic
    MaxMoves,           \* bound: changes of inventory or source context
    MaxFaults,          \* bound: restarts and failed scan cycles
    None                \* "nothing" of any kind

Jobs      == 1 .. MaxJobs
Approvals == 1 .. MaxApprovals

\* Room for every owed scan: each job owes one, and it is never refused.
MaxScans == MaxPeriodicScans + MaxJobs
Scans    == Resources \X (1 .. MaxScans)

ASSUME PlanAuthorityAssumption ==
    /\ EmptyPlan \in Plans
    /\ MaxJobs \in Nat /\ MaxApprovals \in Nat /\ MaxPeriodicScans \in Nat
    /\ MaxMoves \in Nat /\ MaxFaults \in Nat
    /\ Callers \cap Holders = {}
    /\ None \notin Resources \cup Plans \cup Callers \cup RequestIds
                     \cup Holders \cup Scans \cup Approvals

VARIABLES
    bind, guest, source, fresh, moves,        \* inventory and source context
    contract, rev, lastRev,                   \* health contract, its revision
    attempts, scanLife, scanPlan, scanBind, scanSource, \* package_scan_runs
    sawSuccess,         \* per scan: jobs that had succeeded at its host read
    current, approvals, apprScan,             \* package_plan_approvals
    issued, status, stage, jobScan, jobAppr, jobReq, jobRev, \* update jobs
    withdrawn,          \* jobs whose frozen contract changed before mutation
    owed, owedScan,                           \* post-update scan requests
    lane, full, postQ, skip, resQ, wake,      \* the scan scheduler's cycle
    exec, execPc, result,                     \* the run it is executing
    callPc, callReq, callRes, callAppr,       \* start requests
    lock, fence, holdPc,                      \* writer lock, fence file
    faults

world == <<bind, guest, source, fresh, moves>>
health == <<contract, rev, lastRev, withdrawn>>
scans == <<attempts, scanLife, scanPlan, scanBind, scanSource, sawSuccess>>
appr  == <<current, approvals, apprScan>>
jobs  == <<issued, status, stage, jobScan, jobAppr, jobReq, jobRev>>
owes  == <<owed, owedScan>>
cycle == <<lane, full, postQ, skip, resQ, wake>>
run   == <<exec, execPc, result>>
calls == <<callPc, callReq, callRes, callAppr>>
maint == <<fence, holdPc>>
vars  == <<world, health, scans, appr, jobs, owes, cycle, run, calls, lock,
           maint, faults>>

-----------------------------------------------------------------------------

\* A guest whose node is not resolved is "unplaced"; one that was missing
\* from a complete baseline is quarantined for good, or retired: "gone".
Guests == {"running", "stopped", "unplaced", "gone"}

\* The bindings a guest can have, one per node it can be placed on.
Placements == 0 .. MaxMoves

\* Declared probe sets: the built-in default, another one the executor can
\* run, and one it cannot represent.  "none" is an unconfigured resource.
Executable == {"default", "custom"}
Contracts  == Executable \cup {"opaque"}

WorldOK ==
    /\ bind \in [Resources -> Placements]
    /\ guest \in [Resources -> Guests]
    /\ source \in Nat /\ fresh \in BOOLEAN /\ moves \in 0 .. MaxMoves

HealthOK ==
    /\ contract \in [Resources -> Contracts \cup {"none"}]
    /\ rev \in [Resources -> Nat] /\ lastRev \in [Resources -> Nat]
    /\ withdrawn \subseteq Jobs

ScansOK ==
    /\ attempts \in [Resources -> 0 .. MaxScans]
    /\ scanLife \in [Scans -> {"none", "running", "success", "failed",
                               "interrupted"}]
    /\ scanPlan \in [Scans -> Plans \cup {None}]
    /\ scanBind \in [Scans -> Placements] /\ scanSource \in [Scans -> Nat]
    /\ sawSuccess \in [Scans -> SUBSET Jobs]

ApprovalsOK ==
    /\ current \in [Resources -> Approvals \cup {None}]
    /\ approvals \in 0 .. MaxApprovals
    /\ apprScan \in [Approvals -> Scans \cup {None}]

JobsOK ==
    /\ issued \in 0 .. MaxJobs
    /\ status \in [Jobs -> {"none", "active", "succeeded", "ended"}]
    /\ stage \in [Jobs -> {"issued", "snapshotting", "confirmed", "mutating"}]
    /\ jobScan \in [Jobs -> Scans \cup {None}]
    /\ jobAppr \in [Jobs -> Approvals \cup {None}]
    /\ jobReq \in [Jobs -> RequestIds \cup {None}]
    /\ jobRev \in [Jobs -> Nat]
    /\ owed \in [Jobs -> BOOLEAN]
    /\ owedScan \in [Jobs -> Scans \cup {None}]

CycleOK ==
    /\ lane \in {"idle", "owed", "periodic"} /\ full \in BOOLEAN
    /\ postQ \subseteq Jobs /\ skip \subseteq Resources
    /\ resQ \subseteq Resources /\ wake \in BOOLEAN
    /\ exec \in Scans \cup {None}
    /\ execPc \in {"check", "read", "settle"}
    /\ result \in Plans \cup {None}

CallsOK ==
    /\ callPc \in [Callers -> {"idle", "read", "begun"}]
    /\ callReq \in [Callers -> RequestIds \cup {None}]
    /\ callRes \in [Callers -> Resources \cup {None}]
    /\ callAppr \in [Callers -> Approvals \cup {None}]

MaintOK ==
    /\ lock \in Callers \cup Holders \cup {None}
    /\ fence \in Holders \cup {None}
    /\ holdPc \in [Holders -> {"idle", "begun", "written", "held"}]
    /\ faults \in 0 .. MaxFaults

TypeOK == /\ WorldOK /\ HealthOK /\ ScansOK /\ ApprovalsOK /\ JobsOK
          /\ CycleOK /\ CallsOK /\ MaintOK

Init ==
    /\ bind = [r \in Resources |-> 0]
    /\ guest = [r \in Resources |-> "running"]
    /\ source = 0 /\ fresh = TRUE /\ moves = 0
    /\ contract = [r \in Resources |-> "default"]
    /\ rev = [r \in Resources |-> 1] /\ lastRev = [r \in Resources |-> 1]
    /\ withdrawn = {}
    /\ attempts = [r \in Resources |-> 0]
    /\ scanLife = [s \in Scans |-> "none"]
    /\ scanPlan = [s \in Scans |-> None]
    /\ scanBind = [s \in Scans |-> 0] /\ scanSource = [s \in Scans |-> 0]
    /\ sawSuccess = [s \in Scans |-> {}]
    /\ current = [r \in Resources |-> None]
    /\ approvals = 0 /\ apprScan = [a \in Approvals |-> None]
    /\ issued = 0
    /\ status = [j \in Jobs |-> "none"] /\ stage = [j \in Jobs |-> "issued"]
    /\ jobScan = [j \in Jobs |-> None] /\ jobAppr = [j \in Jobs |-> None]
    /\ jobReq = [j \in Jobs |-> None] /\ jobRev = [j \in Jobs |-> 0]
    /\ owed = [j \in Jobs |-> FALSE] /\ owedScan = [j \in Jobs |-> None]
    /\ lane = "idle" /\ full = FALSE /\ postQ = {} /\ skip = {}
    /\ resQ = {} /\ wake = FALSE
    /\ exec = None /\ execPc = "check" /\ result = None
    /\ callPc = [c \in Callers |-> "idle"]
    /\ callReq = [c \in Callers |-> None]
    /\ callRes = [c \in Callers |-> None]
    /\ callAppr = [c \in Callers |-> None]
    /\ lock = None /\ fence = None
    /\ holdPc = [h \in Holders |-> "idle"]
    /\ faults = 0

-----------------------------------------------------------------------------
(* What the authority's predicates read.                                   *)

Latest(r)   == <<r, attempts[r]>>
Running(r)  == \E n \in 1 .. MaxScans : scanLife[<<r, n>>] = "running"
Active      == {j \in Jobs : status[j] = "active"}
JobRes(j)   == jobScan[j][1]
OnResource(r)    == {j \in 1 .. issued : JobRes(j) = r}
SucceededOn(r)   == {j \in OnResource(r) : status[j] = "succeeded"}

\* An owed scan is pending until its one linked run is terminal.
Pending(j) ==
    owed[j] /\ (owedScan[j] # None => scanLife[owedScan[j]] = "running")
PendingOn(r) == \E j \in OnResource(r) : Pending(j)

\* Presence, lifecycle, binding and node, without asking for a running guest.
IsTarget(r) == guest[r] \in {"running", "stopped"}

ContextIsCurrent(s) == guest[s[1]] = "running" /\ scanBind[s] = bind[s[1]]

SourceIsCurrent(s)  == fresh /\ scanSource[s] = source

CurrentAndApprovable(s) ==
    /\ scanLife[s] = "success"
    /\ scanPlan[s] # EmptyPlan
    /\ ContextIsCurrent(s) /\ SourceIsCurrent(s)

SameContext(s, t) == scanBind[s] = scanBind[t] /\ scanSource[s] = scanSource[t]

IsConsumed(a) == \E j \in Jobs : jobAppr[j] = a /\ status[j] = "succeeded"

-----------------------------------------------------------------------------
(* The world outside: inventory reconciliation moves a binding or changes  *)
(* a guest's state, the source expires, is renewed or is reconfigured.     *)

Moves == moves < MaxMoves /\ lock = None /\ moves' = moves + 1
         /\ UNCHANGED <<scans, appr, jobs, owes, cycle, run, calls, lock,
                        maint, faults>>

\* A move of inventory or source; it leaves the health contracts alone.
InventoryMoves == Moves /\ UNCHANGED health

\* A migration; a guest may come back to the node a scan was made on.
RebindResource(r, n) ==
    /\ IsTarget(r) /\ n # bind[r]
    /\ InventoryMoves
    /\ bind' = [bind EXCEPT ![r] = n]
    /\ UNCHANGED <<guest, source, fresh>>

ObserveGuest(r, g) ==
    /\ g # guest[r] /\ guest[r] # "gone"
    /\ InventoryMoves
    /\ guest' = [guest EXCEPT ![r] = g]
    /\ UNCHANGED <<bind, source, fresh>>

SourceExpires ==
    /\ fresh
    /\ InventoryMoves
    /\ fresh' = FALSE
    /\ UNCHANGED <<bind, guest, source>>

\* A successful discovery run commits the source's current context.  It is
\* not counted: the discovery scheduler renews the source again and again.
SourceRenewed ==
    /\ ~fresh /\ lock = None
    /\ fresh' = TRUE
    /\ \/ UNCHANGED source
       \/ source <= MaxMoves /\ source' = source + 1
    /\ UNCHANGED <<bind, guest, moves, health, scans, appr, jobs, owes,
                   cycle, run, calls, lock, maint, faults>>

-----------------------------------------------------------------------------
(* The resource's health contract.  A revision is never handed out twice,  *)
(* so clearing and declaring the same probes again is a new generation.    *)

\* Every job still short of its mutation froze a generation that is now gone.
Withdraw(r) ==
    withdrawn' = withdrawn \cup
        {j \in OnResource(r) : status[j] = "active" /\ stage[j] # "mutating"}

\* _allocate_health_contract_revision and the new rows, in one transaction.
DeclareContract(r, k) ==
    /\ contract' = [contract EXCEPT ![r] = k]
    /\ lastRev' = [lastRev EXCEPT ![r] = @ + 1]
    /\ rev' = [rev EXCEPT ![r] = lastRev[r] + 1]

\* replace_ and reset_resource_health_contract; the same probes are a no-op.
ReplaceContract(r, k) ==
    /\ IsTarget(r) /\ contract[r] # k
    /\ Moves
    /\ DeclareContract(r, k) /\ Withdraw(r)
    /\ UNCHANGED <<bind, guest, source, fresh>>

ClearContract(r) ==
    /\ IsTarget(r) /\ contract[r] # "none"
    /\ Moves
    /\ contract' = [contract EXCEPT ![r] = "none"]
    /\ rev' = [rev EXCEPT ![r] = 0]
    /\ Withdraw(r)
    /\ UNCHANGED <<lastRev, bind, guest, source, fresh>>

\* Reconciliation gives an unconfigured resource the built-in default.
ProvisionDefault(r) ==
    /\ IsTarget(r) /\ contract[r] = "none" /\ lock = None
    /\ DeclareContract(r, "default")
    /\ UNCHANGED <<withdrawn, world, scans, appr, jobs, owes, cycle, run,
                   calls, lock, maint, faults>>

-----------------------------------------------------------------------------
(* PackageScanScheduler: one worker, one cycle at a time.                  *)

\* Mutant: the periodic cycle leaves owed requests to the wake.
CycleStart_OwedOnlyOnWake(f) ==
    /\ lane = "idle"
    /\ f \/ wake
    /\ lane' = "owed" /\ full' = f /\ wake' = FALSE
    /\ postQ' = {j \in 1 .. issued : Pending(j) /\ ~f}
    /\ skip' = {JobRes(j) : j \in postQ'}
    /\ resQ' = {}
    /\ UNCHANGED <<world, health, scans, appr, jobs, owes, run, calls, lock,
                   maint, faults>>

\* _run_once reads the owed requests once, at the start of the cycle.
CycleStart(f) ==
    /\ lane = "idle"
    /\ f \/ wake
    /\ lane' = "owed" /\ full' = f /\ wake' = FALSE
    /\ postQ' = {j \in 1 .. issued : Pending(j)}
    /\ skip' = {JobRes(j) : j \in postQ'}
    /\ resQ' = {}
    /\ UNCHANGED <<world, health, scans, appr, jobs, owes, run, calls, lock,
                   maint, faults>>

\* INSERT of a RUNNING attempt; the partial unique index allows one per
\* resource.
CanInsertScan(r) ==
    IsTarget(r) /\ fresh /\ ~Running(r) /\ attempts[r] < MaxScans

InsertScan(r) ==
    LET s == <<r, attempts[r] + 1>> IN
    /\ attempts' = [attempts EXCEPT ![r] = @ + 1]
    /\ scanLife' = [scanLife EXCEPT ![s] = "running"]
    /\ scanBind' = [scanBind EXCEPT ![s] = bind[r]]
    /\ scanSource' = [scanSource EXCEPT ![s] = source]
    /\ exec' = s /\ execPc' = "check" /\ result' = None
    /\ UNCHANGED <<scanPlan, sawSuccess>>

\* issue_post_update_package_scan: resume the linked run, claim a new one,
\* or leave the request for a later cycle.
ClaimOwed(j) ==
    /\ lane = "owed" /\ exec = None /\ j \in postQ /\ lock = None
    /\ postQ' = postQ \ {j}
    /\ \/ /\ owedScan[j] # None
          /\ exec' = owedScan[j] /\ execPc' = "check" /\ result' = None
          /\ UNCHANGED <<scans, owes>>
       \/ /\ owedScan[j] = None /\ CanInsertScan(JobRes(j))
          /\ InsertScan(JobRes(j))
          /\ owedScan' = [owedScan EXCEPT ![j] = exec']
          /\ UNCHANGED owed
       \/ /\ owedScan[j] = None /\ ~CanInsertScan(JobRes(j))
          /\ UNCHANGED <<scans, owes, run>>
    /\ UNCHANGED <<world, health, appr, jobs, lane, full, skip, resQ, wake,
                   calls, lock, maint, faults>>

\* The periodic lane leaves out the resources the owed lane just served.
OwedLaneDone ==
    /\ lane = "owed" /\ exec = None /\ postQ = {}
    /\ lane' = IF full THEN "periodic" ELSE "idle"
    /\ resQ' = {r \in Resources \ skip : full /\ guest[r] = "running"}
    /\ full' = FALSE /\ skip' = {}
    /\ UNCHANGED <<world, health, scans, appr, jobs, owes, postQ, wake, run,
                   calls, lock, maint, faults>>

\* issue_package_scan; it does not look at owed requests.
IssuePeriodic(r) ==
    /\ lane = "periodic" /\ exec = None /\ r \in resQ /\ lock = None
    /\ resQ' = resQ \ {r}
    /\ \/ /\ CanInsertScan(r) /\ attempts[r] < MaxPeriodicScans
          /\ InsertScan(r)
       \/ /\ ~CanInsertScan(r) \/ attempts[r] >= MaxPeriodicScans
          /\ UNCHANGED <<scans, run>>
    /\ UNCHANGED <<world, health, appr, jobs, owes, lane, full, postQ, skip,
                   wake, calls, lock, maint, faults>>

CycleDone ==
    /\ lane = "periodic" /\ exec = None /\ resQ = {}
    /\ lane' = "idle"
    /\ UNCHANGED <<world, health, scans, appr, jobs, owes, full, postQ, skip,
                   resQ, wake, run, calls, lock, maint, faults>>

\* Both finalizations refuse a run that is already terminal.
Finalize(s, life, plan) ==
    /\ scanLife' = IF scanLife[s] = "running"
                   THEN [scanLife EXCEPT ![s] = life] ELSE scanLife
    /\ scanPlan' = IF scanLife[s] = "running"
                   THEN [scanPlan EXCEPT ![s] = plan] ELSE scanPlan
    /\ exec' = None /\ execPc' = "check" /\ result' = None
    /\ UNCHANGED <<attempts, scanBind, scanSource>>

\* run_package_scan: a context that moved on is failed before any host call.
ExecCheck ==
    /\ exec # None /\ execPc = "check"
    /\ \/ /\ scanLife[exec] = "running" /\ ContextIsCurrent(exec)
          /\ execPc' = "read"
          /\ UNCHANGED <<exec, result, scans>>
       \/ /\ ~(scanLife[exec] = "running" /\ ContextIsCurrent(exec))
          /\ lock = None
          /\ Finalize(exec, "failed", None)
          /\ UNCHANGED sawSuccess
    /\ UNCHANGED <<world, health, appr, jobs, owes, cycle, calls, lock,
                   maint, faults>>

\* The host-control call: an exact plan, or None for any failure of it.
HostRead(p) ==
    /\ exec # None /\ execPc = "read"
    /\ execPc' = "settle" /\ result' = p
    /\ sawSuccess' = [sawSuccess EXCEPT ![exec] = SucceededOn(exec[1])]
    /\ UNCHANGED <<world, health, attempts, scanLife, scanPlan, scanBind,
                   scanSource, appr, jobs, owes, cycle, exec, calls, lock,
                   maint, faults>>

\* finalize_successful_package_scan fences a stale context in the same
\* transaction; every failure goes to finalize_failed_package_scan.
Settle ==
    /\ exec # None /\ execPc = "settle" /\ lock = None
    /\ IF result # None /\ ContextIsCurrent(exec)
       THEN Finalize(exec, "success", result)
       ELSE Finalize(exec, "failed", None)
    /\ UNCHANGED <<sawSuccess, world, health, appr, jobs, owes, cycle, calls,
                   lock, maint, faults>>

\* The database refuses every finalization: the exception leaves _run_once
\* and the attempt stays RUNNING.
CycleFails ==
    /\ exec # None /\ faults < MaxFaults
    /\ lane' = "idle" /\ full' = FALSE
    /\ postQ' = {} /\ resQ' = {} /\ skip' = {}
    /\ exec' = None /\ execPc' = "check" /\ result' = None
    /\ faults' = faults + 1
    /\ UNCHANGED <<world, health, scans, appr, jobs, owes, wake, calls, lock,
                   maint>>

-----------------------------------------------------------------------------
(* approve_package_plan, for the run and fingerprint the operator reviewed. *)

Approve(s) ==
    LET r == s[1]
        same == /\ current[r] # None
                /\ apprScan[current[r]] = s
                /\ ~IsConsumed(current[r])
    IN
    /\ lock = None
    /\ IsTarget(r)
    /\ ~PendingOn(r)
    /\ s = Latest(r)
    /\ CurrentAndApprovable(s)
    /\ ~same
    /\ approvals < MaxApprovals
    /\ approvals' = approvals + 1
    /\ current' = [current EXCEPT ![r] = approvals + 1]
    /\ apprScan' = [apprScan EXCEPT ![approvals + 1] = s]
    /\ UNCHANGED <<world, health, scans, jobs, owes, cycle, run, calls, lock,
                   maint, faults>>

-----------------------------------------------------------------------------
(* The start route.                                                         *)

\* The approval is read outside the transaction that uses it.
StartReads(c, q, r) ==
    /\ callPc[c] = "idle" /\ current[r] # None
    /\ callPc' = [callPc EXCEPT ![c] = "read"]
    /\ callReq' = [callReq EXCEPT ![c] = q]
    /\ callRes' = [callRes EXCEPT ![c] = r]
    /\ callAppr' = [callAppr EXCEPT ![c] = current[r]]
    /\ UNCHANGED <<world, health, scans, appr, jobs, owes, cycle, run, lock,
                   maint, faults>>

ForgetCall(c) ==
    /\ callPc' = [callPc EXCEPT ![c] = "idle"]
    /\ callReq' = [callReq EXCEPT ![c] = None]
    /\ callRes' = [callRes EXCEPT ![c] = None]
    /\ callAppr' = [callAppr EXCEPT ![c] = None]

\* BEGIN IMMEDIATE, the idempotency lookup, then the fence file: a used
\* request id is answered with its job or a conflict, a fence refuses.
IssueBegins(c) ==
    /\ callPc[c] = "read" /\ lock = None
    /\ \/ /\ \E j \in Jobs : jobReq[j] = callReq[c]
          /\ ForgetCall(c) /\ UNCHANGED lock
       \/ /\ \A j \in Jobs : jobReq[j] # callReq[c]
          /\ fence # None
          /\ ForgetCall(c) /\ UNCHANGED lock
       \/ /\ \A j \in Jobs : jobReq[j] # callReq[c]
          /\ fence = None
          /\ lock' = c
          /\ callPc' = [callPc EXCEPT ![c] = "begun"]
          /\ UNCHANGED <<callReq, callRes, callAppr>>
    /\ UNCHANGED <<world, health, scans, appr, jobs, owes, cycle, run, maint,
                   faults>>

\* Mutant: the owed post-update scan does not hold issuance back.
Issuable_IgnoresOwedScan(r, a) ==
    /\ IsTarget(r) /\ current[r] = a /\ ~IsConsumed(a) /\ attempts[r] > 0
    /\ CurrentAndApprovable(Latest(r))
    /\ scanPlan[Latest(r)] = scanPlan[apprScan[a]]
    /\ SameContext(Latest(r), apprScan[a])
    /\ contract[r] \in Executable /\ Active = {}

\* Mutant: an approval that already led to a success is accepted again.
Issuable_ReusesApproval(r, a) ==
    /\ IsTarget(r) /\ ~PendingOn(r) /\ current[r] = a /\ attempts[r] > 0
    /\ CurrentAndApprovable(Latest(r))
    /\ scanPlan[Latest(r)] = scanPlan[apprScan[a]]
    /\ SameContext(Latest(r), apprScan[a])
    /\ contract[r] \in Executable /\ Active = {}

\* Mutant: the current plan is not compared with the approved one.
Issuable_AnyPlan(r, a) ==
    /\ IsTarget(r) /\ ~PendingOn(r) /\ current[r] = a /\ ~IsConsumed(a)
    /\ attempts[r] > 0 /\ CurrentAndApprovable(Latest(r))
    /\ SameContext(Latest(r), apprScan[a])
    /\ contract[r] \in Executable /\ Active = {}

\* Every precondition the transaction checks against its own snapshot.
Issuable(r, a) ==
    /\ IsTarget(r)
    /\ ~PendingOn(r)
    /\ current[r] = a
    /\ ~IsConsumed(a)
    /\ attempts[r] > 0
    /\ CurrentAndApprovable(Latest(r))
    /\ scanPlan[Latest(r)] = scanPlan[apprScan[a]]
    /\ SameContext(Latest(r), apprScan[a])
    /\ contract[r] \in Executable
    /\ Active = {}

\* The other checks, the insert under one_active_package_update_job_globally
\* and COMMIT, or a refusal and ROLLBACK.
IssueEnds(c) ==
    LET r == callRes[c]
        a == callAppr[c]
        j == issued + 1
    IN
    /\ callPc[c] = "begun"
    /\ \/ /\ Issuable(r, a) /\ issued < MaxJobs
          /\ issued' = j
          /\ status' = [status EXCEPT ![j] = "active"]
          /\ jobScan' = [jobScan EXCEPT ![j] = Latest(r)]
          /\ jobAppr' = [jobAppr EXCEPT ![j] = a]
          /\ jobReq' = [jobReq EXCEPT ![j] = callReq[c]]
          /\ jobRev' = [jobRev EXCEPT ![j] = rev[r]]
          /\ UNCHANGED stage
       \/ /\ ~Issuable(r, a) \/ issued = MaxJobs
          /\ UNCHANGED jobs
    /\ lock' = None
    /\ ForgetCall(c)
    /\ UNCHANGED <<world, health, scans, appr, owes, cycle, run, maint,
                   faults>>

-----------------------------------------------------------------------------
(* The job, at the grain recovery sees.                                     *)

\* Mutant: the frozen contract is compared by its probes, not its revision.
AuthorityCurrent_SameProbes(j) ==
    LET r == JobRes(j) IN
    /\ ContextIsCurrent(jobScan[j]) /\ SourceIsCurrent(jobScan[j])
    /\ ~PendingOn(r)
    /\ CurrentAndApprovable(Latest(r))
    /\ SameContext(Latest(r), jobScan[j])
    /\ scanPlan[Latest(r)] = scanPlan[jobScan[j]]
    /\ contract[r] = "default"

\* _package_update_job_current_authority_detail = CURRENT.
AuthorityCurrent(j) ==
    LET r == JobRes(j) IN
    /\ ContextIsCurrent(jobScan[j]) /\ SourceIsCurrent(jobScan[j])
    /\ ~PendingOn(r)
    /\ CurrentAndApprovable(Latest(r))
    /\ SameContext(Latest(r), jobScan[j])
    /\ scanPlan[Latest(r)] = scanPlan[jobScan[j]]
    /\ rev[r] = jobRev[j]

NextStage == [issued |-> "snapshotting", snapshotting |-> "confirmed",
              confirmed |-> "mutating", mutating |-> "mutating"]

\* Snapshot intent, snapshot confirmation and mutation arming each prove
\* current authority in their own transaction.
JobAdvances(j) ==
    /\ status[j] = "active" /\ stage[j] # "mutating" /\ lock = None
    /\ AuthorityCurrent(j)
    /\ stage' = [stage EXCEPT ![j] = NextStage[@]]
    /\ UNCHANGED <<world, health, scans, appr, issued, status, jobScan,
                   jobAppr, jobReq, jobRev, owes, cycle, run, calls, lock,
                   maint, faults>>

\* blocked, failed or released before the mutation, rolled back after it.
JobEnds(j) ==
    /\ status[j] = "active" /\ lock = None
    /\ status' = [status EXCEPT ![j] = "ended"]
    /\ UNCHANGED <<world, health, scans, appr, issued, stage, jobScan,
                   jobAppr, jobReq, jobRev, owes, cycle, run, calls, lock,
                   maint, faults>>

\* complete_package_update_health with a PASSED verdict: SUCCEEDED and the
\* scan request in one transaction, then the scheduler is woken.
JobSucceeds(j) ==
    /\ status[j] = "active" /\ stage[j] = "mutating" /\ lock = None
    /\ IsTarget(JobRes(j)) /\ scanBind[jobScan[j]] = bind[JobRes(j)]
    /\ status' = [status EXCEPT ![j] = "succeeded"]
    /\ owed' = [owed EXCEPT ![j] = TRUE]
    /\ wake' = TRUE
    /\ UNCHANGED <<world, health, scans, appr, issued, stage, jobScan,
                   jobAppr, jobReq, jobRev, owedScan, lane, full, postQ,
                   skip, resQ, run, calls, lock, maint, faults>>

-----------------------------------------------------------------------------
(* The maintenance fence.                                                   *)

\* Mutant: the checks are a read, not made under the writer lock.
FenceBegins_WithoutLock(h) ==
    /\ holdPc[h] = "idle" /\ lock = None
    /\ \/ /\ fence = h
          /\ holdPc' = [holdPc EXCEPT ![h] = "held"]
       \/ /\ fence = None /\ Active = {}
          /\ holdPc' = [holdPc EXCEPT ![h] = "begun"]
    /\ UNCHANGED <<world, health, scans, appr, jobs, owes, cycle, run, calls,
                   lock, fence, faults>>

\* BEGIN IMMEDIATE and the checks; the holder's own fence is returned as is.
FenceBegins(h) ==
    /\ holdPc[h] = "idle" /\ lock = None
    /\ \/ /\ fence = h
          /\ holdPc' = [holdPc EXCEPT ![h] = "held"] /\ UNCHANGED lock
       \/ /\ fence = None /\ Active = {}
          /\ holdPc' = [holdPc EXCEPT ![h] = "begun"] /\ lock' = h
    /\ UNCHANGED <<world, health, scans, appr, jobs, owes, cycle, run, calls,
                   fence, faults>>

\* The file is fsynced and renamed before the transaction commits.
FenceWritten(h) ==
    /\ holdPc[h] = "begun"
    /\ fence' = h
    /\ holdPc' = [holdPc EXCEPT ![h] = "written"]
    /\ UNCHANGED <<world, health, scans, appr, jobs, owes, cycle, run, calls,
                   lock, faults>>

FenceCommits(h) ==
    /\ holdPc[h] = "written"
    /\ lock' = None
    /\ holdPc' = [holdPc EXCEPT ![h] = "held"]
    /\ UNCHANGED <<world, health, scans, appr, jobs, owes, cycle, run, calls,
                   fence, faults>>

\* A plain file removal, keyed to the recorded holder, at the terminal point
\* of the run or of its recovery; it takes no lock.
FenceReleased(h) ==
    /\ fence = h /\ holdPc[h] \in {"idle", "held"}
    /\ fence' = None
    /\ holdPc' = [holdPc EXCEPT ![h] = "idle"]
    /\ UNCHANGED <<world, health, scans, appr, jobs, owes, cycle, run, calls,
                   lock, faults>>

-----------------------------------------------------------------------------
(* Crash and startup: open transactions roll back, the fence file stays,    *)
(* jobs are recovered first, then scans.                                    *)

Interruptible == {"issued", "confirmed"}

RecoverJobs ==
    status' = [j \in Jobs |->
        IF status[j] = "active" /\ stage[j] \in Interruptible
        THEN "ended" ELSE status[j]]

\* A run linked to an owed request is left RUNNING for the scheduler.
RecoverScans ==
    scanLife' = [s \in Scans |->
        IF scanLife[s] = "running" /\ \A j \in Jobs : owedScan[j] # s
        THEN "interrupted" ELSE scanLife[s]]

Restart ==
    /\ faults < MaxFaults
    /\ faults' = faults + 1
    /\ RecoverJobs /\ RecoverScans
    /\ lane' = "idle" /\ full' = FALSE /\ postQ' = {} /\ skip' = {}
    /\ resQ' = {} /\ wake' = FALSE
    /\ exec' = None /\ execPc' = "check" /\ result' = None
    /\ callPc' = [c \in Callers |-> "idle"]
    /\ callReq' = [c \in Callers |-> None]
    /\ callRes' = [c \in Callers |-> None]
    /\ callAppr' = [c \in Callers |-> None]
    /\ lock' = None
    /\ holdPc' = [h \in Holders |-> IF holdPc[h] \in {"begun", "written"}
                                    THEN "idle" ELSE holdPc[h]]
    /\ UNCHANGED <<world, health, attempts, scanPlan, scanBind, scanSource,
                   sawSuccess, appr, issued, stage, jobScan, jobAppr, jobReq,
                   jobRev, owes, fence>>

-----------------------------------------------------------------------------

WorldStep ==
    \/ \E r \in Resources : \/ \E n \in Placements : RebindResource(r, n)
                            \/ \E g \in Guests : ObserveGuest(r, g)
                            \/ ClearContract(r) \/ ProvisionDefault(r)
                            \/ \E k \in Contracts : ReplaceContract(r, k)
    \/ SourceExpires \/ SourceRenewed

SchedulerStep ==
    \/ \E j \in Jobs : ClaimOwed(j)
    \/ OwedLaneDone \/ CycleDone
    \/ \E r \in Resources : IssuePeriodic(r)
    \/ ExecCheck \/ Settle
    \/ \E p \in Plans \cup {None} : HostRead(p)

CycleStep == \E f \in BOOLEAN : CycleStart(f)

StartStep ==
    \E c \in Callers :
        \/ \E q \in RequestIds, r \in Resources : StartReads(c, q, r)
        \/ IssueBegins(c) \/ IssueEnds(c)

JobStep == \E j \in Jobs : JobAdvances(j) \/ JobEnds(j) \/ JobSucceeds(j)

FenceStep == \E h \in Holders : \/ FenceBegins(h) \/ FenceWritten(h)
                                \/ FenceCommits(h) \/ FenceReleased(h)

Next ==
    \/ WorldStep
    \/ CycleStep \/ SchedulerStep \/ CycleFails
    \/ \E s \in Scans : Approve(s)
    \/ StartStep
    \/ JobStep
    \/ FenceStep
    \/ Restart

Spec == Init /\ [][Next]_vars

\* The scheduler's thread runs and its periodic deadline comes round, and
\* discovery renews the source, each getting the writer lock in its turn
\* (every writer waits for it); a transaction that holds the lock ends.
Fairness ==
    /\ WF_vars(CycleStart(TRUE)) /\ SF_vars(SchedulerStep)
    /\ SF_vars(SourceRenewed)
    /\ \A c \in Callers : WF_vars(IssueEnds(c))
    /\ \A h \in Holders : WF_vars(FenceWritten(h)) /\ WF_vars(FenceCommits(h))

FairSpec == Spec /\ Fairness
-----------------------------------------------------------------------------
(* Safety.                                                                  *)

\* No job is issued on a plan the host was asked for before an earlier job on
\* the same resource succeeded: the scan retained from before that update is
\* observation only, whatever periodic scans, approvals and start requests
\* were under way when the update finished.
PlanSeenAfterLastSuccess ==
    \A j \in 1 .. issued : \A k \in 1 .. (j - 1) :
        (JobRes(k) = JobRes(j) /\ status[k] = "succeeded")
            => k \in sawSuccess[jobScan[j]]

\* One approval authorizes at most one successful update, also when a later
\* scan finds the same plan and start requests carry the old approval: the
\* index one_successful_package_update_job_per_approval never trips.
ApprovalSucceedsOnce ==
    \A j, k \in 1 .. issued :
        (status[j] = "succeeded" /\ status[k] = "succeeded" /\ j # k)
            => jobAppr[j] # jobAppr[k]

\* What a job froze is what the operator approved: the scan it was issued on
\* and the scan that was reviewed show the same non-empty plan of the same
\* resource in the same context, although they may be different attempts.
FrozenPlanWasApproved ==
    \A j \in 1 .. issued :
        LET s == jobScan[j]
            t == apprScan[jobAppr[j]]
        IN /\ s[1] = t[1] /\ SameContext(s, t)
           /\ scanPlan[s] = scanPlan[t] /\ scanPlan[s] \notin {None, EmptyPlan}

\* No job crosses into its mutation after the health contract it froze was
\* edited, or cleared and declared again with the same probes: the success
\* criterion is never one the operator has withdrawn.
MutationKeepsContract ==
    \A j \in 1 .. issued : stage[j] = "mutating" => j \notin withdrawn

\* A product update that owns its mutation window has no workload job beside
\* it: acquisition and issuance cannot both succeed, across crashes between
\* the fence write and its commit and releases that take no lock.
FenceExcludesJobs == fence # None => Active = {}

\* The scan a successful job owes is a real one of its own: it is never given
\* up by a restart, belongs to no other job, and if it shows a plan, the host
\* was asked for that plan after the job succeeded.
OwedScanIsHonest ==
    \A j \in 1 .. issued : owedScan[j] # None =>
        /\ scanLife[owedScan[j]] # "interrupted"
        /\ \A k \in 1 .. issued : owedScan[k] = owedScan[j] => k = j
        /\ scanLife[owedScan[j]] = "success" => j \in sawSuccess[owedScan[j]]

-----------------------------------------------------------------------------
(* Liveness.                                                                *)

\* An ordinary attempt left RUNNING by a failed cycle; only a restart ends it.
Orphaned(j) ==
    \E n \in 1 .. MaxScans :
        LET s == <<JobRes(j), n>> IN
        scanLife[s] = "running" /\ exec # s /\ \A k \in Jobs : owedScan[k] # s

Unreachable(j) == j \in 1 .. issued /\ ~IsTarget(JobRes(j))

Blocked(j) == j \in 1 .. issued /\ Orphaned(j)

\* A successful update's owed scan reaches a terminal result, although the
\* wake may be lost, the process may restart and periodic scans compete,
\* unless the resource stays away or an attempt stays orphaned for good.
OwedScanIsSettled ==
    \A j \in Jobs :
        Pending(j) ~> (~Pending(j) \/ []Unreachable(j) \/ []Blocked(j))
=============================================================================
