------------------------ MODULE PlanAuthorityProofs ------------------------
(***************************************************************************)
(* Safety of scans, approvals, issuance, owed scans and the maintenance    *)
(* fence for every number of resources, plans, callers, holders and jobs.  *)
(***************************************************************************)
EXTENDS PlanAuthority, TLAPS

\* A start request under way names a resource and an approval; an issued job
\* names a scan; the owed lane works on issued jobs.
NamesInv ==
    /\ \A c \in Callers : callPc[c] # "idle" => callRes[c] \in Resources
                                             /\ callAppr[c] \in Approvals
    /\ \A j \in Jobs : status[j] # "none" <=> j <= issued
    /\ \A j \in Jobs : j <= issued => jobScan[j] \in Scans
    /\ postQ \subseteq 1 .. issued

\* Types and names together.
TypeInv == TypeOK /\ NamesInv

USE PlanAuthorityAssumption

\* A scan is a resource and the number of an attempt on it.
LEMMA ScanFacts ==
    /\ \A r \in Resources, n \in 1 .. MaxScans : <<r, n>> \in Scans
    /\ \A s \in Scans : s[1] \in Resources /\ s[2] \in 1 .. MaxScans
                        /\ s = <<s[1], s[2]>>
    /\ MaxScans \in Nat
    /\ None \notin Scans
  BY DEF Scans, MaxScans

\* An empty authority is well typed.
LEMMA TypeInit == Init => TypeInv
<1> SUFFICES ASSUME Init PROVE TypeInv
  OBVIOUS
<1>1. WorldOK /\ HealthOK
  BY DEF Init, WorldOK, HealthOK, Guests, Placements, Executable, Contracts
<1>2. ScansOK
  BY ScanFacts DEF Init, ScansOK, Placements
<1>3. ApprovalsOK /\ CallsOK /\ MaintOK
  BY DEF Init, ApprovalsOK, CallsOK, MaintOK
<1>7. CycleOK
  BY Zenon DEF Init, CycleOK
<1>4. JobsOK
  BY DEF Init, JobsOK
<1>5. NamesInv
  BY DEF Init, NamesInv, Jobs
<1>6. QED
  BY <1>1, <1>2, <1>3, <1>4, <1>5, <1>7 DEF TypeInv, TypeOK

-----------------------------------------------------------------------------
(* What each group of actions leaves alone.                                 *)

\* Inventory and contract edits touch neither scans nor jobs.
LEMMA WorldFrame == WorldStep =>
    UNCHANGED <<scans, appr, jobs, owes, cycle, run, calls, lock, maint, faults>>
  BY DEF WorldStep, RebindResource, ObserveGuest, ClearContract,
     ProvisionDefault, ReplaceContract, SourceExpires, SourceRenewed,
     InventoryMoves, Moves

\* The start of a cycle only fills the queues.
LEMMA CycleFrame == CycleStep =>
    UNCHANGED <<world, health, scans, appr, jobs, owes, run, calls, lock,
                maint, faults>>
  BY DEF CycleStep, CycleStart

\* The scheduler's transactions touch scans and claims.
LEMMA SchedulerFrame == SchedulerStep =>
    UNCHANGED <<world, health, appr, jobs, owed, calls, lock, maint, faults>>
  BY DEF SchedulerStep, ClaimOwed, OwedLaneDone, CycleDone, IssuePeriodic,
     ExecCheck, Settle, HostRead, owes

\* A cycle that fails only ends.
LEMMA FailsFrame == CycleFails =>
    UNCHANGED <<world, health, scans, appr, jobs, owes, calls, lock, maint>>
  BY DEF CycleFails

\* Approve writes the approval alone.
LEMMA ApproveFrame == ASSUME NEW s \in Scans, Approve(s) PROVE
    UNCHANGED <<world, health, scans, jobs, owes, cycle, run, calls, lock,
                maint, faults>>
  BY DEF Approve

\* A start request writes the job alone.
LEMMA StartFrame == StartStep =>
    UNCHANGED <<world, health, scans, appr, stage, owes, cycle, run, maint,
                faults>>
  BY DEF StartStep, StartReads, IssueBegins, IssueEnds, jobs

\* A job's progress writes its status, its stage and what it owes.
LEMMA JobFrame == JobStep =>
    UNCHANGED <<world, health, scans, appr, issued, jobScan, jobAppr, jobReq,
                jobRev, owedScan, lane, full, postQ, skip, resQ, run, calls,
                lock, maint, faults>>
  BY DEF JobStep, JobAdvances, JobEnds, JobSucceeds, owes, cycle

\* The fence routes touch fence, lock and updater.
LEMMA FenceFrame == FenceStep =>
    UNCHANGED <<world, health, scans, appr, jobs, owes, cycle, run, calls,
                faults>>
  BY DEF FenceStep, FenceBegins, FenceWritten, FenceCommits, FenceReleased

\* A restart ends what was in memory and recovers jobs and scans.
LEMMA RestartFrame == Restart =>
    UNCHANGED <<world, health, attempts, scanPlan, scanBind, scanSource,
                sawSuccess, appr, issued, stage, jobScan, jobAppr, jobReq,
                jobRev, owes, fence>>
  BY DEF Restart

-----------------------------------------------------------------------------
(* Type correctness, one lemma per group of variables.                      *)

\* Sources, resources and contracts keep their types.
LEMMA WorldType == TypeInv /\ [Next]_vars => WorldOK' /\ HealthOK'
<1> SUFFICES ASSUME TypeInv, [Next]_vars PROVE WorldOK' /\ HealthOK'
  OBVIOUS
<1> USE DEF TypeInv, TypeOK, WorldOK, HealthOK
<1>1. ASSUME NEW r \in Resources, NEW n \in Placements, RebindResource(r, n)
      PROVE WorldOK' /\ HealthOK'
  BY <1>1 DEF RebindResource, InventoryMoves, Moves, health
<1>2. ASSUME NEW r \in Resources, NEW g \in Guests, ObserveGuest(r, g)
      PROVE WorldOK' /\ HealthOK'
  BY <1>2 DEF ObserveGuest, InventoryMoves, Moves, health
<1>w. ASSUME NEW r \in Resources, Withdraw(r) PROVE withdrawn' \subseteq Jobs
  <2>1. OnResource(r) \subseteq Jobs
    BY DEF OnResource, JobsOK, Jobs
  <2>2. QED
    BY <1>w, <2>1 DEF Withdraw
<1>3. ASSUME NEW r \in Resources, ClearContract(r)
      PROVE WorldOK' /\ HealthOK'
  BY <1>3, <1>w DEF ClearContract, Moves
<1>4. ASSUME NEW r \in Resources, NEW k \in Contracts, ReplaceContract(r, k)
      PROVE WorldOK' /\ HealthOK'
  BY <1>4, <1>w DEF ReplaceContract, DeclareContract, Moves
<1>5. ASSUME NEW r \in Resources, ProvisionDefault(r)
      PROVE WorldOK' /\ HealthOK'
  BY <1>5 DEF ProvisionDefault, DeclareContract, world, Contracts, Executable
<1>6. CASE SourceExpires \/ SourceRenewed
  <2>1. fresh' \in BOOLEAN /\ UNCHANGED <<bind, guest, health>>
    BY <1>6, Zenon DEF SourceExpires, SourceRenewed, InventoryMoves
  <2>2. source' \in Nat /\ moves' \in 0 .. MaxMoves
    BY <1>6 DEF SourceExpires, SourceRenewed, InventoryMoves, Moves
  <2>3. QED
    BY <2>1, <2>2 DEF health
<1>7. CASE UNCHANGED <<world, health>>
  BY <1>7 DEF world, health
<1>8. QED
  <2>1. CASE WorldStep
    BY <2>1, <1>1, <1>2, <1>3, <1>4, <1>5, <1>6 DEF WorldStep
  <2>2. CASE CycleStep \/ SchedulerStep \/ CycleFails \/ StartStep \/ JobStep
             \/ FenceStep \/ Restart \/ UNCHANGED vars
    BY <2>2, <1>7, CycleFrame, SchedulerFrame, FailsFrame, StartFrame,
       JobFrame, FenceFrame, RestartFrame DEF vars
  <2>3. ASSUME NEW s \in Scans, Approve(s) PROVE WorldOK' /\ HealthOK'
    BY <2>3, <1>7, ApproveFrame
  <2>4. QED
    BY <2>1, <2>2, <2>3 DEF Next

\* A scan inserted for a resource is one of Scans, and nothing else changes.
LEMMA InsertType ==
    ASSUME TypeInv, NEW r \in Resources, CanInsertScan(r), InsertScan(r)
    PROVE  /\ ScansOK'
           /\ exec' = <<r, attempts[r] + 1>> /\ exec' \in Scans
           /\ execPc' = "check" /\ result' = None
  <1>1. <<r, attempts[r] + 1>> \in Scans
    BY ScanFacts DEF CanInsertScan, TypeInv, TypeOK, ScansOK
  <1>2. attempts' \in [Resources -> 0 .. MaxScans]
    BY ScanFacts DEF CanInsertScan, InsertScan, TypeInv, TypeOK, ScansOK
  <1>3. QED
    BY <1>1, <1>2 DEF InsertScan, TypeInv, TypeOK, ScansOK, WorldOK

\* The finalization of a scan writes a lifecycle and a plan.
LEMMA FinalizeType ==
    ASSUME TypeInv, NEW s \in Scans, NEW p \in Plans \cup {None},
           NEW life \in {"success", "failed"}, Finalize(s, life, p)
    PROVE  /\ scanLife' \in [Scans -> {"none", "running", "success", "failed",
                                       "interrupted"}]
           /\ scanPlan' \in [Scans -> Plans \cup {None}]
           /\ UNCHANGED <<attempts, scanBind, scanSource>>
           /\ exec' = None /\ execPc' = "check" /\ result' = None
  BY DEF Finalize, TypeInv, TypeOK, ScansOK

\* The two actions that insert scans, and the resource they insert them for.
LEMMA ClaimTarget ==
    ASSUME TypeInv, NEW j \in Jobs, ClaimOwed(j)
    PROVE  JobRes(j) \in Resources /\ j <= issued
  BY ScanFacts DEF ClaimOwed, TypeInv, NamesInv, JobRes

\* Scans keep their types.
LEMMA ScansType == TypeInv /\ [Next]_vars => ScansOK'
<1> SUFFICES ASSUME TypeInv, [Next]_vars PROVE ScansOK'
  OBVIOUS
<1>0. ScansOK /\ CycleOK
  BY DEF TypeInv, TypeOK
<1>1. CASE UNCHANGED scans
  BY <1>0, <1>1 DEF ScansOK, scans
<1>2. ASSUME NEW j \in Jobs, ClaimOwed(j) PROVE ScansOK'
  BY <1>1, <1>2, ClaimTarget, InsertType DEF ClaimOwed
<1>3. ASSUME NEW r \in Resources, IssuePeriodic(r) PROVE ScansOK'
  BY <1>1, <1>3, InsertType DEF IssuePeriodic
<1>4. CASE ExecCheck
  BY <1>0, <1>1, <1>4, FinalizeType DEF ExecCheck, CycleOK, ScansOK
<1>5. CASE Settle
  BY <1>0, <1>5, FinalizeType DEF Settle, CycleOK, ScansOK
<1>6. ASSUME NEW p \in Plans \cup {None}, HostRead(p) PROVE ScansOK'
  <2>1. SucceededOn(exec[1]) \subseteq Jobs
    BY DEF SucceededOn, OnResource, TypeInv, TypeOK, JobsOK, Jobs
  <2>2. QED
    BY <1>0, <1>6, <2>1 DEF HostRead, ScansOK
<1>7. CASE OwedLaneDone \/ CycleDone
  BY <1>7, <1>1 DEF OwedLaneDone, CycleDone
<1>8. CASE Restart
  BY <1>0, <1>8, RestartFrame DEF Restart, RecoverScans, ScansOK
<1>9. QED
  <2>1. CASE SchedulerStep
    BY <2>1, <1>2, <1>3, <1>4, <1>5, <1>6, <1>7 DEF SchedulerStep
  <2>2. CASE WorldStep \/ CycleStep \/ CycleFails \/ StartStep \/ JobStep
             \/ FenceStep \/ UNCHANGED vars
    BY <2>2, <1>1, WorldFrame, CycleFrame, FailsFrame, StartFrame, JobFrame,
       FenceFrame DEF vars
  <2>3. ASSUME NEW s \in Scans, Approve(s) PROVE ScansOK'
    BY <2>3, <1>1, ApproveFrame
  <2>4. QED
    BY <2>1, <2>2, <2>3, <1>8 DEF Next

\* Approvals keep their types.
LEMMA ApprovalsType == TypeInv /\ [Next]_vars => ApprovalsOK'
<1> SUFFICES ASSUME TypeInv, [Next]_vars PROVE ApprovalsOK'
  OBVIOUS
<1>1. CASE UNCHANGED appr
  BY <1>1 DEF ApprovalsOK, appr, TypeInv, TypeOK
<1>2. ASSUME NEW s \in Scans, Approve(s) PROVE ApprovalsOK'
  BY <1>2, ScanFacts DEF Approve, ApprovalsOK, TypeInv, TypeOK, Approvals
<1>3. CASE WorldStep \/ CycleStep \/ SchedulerStep \/ CycleFails \/ StartStep
           \/ JobStep \/ FenceStep \/ Restart \/ UNCHANGED vars
  BY <1>3, <1>1, WorldFrame, CycleFrame, SchedulerFrame, FailsFrame,
     StartFrame, JobFrame, FenceFrame, RestartFrame DEF vars
<1>4. QED
  BY <1>2, <1>3 DEF Next

\* Start requests in flight keep their types.
LEMMA CallsType == TypeInv /\ [Next]_vars => CallsOK'
<1> SUFFICES ASSUME TypeInv, [Next]_vars PROVE CallsOK'
  OBVIOUS
<1> USE DEF CallsOK
<1>1. CASE UNCHANGED calls
  BY <1>1 DEF calls, TypeInv, TypeOK
<1>2. ASSUME NEW c \in Callers, ForgetCall(c) PROVE CallsOK'
  BY <1>2 DEF ForgetCall, TypeInv, TypeOK
<1>3. CASE StartStep
  <2>1. ASSUME NEW c \in Callers, NEW q \in RequestIds, NEW r \in Resources,
               StartReads(c, q, r) PROVE CallsOK'
    BY <2>1 DEF StartReads, TypeInv, TypeOK, ApprovalsOK
  <2>2. ASSUME NEW c \in Callers, IssueBegins(c) \/ IssueEnds(c) PROVE CallsOK'
    BY <2>2, <1>2 DEF IssueBegins, IssueEnds, TypeInv, TypeOK
  <2>3. QED
    BY <1>3, <2>1, <2>2 DEF StartStep
<1>4. CASE Restart
  BY <1>4 DEF Restart
<1>5. CASE WorldStep \/ CycleStep \/ SchedulerStep \/ CycleFails \/ JobStep
           \/ FenceStep \/ UNCHANGED vars
  BY <1>5, <1>1, WorldFrame, CycleFrame, SchedulerFrame, FailsFrame, JobFrame,
     FenceFrame DEF vars
<1>6. ASSUME NEW s \in Scans, Approve(s) PROVE CallsOK'
  BY <1>6, <1>1, ApproveFrame
<1>7. QED
  BY <1>3, <1>4, <1>5, <1>6 DEF Next

\* Lock, fence and updater keep their types.
LEMMA MaintType == TypeInv /\ [Next]_vars => MaintOK'
<1> SUFFICES ASSUME TypeInv, [Next]_vars PROVE MaintOK'
  OBVIOUS
<1> USE DEF MaintOK
<1>1. CASE UNCHANGED <<lock, maint, faults>>
  BY <1>1 DEF maint, TypeInv, TypeOK
<1>2. CASE StartStep
  BY <1>2, StartFrame DEF StartStep, StartReads, IssueBegins, IssueEnds, maint,
     TypeInv, TypeOK
<1>3. CASE FenceStep
  BY <1>3, FenceFrame DEF FenceStep, FenceBegins, FenceWritten, FenceCommits,
     FenceReleased, TypeInv, TypeOK
<1>4. CASE Restart
  BY <1>4 DEF Restart, TypeInv, TypeOK
<1>5. CASE CycleFails
  BY <1>5 DEF CycleFails, maint, TypeInv, TypeOK
<1>6. CASE WorldStep \/ CycleStep \/ SchedulerStep \/ JobStep \/ UNCHANGED vars
  BY <1>6, <1>1, WorldFrame, CycleFrame, SchedulerFrame, JobFrame DEF vars
<1>7. ASSUME NEW s \in Scans, Approve(s) PROVE MaintOK'
  BY <1>7, <1>1, ApproveFrame
<1>8. QED
  BY <1>2, <1>3, <1>4, <1>5, <1>6, <1>7 DEF Next

\* The scheduler's queues and its scan in execution keep their types.
LEMMA CycleType == TypeInv /\ [Next]_vars => CycleOK'
<1> SUFFICES ASSUME TypeInv, [Next]_vars PROVE CycleOK'
  OBVIOUS
<1>0. CycleOK /\ JobsOK /\ ScansOK
  BY DEF TypeInv, TypeOK
<1>1. CASE UNCHANGED <<cycle, run>>
  BY <1>0, <1>1 DEF cycle, run, CycleOK
<1>2. ASSUME NEW f \in BOOLEAN, CycleStart(f) PROVE CycleOK'
  <2>1. postQ' \subseteq Jobs /\ skip' \subseteq Resources /\ resQ' \subseteq Resources
    BY <1>0, <1>2, ScanFacts DEF CycleStart, JobsOK, Jobs, JobRes, TypeInv,
       NamesInv
  <2>2. /\ lane' \in {"idle", "owed", "periodic"} /\ full' \in BOOLEAN
        /\ wake' \in BOOLEAN /\ UNCHANGED run
    BY <1>2, Zenon DEF CycleStart
  <2>3. QED
    BY <1>0, <2>1, <2>2 DEF CycleOK, run
<1>3. ASSUME NEW j \in Jobs, ClaimOwed(j) PROVE CycleOK'
  <2>1. /\ exec' \in Scans \cup {None} /\ execPc' \in {"check", "read", "settle"}
        /\ result' \in Plans \cup {None}
    BY <1>0, <1>3, ClaimTarget, InsertType
       DEF ClaimOwed, CycleOK, JobsOK, run
  <2>2. postQ' \subseteq Jobs /\ UNCHANGED <<lane, full, skip, resQ, wake>>
    BY <1>0, <1>3 DEF ClaimOwed, CycleOK
  <2>3. QED
    BY <1>0, <2>1, <2>2 DEF CycleOK
<1>4. ASSUME NEW r \in Resources, IssuePeriodic(r) PROVE CycleOK'
  <2>1. /\ exec' \in Scans \cup {None} /\ execPc' \in {"check", "read", "settle"}
        /\ result' \in Plans \cup {None}
    BY <1>0, <1>4, InsertType DEF IssuePeriodic, CycleOK, run
  <2>2. resQ' \subseteq Resources /\ UNCHANGED <<lane, full, skip, postQ, wake>>
    BY <1>0, <1>4 DEF IssuePeriodic, CycleOK
  <2>3. QED
    BY <1>0, <2>1, <2>2 DEF CycleOK
<1>5. CASE ExecCheck \/ Settle
  BY <1>0, <1>5 DEF ExecCheck, Settle, Finalize, CycleOK, cycle
<1>6. ASSUME NEW p \in Plans \cup {None}, HostRead(p) PROVE CycleOK'
  BY <1>0, <1>6 DEF HostRead, CycleOK, cycle
<1>7. CASE OwedLaneDone \/ CycleDone
  <2>1. /\ lane' \in {"idle", "owed", "periodic"} /\ full' \in BOOLEAN
        /\ UNCHANGED <<wake, run, postQ>>
    BY <1>0, <1>7, Zenon DEF OwedLaneDone, CycleDone, CycleOK
  <2>2. skip' \subseteq Resources /\ resQ' \subseteq Resources
    BY <1>0, <1>7 DEF OwedLaneDone, CycleDone, CycleOK
  <2>3. QED
    BY <1>0, <2>1, <2>2 DEF CycleOK, run
<1>8. CASE CycleFails \/ Restart
  <2>1. /\ lane' = "idle" /\ full' \in BOOLEAN /\ wake' \in BOOLEAN
        /\ postQ' = {} /\ skip' = {} /\ resQ' = {}
        /\ exec' = None /\ execPc' = "check" /\ result' = None
    BY <1>0, <1>8, Zenon DEF CycleFails, Restart, CycleOK
  <2>2. QED
    BY <2>1 DEF CycleOK
<1>9. CASE JobStep
  <2>1. wake' \in BOOLEAN
    BY <1>0, <1>9, Zenon DEF JobStep, JobAdvances, JobEnds, JobSucceeds, CycleOK,
       cycle
  <2>2. QED
    BY <1>0, <1>9, <2>1, JobFrame DEF CycleOK, run
<1>10. QED
  <2>1. CASE SchedulerStep
    BY <2>1, <1>3, <1>4, <1>5, <1>6, <1>7 DEF SchedulerStep
  <2>2. CASE WorldStep \/ StartStep \/ FenceStep \/ UNCHANGED vars
    BY <2>2, <1>1, WorldFrame, StartFrame, FenceFrame DEF vars
  <2>3. ASSUME NEW s \in Scans, Approve(s) PROVE CycleOK'
    BY <2>3, <1>1, ApproveFrame
  <2>4. CASE CycleStep
    BY <2>4, <1>2 DEF CycleStep
  <2>5. QED
    BY <2>1, <2>2, <2>3, <2>4, <1>8, <1>9 DEF Next

\* What a start request leaves behind: no new job, or the next one.
LEMMA IssueEffect ==
    ASSUME TypeInv, NEW c \in Callers, IssueEnds(c)
    PROVE  \/ UNCHANGED jobs
           \/ /\ issued < MaxJobs /\ issued + 1 \in Jobs
              /\ issued' = issued + 1
              /\ Issuable(callRes[c], callAppr[c])
              /\ callRes[c] \in Resources /\ callAppr[c] \in Approvals
              /\ Latest(callRes[c]) \in Scans
              /\ status' = [status EXCEPT ![issued + 1] = "active"]
              /\ jobScan' = [jobScan EXCEPT ![issued + 1] = Latest(callRes[c])]
              /\ jobAppr' = [jobAppr EXCEPT ![issued + 1] = callAppr[c]]
              /\ jobReq' = [jobReq EXCEPT ![issued + 1] = callReq[c]]
              /\ jobRev' = [jobRev EXCEPT ![issued + 1] = rev[callRes[c]]]
              /\ UNCHANGED stage
<1>1. CASE UNCHANGED jobs
  BY <1>1
<1>2. CASE Issuable(callRes[c], callAppr[c]) /\ issued < MaxJobs /\ issued' = issued + 1
  <2>1. callRes[c] \in Resources /\ callAppr[c] \in Approvals
    BY DEF IssueEnds, TypeInv, NamesInv
  <2>2. issued + 1 \in Jobs
    BY <1>2 DEF TypeInv, TypeOK, JobsOK, Jobs
  <2>3. Latest(callRes[c]) \in Scans
    BY <1>2, <2>1, ScanFacts DEF Issuable, Latest, TypeInv, TypeOK, ScansOK
  <2>4. issued # issued'
    BY <1>2 DEF TypeInv, TypeOK, JobsOK
  <2>5. QED
    BY <1>2, <2>1, <2>2, <2>3, <2>4 DEF IssueEnds, jobs
<1>3. QED
  BY <1>1, <1>2 DEF IssueEnds

\* Jobs keep their types.
LEMMA JobsType == TypeInv /\ [Next]_vars => JobsOK'
<1> SUFFICES ASSUME TypeInv, [Next]_vars PROVE JobsOK'
  OBVIOUS
<1>0. JobsOK /\ CycleOK /\ HealthOK /\ CallsOK
  BY DEF TypeInv, TypeOK
<1>1. CASE UNCHANGED <<jobs, owes>>
  BY <1>0, <1>1 DEF jobs, owes, JobsOK
<1>2. ASSUME NEW j \in Jobs, ClaimOwed(j) PROVE JobsOK'
  <2>1. owedScan' \in [Jobs -> Scans \cup {None}]
    BY <1>0, <1>2, ClaimTarget, InsertType DEF ClaimOwed, JobsOK, owes
  <2>2. UNCHANGED <<jobs, owed>>
    BY <1>2 DEF ClaimOwed, owes
  <2>3. QED
    BY <1>0, <2>1, <2>2 DEF jobs, JobsOK
<1>3. CASE StartStep
  <2>1. ASSUME NEW c \in Callers, IssueEnds(c) PROVE JobsOK'
    <3>1. owed' = owed /\ owedScan' = owedScan
      BY <2>1 DEF IssueEnds, owes
    <3>2. QED
      BY <1>0, <1>1, <2>1, <3>1, IssueEffect DEF JobsOK, CallsOK, HealthOK, owes
  <2>2. ASSUME NEW c \in Callers, NEW q \in RequestIds, NEW r \in Resources,
               StartReads(c, q, r) \/ IssueBegins(c) PROVE JobsOK'
    BY <2>2, <1>1 DEF StartReads, IssueBegins
  <2>3. ASSUME NEW c \in Callers, IssueBegins(c) PROVE JobsOK'
    BY <2>3, <1>1 DEF IssueBegins
  <2>4. QED
    BY <1>3, <2>1, <2>2, <2>3 DEF StartStep
<1>4. ASSUME NEW j \in Jobs, JobAdvances(j) \/ JobEnds(j) PROVE JobsOK'
  BY <1>0, <1>4 DEF JobAdvances, JobEnds, NextStage, JobsOK, owes
<1>5. ASSUME NEW j \in Jobs, JobSucceeds(j) PROVE JobsOK'
  <2>1. owed' \in [Jobs -> BOOLEAN]
    BY <1>0, <1>5 DEF JobSucceeds, JobsOK
  <2>2. QED
    BY <1>0, <1>5, <2>1 DEF JobSucceeds, JobsOK
<1>6. CASE Restart
  BY <1>0, <1>6, RestartFrame DEF Restart, RecoverJobs, JobsOK, owes
<1>7. CASE SchedulerStep
  <2>1. CASE \E j \in Jobs : ClaimOwed(j)
    BY <1>2, <2>1
  <2>2. CASE UNCHANGED owedScan
    BY <1>1, <1>7, <2>2, SchedulerFrame DEF owes
  <2>3. QED
    BY <1>7, <2>1, <2>2 DEF SchedulerStep, OwedLaneDone, CycleDone,
       IssuePeriodic, ExecCheck, Settle, HostRead, owes
<1>8. CASE WorldStep \/ CycleStep \/ CycleFails \/ FenceStep \/ UNCHANGED vars
  BY <1>8, <1>1, WorldFrame, CycleFrame, FailsFrame, FenceFrame DEF vars
<1>9. ASSUME NEW s \in Scans, Approve(s) PROVE JobsOK'
  BY <1>9, <1>1, ApproveFrame
<1>10. QED
  BY <1>3, <1>4, <1>5, <1>6, <1>7, <1>8, <1>9 DEF Next, JobStep

\* Calls, jobs and queues go on naming what exists.
LEMMA NamesStep == TypeInv /\ [Next]_vars => NamesInv'
<1> SUFFICES ASSUME TypeInv, [Next]_vars PROVE NamesInv'
  OBVIOUS
<1>0. NamesInv /\ JobsOK /\ ApprovalsOK /\ CallsOK /\ CycleOK
  BY DEF TypeInv, TypeOK
<1> USE DEF NamesInv
<1>1. CASE UNCHANGED <<calls, jobs>> /\ postQ' \subseteq postQ
  BY <1>0, <1>1 DEF calls, jobs
<1>2. CASE CycleStep
  BY <1>0, <1>2, CycleFrame DEF CycleStep, CycleStart, calls, jobs
<1>3. CASE SchedulerStep
  <2>1. postQ' \subseteq postQ
    BY <1>3 DEF SchedulerStep, ClaimOwed, OwedLaneDone, CycleDone,
       IssuePeriodic, ExecCheck, Settle, HostRead, cycle
  <2>2. QED
    BY <1>1, <1>3, <2>1, SchedulerFrame
<1>4. CASE CycleFails
  BY <1>4, <1>1, FailsFrame DEF CycleFails
<1>5. CASE StartStep
  <2>1. ASSUME NEW c \in Callers, NEW q \in RequestIds, NEW r \in Resources,
               StartReads(c, q, r) PROVE NamesInv'
    BY <1>0, <2>1 DEF StartReads, ApprovalsOK, CallsOK, jobs, cycle
  <2>2. ASSUME NEW c \in Callers, IssueBegins(c) PROVE NamesInv'
    BY <1>0, <2>2 DEF IssueBegins, ForgetCall, CallsOK, jobs, cycle
  <2>3. ASSUME NEW c \in Callers, IssueEnds(c) PROVE NamesInv'
    <3>1. postQ' = postQ /\ ForgetCall(c)
      BY <2>3 DEF IssueEnds, cycle
    <3>2. \A d \in Callers : callPc'[d] # "idle" => callRes'[d] \in Resources
                                                /\ callAppr'[d] \in Approvals
      BY <1>0, <3>1 DEF ForgetCall, CallsOK
    <3>3. CASE UNCHANGED jobs
      BY <1>0, <3>1, <3>2, <3>3 DEF jobs
    <3>4. CASE ~ UNCHANGED jobs
      <4>1. /\ issued + 1 \in Jobs /\ issued' = issued + 1
            /\ Latest(callRes[c]) \in Scans
            /\ status' = [status EXCEPT ![issued + 1] = "active"]
            /\ jobScan' = [jobScan EXCEPT ![issued + 1] = Latest(callRes[c])]
        BY <2>3, <3>4, IssueEffect
      <4>2. \A j \in Jobs : status'[j] # "none" <=> j <= issued'
        BY <1>0, <4>1 DEF JobsOK, Jobs
      <4>3. \A j \in Jobs : j <= issued' => jobScan'[j] \in Scans
        BY <1>0, <4>1 DEF JobsOK, Jobs
      <4>4. postQ' \subseteq 1 .. issued'
        BY <1>0, <3>1, <4>1 DEF JobsOK
      <4>5. QED
        BY <3>2, <4>2, <4>3, <4>4
    <3>5. QED
      BY <3>3, <3>4
  <2>4. QED
    BY <1>5, <2>1, <2>2, <2>3 DEF StartStep
<1>6. CASE JobStep
  <2>1. \A j \in Jobs : status'[j] # "none" <=> status[j] # "none"
    BY <1>0, <1>6 DEF JobStep, JobAdvances, JobEnds, JobSucceeds, JobsOK
  <2>2. QED
    BY <1>0, <1>6, <2>1, JobFrame DEF calls
<1>7. CASE Restart
  BY <1>0, <1>7, RestartFrame DEF Restart, RecoverJobs, JobsOK
<1>8. CASE WorldStep \/ FenceStep \/ UNCHANGED vars
  BY <1>8, <1>1, WorldFrame, FenceFrame DEF vars, cycle
<1>9. ASSUME NEW s \in Scans, Approve(s) PROVE NamesInv'
  BY <1>9, <1>1, ApproveFrame DEF cycle
<1>10. QED
  BY <1>2, <1>3, <1>4, <1>5, <1>6, <1>7, <1>8, <1>9 DEF Next

\* Together: every step preserves the types.
LEMMA TypeStep == TypeInv /\ [Next]_vars => TypeInv'
  BY WorldType, ScansType, ApprovalsType, JobsType, CycleType, CallsType,
     MaintType, NamesStep DEF TypeInv, TypeOK

-----------------------------------------------------------------------------
(* The maintenance fence and the writer lock.                               *)

\* Who holds the lock, what it found there, and that nobody can have
\* falsified it since.
FenceInv ==
    /\ \A c \in Callers : callPc[c] = "begun" => lock = c /\ fence = None
    /\ \A h \in Holders : holdPc[h] \in {"begun", "written"} => lock = h
    /\ \A h \in Holders : holdPc[h] = "begun" => Active = {}
    /\ \A h \in Holders : holdPc[h] = "written" => fence = h
    /\ FenceExcludesJobs

\* Every step preserves what the holder of the writer lock saw.
LEMMA FenceInvStep == TypeInv /\ FenceInv /\ [Next]_vars => FenceInv'
<1> SUFFICES ASSUME TypeInv, FenceInv, [Next]_vars PROVE FenceInv'
  OBVIOUS
<1>0. CallsOK /\ MaintOK
  BY DEF TypeInv, TypeOK
<1> USE DEF FenceInv, FenceExcludesJobs
<1>1. CASE UNCHANGED <<calls, lock, maint>> /\ Active' \subseteq Active
  BY <1>1 DEF calls, maint
<1>2. CASE StartStep
  <2>1. ASSUME NEW c \in Callers, NEW q \in RequestIds, NEW r \in Resources,
               StartReads(c, q, r) PROVE FenceInv'
    BY <1>0, <2>1 DEF StartReads, CallsOK, jobs, maint, Active
  <2>2. ASSUME NEW c \in Callers, IssueBegins(c) PROVE FenceInv'
    BY <1>0, <2>2 DEF IssueBegins, ForgetCall, CallsOK, jobs, maint, Active
  <2>3. ASSUME NEW c \in Callers, IssueEnds(c) PROVE FenceInv'
    <3>1. lock = c /\ fence = None /\ lock' = None /\ UNCHANGED maint
      BY <2>3 DEF IssueEnds
    <3>2. \A h \in Holders : holdPc[h] \notin {"begun", "written"}
      BY <3>1
    <3>3. \A d \in Callers : callPc'[d] # "begun"
      BY <1>0, <2>3, <3>1 DEF IssueEnds, ForgetCall, CallsOK
    <3>4. QED
      BY <3>1, <3>2, <3>3 DEF maint
  <2>4. QED
    BY <1>2, <2>1, <2>2, <2>3 DEF StartStep
<1>3. CASE FenceStep
  <2>0. Active' = Active /\ UNCHANGED calls
    BY <1>3, FenceFrame DEF jobs, Active
  <2>1. ASSUME NEW h \in Holders, FenceBegins(h) PROVE FenceInv'
    BY <1>0, <2>0, <2>1 DEF FenceBegins, MaintOK, calls
  <2>2. ASSUME NEW h \in Holders, FenceWritten(h) PROVE FenceInv'
    BY <1>0, <2>0, <2>2 DEF FenceWritten, MaintOK, calls
  <2>3. ASSUME NEW h \in Holders, FenceCommits(h) PROVE FenceInv'
    BY <1>0, <2>0, <2>3 DEF FenceCommits, MaintOK, calls
  <2>4. ASSUME NEW h \in Holders, FenceReleased(h) PROVE FenceInv'
    BY <1>0, <2>0, <2>4 DEF FenceReleased, MaintOK, calls
  <2>5. QED
    BY <1>3, <2>1, <2>2, <2>3, <2>4 DEF FenceStep
<1>4. CASE Restart
  <2>1. Active' \subseteq Active
    BY <1>4 DEF Restart, RecoverJobs, Active
  <2>2. QED
    BY <1>0, <1>4, <2>1 DEF Restart, MaintOK
<1>5. CASE JobStep
  <2>1. Active' \subseteq Active
    BY <1>5 DEF JobStep, JobAdvances, JobEnds, JobSucceeds, Active, TypeInv,
       TypeOK, JobsOK
  <2>2. QED
    BY <1>1, <1>5, <2>1, JobFrame
<1>6. CASE WorldStep \/ CycleStep \/ SchedulerStep \/ CycleFails
           \/ UNCHANGED vars
  <2>1. UNCHANGED <<calls, lock, maint, jobs>>
    BY <1>6, WorldFrame, CycleFrame, SchedulerFrame, FailsFrame DEF vars
  <2>2. QED
    BY <1>1, <2>1 DEF jobs, Active
<1>7. ASSUME NEW s \in Scans, Approve(s) PROVE FenceInv'
  BY <1>7, <1>1, ApproveFrame DEF jobs, Active
<1>8. QED
  BY <1>2, <1>3, <1>4, <1>5, <1>6, <1>7 DEF Next

-----------------------------------------------------------------------------
(* The one job slot and the approvals that were used up.                    *)

\* Only the last job can be active, and an approval that led to a success is
\* behind no other successful job and not behind the active one.
SlotInv ==
    /\ \A j \in Jobs : status[j] = "active" => j = issued
    /\ \A j, k \in Jobs :
          (j # k /\ status[k] = "succeeded" /\ status[j] \in {"active", "succeeded"})
              => jobAppr[j] # jobAppr[k]

\* Every step preserves that only the newest job can be active.
LEMMA SlotInvStep == TypeInv /\ SlotInv /\ [Next]_vars => SlotInv'
<1> SUFFICES ASSUME TypeInv, SlotInv, [Next]_vars PROVE SlotInv'
  OBVIOUS
<1>0. JobsOK /\ NamesInv
  BY DEF TypeInv, TypeOK
<1>1. CASE UNCHANGED jobs
  BY <1>1 DEF SlotInv, jobs
<1>2. ASSUME NEW c \in Callers, IssueEnds(c) PROVE SlotInv'
  <2>1. CASE ~ UNCHANGED jobs
    <3>1. /\ issued + 1 \in Jobs /\ issued' = issued + 1
          /\ Issuable(callRes[c], callAppr[c])
          /\ status' = [status EXCEPT ![issued + 1] = "active"]
          /\ jobAppr' = [jobAppr EXCEPT ![issued + 1] = callAppr[c]]
      BY <1>2, <2>1, IssueEffect
    <3>2. \A j \in Jobs : status[j] # "active"
      BY <3>1 DEF Issuable, Active
    <3>3. \A k \in Jobs : status[k] = "succeeded" => jobAppr[k] # callAppr[c]
      BY <3>1 DEF Issuable, IsConsumed
    <3>4. status[issued + 1] = "none"
      BY <1>0, <3>1 DEF NamesInv, JobsOK
    <3>5. QED
      BY <1>0, <3>1, <3>2, <3>3, <3>4 DEF SlotInv, JobsOK
  <2>2. QED
    BY <1>1, <2>1
<1>3. CASE StartStep
  BY <1>1, <1>2, <1>3 DEF StartStep, StartReads, IssueBegins
<1>4. ASSUME NEW j \in Jobs, JobAdvances(j) \/ JobEnds(j) \/ JobSucceeds(j)
      PROVE SlotInv'
  BY <1>0, <1>4 DEF JobAdvances, JobEnds, JobSucceeds, SlotInv, JobsOK
<1>5. CASE Restart
  BY <1>0, <1>5, RestartFrame DEF Restart, RecoverJobs, SlotInv, JobsOK
<1>6. CASE WorldStep \/ CycleStep \/ SchedulerStep \/ CycleFails \/ FenceStep
           \/ UNCHANGED vars
  BY <1>6, <1>1, WorldFrame, CycleFrame, SchedulerFrame, FailsFrame,
     FenceFrame DEF vars
<1>7. ASSUME NEW s \in Scans, Approve(s) PROVE SlotInv'
  BY <1>7, <1>1, ApproveFrame
<1>8. QED
  BY <1>3, <1>4, <1>5, <1>6, <1>7 DEF Next, JobStep

-----------------------------------------------------------------------------
(* The frozen health contract.                                              *)

\* Revisions only grow, so a job whose generation was replaced or cleared can
\* never again find it current.
ContractInv ==
    /\ \A r \in Resources : rev[r] <= lastRev[r]
    /\ \A r \in Resources : contract[r] # "none" => rev[r] >= 1
    /\ withdrawn \subseteq 1 .. issued
    /\ \A j \in Jobs : j <= issued =>
          jobRev[j] >= 1 /\ jobRev[j] <= lastRev[JobRes(j)]
    /\ \A j \in withdrawn : stage[j] # "mutating" /\ rev[JobRes(j)] # jobRev[j]

\* Every step preserves that a withdrawn contract generation stays withdrawn.
LEMMA ContractInvStep == TypeInv /\ ContractInv /\ [Next]_vars => ContractInv'
<1> SUFFICES ASSUME TypeInv, ContractInv, [Next]_vars PROVE ContractInv'
  OBVIOUS
<1>0. JobsOK /\ HealthOK /\ NamesInv
  BY DEF TypeInv, TypeOK
<1>r. \A j \in Jobs : j <= issued => JobRes(j) \in Resources
  BY <1>0, ScanFacts DEF NamesInv, JobRes
<1>i. issued \in Nat /\ issued <= MaxJobs /\ 1 .. issued \subseteq Jobs
  BY <1>0 DEF JobsOK, Jobs
<1>1. CASE UNCHANGED <<health, jobs>>
  BY <1>1 DEF ContractInv, health, jobs, JobRes
<1>2. ASSUME NEW r \in Resources, NEW k \in Contracts, DeclareContract(r, k),
             Withdraw(r) \/ UNCHANGED withdrawn, UNCHANGED jobs
      PROVE ContractInv'
  <2>1. \A j \in withdrawn' : j \in withdrawn
             \/ (j \in 1 .. issued /\ JobRes(j) = r /\ stage[j] # "mutating")
    BY <1>2 DEF Withdraw, OnResource
  <2>2. /\ lastRev'[r] = lastRev[r] + 1 /\ rev'[r] = lastRev[r] + 1
        /\ contract'[r] = k
        /\ \A q \in Resources \ {r} : /\ lastRev'[q] = lastRev[q]
                                      /\ rev'[q] = rev[q]
                                      /\ contract'[q] = contract[q]
    BY <1>0, <1>2 DEF DeclareContract, HealthOK
  <2>3. \A q \in Resources : rev[q] \in Nat /\ lastRev[q] \in Nat
    BY <1>0 DEF HealthOK
  <2>4. \A j \in Jobs : jobRev[j] \in Nat
    BY <1>0 DEF JobsOK
  <2>5. UNCHANGED <<issued, stage, jobRev, jobScan>>
    BY <1>2 DEF jobs
  <2>6. \A q \in Resources : rev'[q] <= lastRev'[q]
                           /\ (contract'[q] # "none" => rev'[q] >= 1)
    BY <2>2, <2>3 DEF ContractInv
  <2>7. withdrawn' \subseteq 1 .. issued'
    BY <2>1, <2>5 DEF ContractInv
  <2>8. ASSUME NEW j \in Jobs, j <= issued'
        PROVE  jobRev'[j] >= 1 /\ jobRev'[j] <= lastRev'[JobRes(j)]
    BY <1>r, <2>2, <2>3, <2>4, <2>5, <2>8 DEF ContractInv
  <2>9. ASSUME NEW j \in withdrawn'
        PROVE  stage'[j] # "mutating" /\ rev'[JobRes(j)] # jobRev'[j]
    <3>1. j \in Jobs /\ j <= issued
      BY <1>i, <2>5, <2>7
    <3>2. CASE JobRes(j) = r
      <4>1. stage'[j] # "mutating"
        BY <2>1, <2>5 DEF ContractInv
      <4>2. jobRev[j] \in Nat /\ jobRev[j] >= 1 /\ jobRev[j] <= lastRev[r]
        BY <2>4, <3>1, <3>2 DEF ContractInv
      <4>3. rev'[r] # jobRev[j]
        BY <2>2, <2>3, <4>2
      <4>4. QED
        BY <2>5, <3>2, <4>1, <4>3
    <3>3. CASE JobRes(j) # r
      BY <1>r, <2>1, <2>2, <2>5, <3>1, <3>3 DEF ContractInv
    <3>4. QED
      BY <3>2, <3>3
  <2>10. QED
    BY <2>5, <2>6, <2>7, <2>8, <2>9 DEF ContractInv, JobRes
<1>3. ASSUME NEW r \in Resources, ClearContract(r) PROVE ContractInv'
  <2>1. \A j \in withdrawn' : j \in withdrawn
             \/ (j \in 1 .. issued /\ JobRes(j) = r /\ stage[j] # "mutating")
    BY <1>3 DEF ClearContract, Withdraw, OnResource
  <2>2. /\ UNCHANGED lastRev /\ rev'[r] = 0 /\ contract'[r] = "none"
        /\ \A q \in Resources \ {r} : /\ rev'[q] = rev[q]
                                      /\ contract'[q] = contract[q]
    BY <1>0, <1>3 DEF ClearContract, HealthOK
  <2>3. \A q \in Resources : rev[q] \in Nat /\ lastRev[q] \in Nat
    BY <1>0 DEF HealthOK
  <2>4. \A j \in Jobs : jobRev[j] \in Nat
    BY <1>0 DEF JobsOK
  <2>5. UNCHANGED <<issued, stage, jobRev, jobScan>>
    BY <1>3 DEF ClearContract, Moves, jobs
  <2>6. \A q \in Resources : rev'[q] <= lastRev'[q]
                           /\ (contract'[q] # "none" => rev'[q] >= 1)
    BY <2>2, <2>3 DEF ContractInv
  <2>7. withdrawn' \subseteq 1 .. issued'
    BY <2>1, <2>5 DEF ContractInv
  <2>8. ASSUME NEW j \in Jobs, j <= issued'
        PROVE  jobRev'[j] >= 1 /\ jobRev'[j] <= lastRev'[JobRes(j)]
    BY <1>r, <2>2, <2>3, <2>4, <2>5, <2>8 DEF ContractInv
  <2>9. ASSUME NEW j \in withdrawn'
        PROVE  stage'[j] # "mutating" /\ rev'[JobRes(j)] # jobRev'[j]
    <3>1. j \in Jobs /\ j <= issued
      BY <1>i, <2>5, <2>7
    <3>2. CASE JobRes(j) = r
      <4>1. stage'[j] # "mutating"
        BY <2>1, <2>5 DEF ContractInv
      <4>2. jobRev[j] \in Nat /\ jobRev[j] >= 1 /\ jobRev[j] <= lastRev[r]
        BY <2>4, <3>1, <3>2 DEF ContractInv
      <4>3. rev'[r] # jobRev[j]
        BY <2>2, <2>3, <4>2
      <4>4. QED
        BY <2>5, <3>2, <4>1, <4>3
    <3>3. CASE JobRes(j) # r
      BY <1>r, <2>1, <2>2, <2>5, <3>1, <3>3 DEF ContractInv
    <3>4. QED
      BY <3>2, <3>3
  <2>10. QED
    BY <2>5, <2>6, <2>7, <2>8, <2>9 DEF ContractInv, JobRes
<1>4. CASE WorldStep
  <2>0. UNCHANGED jobs
    BY <1>4, WorldFrame
  <2>1. ASSUME NEW r \in Resources, NEW k \in Contracts, ReplaceContract(r, k)
        PROVE ContractInv'
    BY <1>2, <2>0, <2>1 DEF ReplaceContract
  <2>2. ASSUME NEW r \in Resources, ProvisionDefault(r) PROVE ContractInv'
    BY <1>2, <2>0, <2>2 DEF ProvisionDefault, Contracts, Executable
  <2>3. CASE UNCHANGED health
    BY <1>1, <2>0, <2>3
  <2>4. QED
    BY <1>3, <1>4, <2>1, <2>2, <2>3 DEF WorldStep, RebindResource,
       ObserveGuest, InventoryMoves, SourceExpires, SourceRenewed
<1>5. CASE StartStep
  <2>1. ASSUME NEW c \in Callers, IssueEnds(c) PROVE ContractInv'
    <3>1. CASE ~ UNCHANGED jobs
      <4>1. /\ issued + 1 \in Jobs /\ issued' = issued + 1
            /\ callRes[c] \in Resources
            /\ Issuable(callRes[c], callAppr[c])
            /\ jobScan' = [jobScan EXCEPT ![issued + 1] = Latest(callRes[c])]
            /\ jobRev' = [jobRev EXCEPT ![issued + 1] = rev[callRes[c]]]
            /\ UNCHANGED stage
        BY <2>1, <3>1, IssueEffect
      <4>2. UNCHANGED health
        BY <1>5, StartFrame
      <4>3. \A j \in Jobs : JobRes(j)' = IF j = issued + 1 THEN callRes[c]
                                       ELSE JobRes(j)
        BY <1>0, <4>1 DEF JobRes, Latest, JobsOK
      <4>4. rev[callRes[c]] >= 1
        BY <4>1 DEF Issuable, Executable, ContractInv
      <4>5. ASSUME NEW j \in Jobs, j <= issued'
            PROVE  jobRev'[j] >= 1 /\ jobRev'[j] <= lastRev'[JobRes(j)']
        <5>1. CASE j = issued + 1
          BY <1>0, <4>1, <4>2, <4>3, <4>4, <5>1 DEF ContractInv, JobsOK, health
        <5>2. CASE j # issued + 1
          <6>1. j <= issued
            BY <1>i, <4>1, <4>5, <5>2 DEF Jobs
          <6>2. QED
            BY <1>0, <4>1, <4>2, <4>3, <5>2, <6>1 DEF ContractInv, JobsOK, health
        <5>3. QED
          BY <5>1, <5>2
      <4>6. ASSUME NEW j \in withdrawn'
            PROVE  stage'[j] # "mutating" /\ rev'[JobRes(j)'] # jobRev'[j]
        <5>1. j \in withdrawn /\ j \in Jobs /\ j <= issued /\ j # issued + 1
          BY <1>i, <4>2 DEF ContractInv, health
        <5>2. QED
          BY <1>0, <4>1, <4>2, <4>3, <5>1 DEF ContractInv, JobsOK, health
      <4>7. QED
        BY <1>i, <4>1, <4>2, <4>5, <4>6 DEF ContractInv, health
    <3>2. QED
      BY <1>1, <1>5, <3>1, StartFrame
  <2>2. QED
    BY <1>1, <1>5, <2>1, StartFrame DEF StartStep, StartReads, IssueBegins
<1>6. CASE JobStep
  <2>1. /\ UNCHANGED <<contract, rev, lastRev, withdrawn, issued, jobRev>>
        /\ \A j \in Jobs : JobRes(j)' = JobRes(j)
    BY <1>6, JobFrame DEF health, JobRes
  <2>2. \A j \in withdrawn : stage'[j] # "mutating"
    <3>1. ASSUME NEW k \in Jobs, JobAdvances(k)
          PROVE \A j \in withdrawn : stage'[j] # "mutating"
      <4>1. k \notin withdrawn
        BY <3>1 DEF JobAdvances, AuthorityCurrent, ContractInv
      <4>2. QED
        BY <1>0, <1>i, <3>1, <4>1 DEF JobAdvances, ContractInv, JobsOK
    <3>2. CASE UNCHANGED stage
      BY <3>2 DEF ContractInv
    <3>3. QED
      BY <1>6, <3>1, <3>2 DEF JobStep, JobEnds, JobSucceeds
  <2>3. QED
    BY <1>i, <2>1, <2>2 DEF ContractInv
<1>7. CASE Restart
  BY <1>7, RestartFrame DEF ContractInv, health, JobRes
<1>8. CASE CycleStep \/ SchedulerStep \/ CycleFails \/ FenceStep \/ UNCHANGED vars
  BY <1>8, <1>1, CycleFrame, SchedulerFrame, FailsFrame, FenceFrame DEF vars
<1>9. ASSUME NEW s \in Scans, Approve(s) PROVE ContractInv'
  BY <1>9, <1>1, ApproveFrame
<1>10. QED
  BY <1>4, <1>5, <1>6, <1>7, <1>8, <1>9 DEF Next

-----------------------------------------------------------------------------
(* A successful scan is never touched again.                                *)

\* Attempts not yet made are blank, the run past its context check is
\* running, and a successful run has a plan.
ScanInv ==
    /\ \A s \in Scans : s[2] > attempts[s[1]] => scanLife[s] = "none"
    /\ exec # None /\ execPc # "check" => scanLife[exec] = "running"
    /\ \A s \in Scans : scanLife[s] = "success" => scanPlan[s] # None

\* What a step can do to one scan.
Untouched(s) == /\ scanLife'[s] = scanLife[s] /\ scanPlan'[s] = scanPlan[s]
                /\ scanBind'[s] = scanBind[s] /\ scanSource'[s] = scanSource[s]
                /\ sawSuccess'[s] = sawSuccess[s]

\* A new scan gets the next number and leaves the others alone.
LEMMA InsertEffect ==
    ASSUME TypeInv, NEW r \in Resources, CanInsertScan(r), InsertScan(r)
    PROVE  LET t == <<r, attempts[r] + 1>> IN
           /\ t \in Scans /\ exec' = t /\ execPc' = "check"
           /\ scanLife'[t] = "running" /\ UNCHANGED <<scanPlan, sawSuccess>>
           /\ \A s \in Scans : s # t => Untouched(s)
           /\ attempts'[r] = attempts[r] + 1
           /\ \A q \in Resources : q # r => attempts'[q] = attempts[q]
<1>0. ScansOK
  BY DEF TypeInv, TypeOK
<1>1. <<r, attempts[r] + 1>> \in Scans
  BY InsertType
<1>2. QED
  BY <1>0, <1>1 DEF InsertScan, ScansOK, Untouched

\* ScanInv survives the insertion of a scan.
LEMMA InsertScanInv ==
    ASSUME TypeInv, ScanInv, NEW r \in Resources, CanInsertScan(r), InsertScan(r)
    PROVE  ScanInv'
<1> DEFINE t == <<r, attempts[r] + 1>>
<1>0. attempts[r] \in Nat /\ \A q \in Resources : attempts[q] \in Nat
  BY ScanFacts DEF TypeInv, TypeOK, ScansOK
<1>1. /\ t \in Scans /\ exec' = t /\ execPc' = "check"
      /\ scanLife'[t] = "running" /\ UNCHANGED <<scanPlan, sawSuccess>>
      /\ \A s \in Scans : s # t => Untouched(s)
      /\ attempts'[r] = attempts[r] + 1
      /\ \A q \in Resources : q # r => attempts'[q] = attempts[q]
  BY InsertEffect
<1>2. ASSUME NEW s \in Scans, s[2] > attempts'[s[1]] PROVE scanLife'[s] = "none"
  <2>1. s # t
    BY <1>0, <1>1, <1>2
  <2>2. s[1] \in Resources /\ s[2] \in Nat
    BY ScanFacts
  <2>3. s[2] > attempts[s[1]]
    BY <1>0, <1>1, <1>2, <2>2
  <2>4. QED
    BY <1>1, <2>1, <2>3 DEF ScanInv, Untouched
<1>3. ASSUME NEW s \in Scans, scanLife'[s] = "success" PROVE scanPlan'[s] # None
  BY <1>1, <1>3 DEF ScanInv, Untouched
<1>4. QED
  BY <1>1, <1>2, <1>3 DEF ScanInv

\* Every step preserves the facts about issued, running and successful scans.
LEMMA ScanInvStep == TypeInv /\ ScanInv /\ [Next]_vars => ScanInv'
<1> SUFFICES ASSUME TypeInv, ScanInv, [Next]_vars PROVE ScanInv'
  OBVIOUS
<1>0. ScansOK /\ CycleOK
  BY DEF TypeInv, TypeOK
<1>1. CASE UNCHANGED <<scans, run>>
  BY <1>1 DEF ScanInv, scans, run
<1>2. ASSUME NEW j \in Jobs, ClaimOwed(j) PROVE ScanInv'
  <2>1. CASE UNCHANGED scans /\ execPc' = "check"
    BY <2>1 DEF ScanInv, scans
  <2>2. QED
    BY <1>1, <1>2, <2>1, ClaimTarget, InsertScanInv DEF ClaimOwed
<1>3. ASSUME NEW r \in Resources, IssuePeriodic(r) PROVE ScanInv'
  BY <1>1, <1>3, InsertScanInv DEF IssuePeriodic
<1>4. CASE ExecCheck
  BY <1>0, <1>4 DEF ExecCheck, Finalize, ScanInv, ScansOK, CycleOK, scans
<1>5. CASE Settle
  BY <1>0, <1>5 DEF Settle, Finalize, ScanInv, ScansOK, CycleOK
<1>6. ASSUME NEW p \in Plans \cup {None}, HostRead(p) PROVE ScanInv'
  BY <1>0, <1>6 DEF HostRead, ScanInv
<1>7. CASE OwedLaneDone \/ CycleDone
  BY <1>7, <1>1 DEF OwedLaneDone, CycleDone
<1>8. CASE CycleFails
  BY <1>8 DEF CycleFails, ScanInv, scans
<1>9. CASE Restart
  BY <1>0, <1>9, RestartFrame DEF Restart, RecoverScans, ScanInv, ScansOK
<1>10. QED
  <2>1. CASE SchedulerStep
    BY <2>1, <1>2, <1>3, <1>4, <1>5, <1>6, <1>7 DEF SchedulerStep
  <2>2. CASE WorldStep \/ CycleStep \/ StartStep \/ JobStep \/ FenceStep
             \/ UNCHANGED vars
    BY <2>2, <1>1, WorldFrame, CycleFrame, StartFrame, JobFrame, FenceFrame
       DEF vars
  <2>3. ASSUME NEW s \in Scans, Approve(s) PROVE ScanInv'
    BY <2>3, <1>1, ApproveFrame
  <2>4. QED
    BY <2>1, <2>2, <2>3, <1>8, <1>9 DEF Next

\* A successful scan is never written again.
LEMMA SuccessIsFinal ==
    ASSUME TypeInv, ScanInv, [Next]_vars, NEW s \in Scans, scanLife[s] = "success"
    PROVE  Untouched(s)
<1>0. ScansOK /\ CycleOK
  BY DEF TypeInv, TypeOK
<1>1. CASE UNCHANGED scans
  BY <1>1 DEF scans, Untouched
<1>2. ASSUME NEW r \in Resources, CanInsertScan(r), InsertScan(r)
      PROVE  Untouched(s)
  <2>1. s # <<r, attempts[r] + 1>>
    BY <1>0, ScanFacts DEF ScanInv, ScansOK
  <2>2. QED
    BY <1>2, <2>1, InsertEffect
<1>3. ASSUME NEW j \in Jobs, ClaimOwed(j) PROVE Untouched(s)
  BY <1>1, <1>2, <1>3, ClaimTarget DEF ClaimOwed
<1>4. ASSUME NEW r \in Resources, IssuePeriodic(r) PROVE Untouched(s)
  BY <1>1, <1>2, <1>4 DEF IssuePeriodic
<1>5. CASE ExecCheck \/ Settle
  BY <1>0, <1>5 DEF ExecCheck, Settle, Finalize, Untouched, ScansOK, CycleOK,
     scans
<1>6. ASSUME NEW p \in Plans \cup {None}, HostRead(p) PROVE Untouched(s)
  BY <1>0, <1>6 DEF HostRead, Untouched, ScanInv, ScansOK, CycleOK
<1>7. CASE OwedLaneDone \/ CycleDone
  BY <1>7, <1>1 DEF OwedLaneDone, CycleDone
<1>8. CASE Restart
  BY <1>0, <1>8, RestartFrame DEF Restart, RecoverScans, Untouched, ScansOK
<1>9. QED
  <2>1. CASE SchedulerStep
    BY <2>1, <1>3, <1>4, <1>5, <1>6, <1>7 DEF SchedulerStep
  <2>2. CASE WorldStep \/ CycleStep \/ CycleFails \/ StartStep \/ JobStep
             \/ FenceStep \/ UNCHANGED vars
    BY <2>2, <1>1, WorldFrame, CycleFrame, FailsFrame, StartFrame, JobFrame,
       FenceFrame DEF vars
  <2>3. ASSUME NEW t \in Scans, Approve(t) PROVE Untouched(s)
    BY <2>3, <1>1, ApproveFrame
  <2>4. QED
    BY <2>1, <2>2, <2>3, <1>8 DEF Next

-----------------------------------------------------------------------------
(* What was approved and what was frozen.                                   *)

\* An approval rests on a successful, non-empty scan of its own resource, and
\* a job on a successful scan and on an approval of the same plan.
ApprovedInv ==
    /\ \A a \in Approvals : a <= approvals =>
          /\ apprScan[a] \in Scans
          /\ scanLife[apprScan[a]] = "success"
          /\ scanPlan[apprScan[a]] # EmptyPlan
    /\ \A r \in Resources : current[r] # None =>
          current[r] <= approvals /\ apprScan[current[r]][1] = r
    /\ \A j \in Jobs : j <= issued =>
          /\ jobAppr[j] \in Approvals /\ jobAppr[j] <= approvals
          /\ scanLife[jobScan[j]] = "success"
          /\ jobScan[j][1] = apprScan[jobAppr[j]][1]
          /\ SameContext(jobScan[j], apprScan[jobAppr[j]])
          /\ scanPlan[jobScan[j]] = scanPlan[apprScan[jobAppr[j]]]

\* Every step preserves that approvals and jobs rest on successful scans.
LEMMA ApprovedInvStep ==
    TypeInv /\ ScanInv /\ ApprovedInv /\ [Next]_vars => ApprovedInv'
<1> SUFFICES ASSUME TypeInv, ScanInv, ApprovedInv, [Next]_vars PROVE ApprovedInv'
  OBVIOUS
<1>0. JobsOK /\ ApprovalsOK /\ NamesInv
  BY DEF TypeInv, TypeOK
<1>u. \A s \in Scans : scanLife[s] = "success" => Untouched(s)
  BY SuccessIsFinal
<1>j. \A j \in Jobs : j <= issued => jobScan[j] \in Scans
  BY <1>0 DEF NamesInv
<1>1. CASE UNCHANGED <<appr, issued, jobScan, jobAppr>>
  BY <1>u, <1>j, <1>1 DEF ApprovedInv, Untouched, SameContext, appr
<1>2. ASSUME NEW s \in Scans, Approve(s) PROVE ApprovedInv'
  <2>1. /\ approvals + 1 \in Approvals /\ approvals' = approvals + 1
        /\ current' = [current EXCEPT ![s[1]] = approvals + 1]
        /\ apprScan' = [apprScan EXCEPT ![approvals + 1] = s]
        /\ scanLife[s] = "success" /\ scanPlan[s] # EmptyPlan
    BY <1>0, <1>2 DEF Approve, ApprovalsOK, Approvals, CurrentAndApprovable
  <2>2. UNCHANGED <<scans, jobs>>
    BY <1>2 DEF Approve
  <2>3. \A a \in Approvals : a <= approvals => apprScan'[a] = apprScan[a]
    BY <1>0, <2>1 DEF ApprovalsOK, Approvals
  <2>4. apprScan'[approvals + 1] = s /\ approvals \in Nat /\ s[1] \in Resources
    BY <1>0, <2>1, ScanFacts DEF ApprovalsOK
  <2>5. ASSUME NEW a \in Approvals, a <= approvals'
        PROVE  /\ apprScan'[a] \in Scans
               /\ scanLife'[apprScan'[a]] = "success"
               /\ scanPlan'[apprScan'[a]] # EmptyPlan
    <3>1. a <= approvals \/ a = approvals + 1
      BY <2>1, <2>4, <2>5 DEF Approvals
    <3>2. QED
      BY <2>1, <2>2, <2>3, <2>4, <3>1 DEF ApprovedInv, scans
  <2>6. ASSUME NEW r \in Resources, current'[r] # None
        PROVE  current'[r] <= approvals' /\ apprScan'[current'[r]][1] = r
    <3>1. CASE r = s[1]
      BY <1>0, <2>1, <2>4, <3>1 DEF ApprovalsOK
    <3>2. CASE r # s[1]
      <4>1. current'[r] = current[r] /\ current[r] \in Approvals
        BY <1>0, <2>1, <2>6, <3>2 DEF ApprovalsOK
      <4>2. current[r] <= approvals /\ apprScan[current[r]][1] = r
        BY <2>6, <4>1 DEF ApprovedInv
      <4>3. QED
        BY <2>1, <2>3, <2>4, <4>1, <4>2 DEF Approvals
    <3>3. QED
      BY <3>1, <3>2
  <2>7. ASSUME NEW j \in Jobs, j <= issued'
        PROVE  /\ jobAppr'[j] \in Approvals /\ jobAppr'[j] <= approvals'
               /\ scanLife'[jobScan'[j]] = "success"
               /\ jobScan'[j][1] = apprScan'[jobAppr'[j]][1]
               /\ SameContext(jobScan[j], apprScan[jobAppr[j]])'
               /\ scanPlan'[jobScan'[j]] = scanPlan'[apprScan'[jobAppr'[j]]]
    <3>1. /\ jobAppr[j] \in Approvals /\ jobAppr[j] <= approvals
          /\ jobAppr'[j] = jobAppr[j] /\ jobScan'[j] = jobScan[j]
          /\ apprScan'[jobAppr[j]] = apprScan[jobAppr[j]]
      BY <2>2, <2>3, <2>7 DEF ApprovedInv, jobs
    <3>2. jobAppr'[j] <= approvals'
      BY <2>1, <2>4, <3>1 DEF Approvals
    <3>3. QED
      BY <2>2, <2>7, <3>1, <3>2 DEF ApprovedInv, SameContext, scans, jobs
  <2>8. QED
    BY <2>5, <2>6, <2>7 DEF ApprovedInv
<1>3. ASSUME NEW c \in Callers, IssueEnds(c) PROVE ApprovedInv'
  <2>1. CASE ~ UNCHANGED jobs
    <3> DEFINE r == callRes[c]
               a == callAppr[c]
               n == issued + 1
    <3>1. /\ n \in Jobs /\ issued' = n
          /\ Issuable(r, a)
          /\ r \in Resources /\ a \in Approvals
          /\ Latest(r) \in Scans
          /\ jobScan' = [jobScan EXCEPT ![n] = Latest(r)]
          /\ jobAppr' = [jobAppr EXCEPT ![n] = a]
      BY <1>3, <2>1, IssueEffect
    <3>2. UNCHANGED <<scans, appr>>
      BY <1>3 DEF IssueEnds
    <3>3. /\ a <= approvals /\ apprScan[a][1] = r
          /\ scanLife[Latest(r)] = "success"
          /\ SameContext(Latest(r), apprScan[a])
          /\ scanPlan[Latest(r)] = scanPlan[apprScan[a]]
          /\ Latest(r)[1] = r
      BY <3>1 DEF Issuable, CurrentAndApprovable, ApprovedInv, Latest
    <3>4. ASSUME NEW j \in Jobs, j <= issued'
          PROVE  /\ jobAppr'[j] \in Approvals /\ jobAppr'[j] <= approvals
                 /\ scanLife[jobScan'[j]] = "success"
                 /\ jobScan'[j][1] = apprScan[jobAppr'[j]][1]
                 /\ SameContext(jobScan'[j], apprScan[jobAppr'[j]])
                 /\ scanPlan[jobScan'[j]] = scanPlan[apprScan[jobAppr'[j]]]
      <4>1. CASE j = n
        BY <1>0, <3>1, <3>3, <4>1 DEF JobsOK
      <4>2. CASE j # n
        <5>1. j <= issued /\ jobAppr'[j] = jobAppr[j] /\ jobScan'[j] = jobScan[j]
          BY <1>0, <3>1, <3>4, <4>2 DEF JobsOK, Jobs
        <5>2. QED
          BY <5>1 DEF ApprovedInv
      <4>3. QED
        BY <4>1, <4>2
    <3>5. QED
      BY <3>2, <3>4 DEF ApprovedInv, scans, appr, SameContext
  <2>2. QED
    BY <1>1, <1>3, <2>1 DEF IssueEnds, jobs
<1>4. CASE StartStep
  <2>1. CASE UNCHANGED jobs
    BY <1>1, <1>4, <2>1, StartFrame DEF jobs
  <2>2. QED
    BY <1>3, <1>4, <2>1 DEF StartStep, StartReads, IssueBegins
<1>5. CASE JobStep \/ Restart
  BY <1>1, <1>5, JobFrame, RestartFrame
<1>6. CASE WorldStep \/ CycleStep \/ SchedulerStep \/ CycleFails \/ FenceStep
           \/ UNCHANGED vars
  BY <1>6, <1>1, WorldFrame, CycleFrame, SchedulerFrame, FailsFrame,
     FenceFrame DEF vars, jobs
<1>7. QED
  BY <1>2, <1>4, <1>5, <1>6 DEF Next

-----------------------------------------------------------------------------
(* The scans successful jobs owe.                                           *)

\* Only successful jobs owe a scan, and only they claim one.
OwesInv ==
    /\ \A j \in Jobs : owed[j] => status[j] = "succeeded"
    /\ \A j \in Jobs : status[j] = "succeeded" => owed[j]
    /\ \A j \in postQ : status[j] = "succeeded"

\* A claimed scan is an attempt of the job's resource, claimed by one job
\* and not interrupted.
ClaimedInv ==
    /\ \A j \in Jobs : owedScan[j] # None =>
          /\ status[j] = "succeeded"
          /\ owedScan[j][1] = JobRes(j)
          /\ owedScan[j][2] <= attempts[owedScan[j][1]]
          /\ scanLife[owedScan[j]] # "interrupted"
    /\ \A j, k \in Jobs : owedScan[j] = owedScan[k] /\ j # k => owedScan[j] = None

\* The claimed scan, and every later one of the resource, asked the host
\* after the job had succeeded.
SeenInv ==
    \A j \in Jobs, s \in Scans :
        /\ owedScan[j] # None
        /\ owedScan[j][1] = s[1] /\ owedScan[j][2] <= s[2]
        /\ scanLife[s] = "success" \/ (exec = s /\ execPc = "settle")
        => j \in sawSuccess[s]

\* Every step preserves that only successful jobs owe scans.
LEMMA OwesInvStep == TypeInv /\ OwesInv /\ [Next]_vars => OwesInv'
<1> SUFFICES ASSUME TypeInv, OwesInv, [Next]_vars PROVE OwesInv'
  OBVIOUS
<1>0. JobsOK /\ NamesInv
  BY DEF TypeInv, TypeOK
<1>i. 1 .. issued \subseteq Jobs /\ postQ \subseteq Jobs
  BY <1>0 DEF JobsOK, Jobs, NamesInv
<1>1. CASE UNCHANGED <<status, owed>> /\ postQ' \subseteq postQ
  BY <1>1 DEF OwesInv
<1>2. CASE CycleStep
  <2>1. \A j \in postQ' : j \in 1 .. issued /\ owed[j]
    BY <1>2 DEF CycleStep, CycleStart, Pending
  <2>2. QED
    BY <1>2, <1>i, <2>1, CycleFrame DEF OwesInv, jobs, owes
<1>3. CASE SchedulerStep
  <2>1. postQ' \subseteq postQ
    BY <1>3 DEF SchedulerStep, ClaimOwed, OwedLaneDone, CycleDone,
       IssuePeriodic, ExecCheck, Settle, HostRead, cycle
  <2>2. QED
    BY <1>1, <1>3, <2>1, SchedulerFrame DEF jobs
<1>4. CASE CycleFails
  BY <1>4, <1>1, FailsFrame DEF CycleFails, jobs, owes
<1>5. CASE StartStep
  <2>1. UNCHANGED <<owed, postQ>>
    BY <1>5, StartFrame DEF owes, cycle
  <2>2. \A j \in Jobs : status'[j] = "succeeded" <=> status[j] = "succeeded"
    <3>1. ASSUME NEW c \in Callers, IssueEnds(c)
          PROVE \A j \in Jobs : status'[j] = "succeeded" <=> status[j] = "succeeded"
      <4>1. CASE ~ UNCHANGED jobs
        <5>1. /\ issued + 1 \in Jobs
              /\ status' = [status EXCEPT ![issued + 1] = "active"]
          BY <3>1, <4>1, IssueEffect
        <5>2. status[issued + 1] = "none"
          BY <1>0, <5>1 DEF NamesInv, JobsOK
        <5>3. QED
          BY <1>0, <5>1, <5>2 DEF JobsOK
      <4>2. QED
        BY <4>1 DEF jobs
    <3>2. QED
      BY <1>5, <3>1 DEF StartStep, StartReads, IssueBegins, jobs
  <2>3. QED
    BY <1>i, <2>1, <2>2 DEF OwesInv
<1>6. ASSUME NEW j \in Jobs, JobAdvances(j) \/ JobEnds(j) PROVE OwesInv'
  <2>1. UNCHANGED <<owed, postQ>>
    BY <1>6 DEF JobAdvances, JobEnds, owes, cycle
  <2>2. \A k \in Jobs : status'[k] = "succeeded" <=> status[k] = "succeeded"
    BY <1>0, <1>6 DEF JobAdvances, JobEnds, JobsOK
  <2>3. QED
    BY <1>i, <2>1, <2>2 DEF OwesInv
<1>7. ASSUME NEW j \in Jobs, JobSucceeds(j) PROVE OwesInv'
  <2>1. status'[j] = "succeeded" /\ owed'[j] /\ UNCHANGED postQ
    BY <1>0, <1>7 DEF JobSucceeds, JobsOK
  <2>2. \A k \in Jobs : k # j => status'[k] = status[k] /\ owed'[k] = owed[k]
    BY <1>0, <1>7 DEF JobSucceeds, JobsOK
  <2>3. QED
    BY <1>i, <2>1, <2>2 DEF OwesInv
<1>8. CASE Restart
  <2>1. \A k \in Jobs : status'[k] = "succeeded" <=> status[k] = "succeeded"
    BY <1>0, <1>8 DEF Restart, RecoverJobs, JobsOK
  <2>2. UNCHANGED owed /\ postQ' = {}
    BY <1>8 DEF Restart, owes
  <2>3. QED
    BY <2>1, <2>2 DEF OwesInv
<1>9. CASE WorldStep \/ FenceStep \/ UNCHANGED vars
  BY <1>9, <1>1, WorldFrame, FenceFrame DEF vars, jobs, owes, cycle
<1>10. ASSUME NEW s \in Scans, Approve(s) PROVE OwesInv'
  BY <1>10, <1>1, ApproveFrame DEF jobs, owes, cycle
<1>11. QED
  BY <1>2, <1>3, <1>4, <1>5, <1>6, <1>7, <1>8, <1>9, <1>10 DEF Next, JobStep

\* A successful job stays successful and keeps its scan.
LEMMA SuccessKept ==
    ASSUME TypeInv, [Next]_vars, NEW j \in Jobs, status[j] = "succeeded"
    PROVE  status'[j] = "succeeded" /\ jobScan'[j] = jobScan[j]
<1>0. JobsOK /\ NamesInv
  BY DEF TypeInv, TypeOK
<1>1. CASE UNCHANGED jobs
  BY <1>1 DEF jobs
<1>2. ASSUME NEW c \in Callers, IssueEnds(c), ~ UNCHANGED jobs
      PROVE  status'[j] = "succeeded" /\ jobScan'[j] = jobScan[j]
  <2>1. /\ issued + 1 \in Jobs
        /\ status' = [status EXCEPT ![issued + 1] = "active"]
        /\ jobScan' = [jobScan EXCEPT ![issued + 1] = Latest(callRes[c])]
    BY <1>2, IssueEffect
  <2>2. status[issued + 1] = "none"
    BY <1>0, <2>1 DEF NamesInv, JobsOK
  <2>3. QED
    BY <1>0, <2>1, <2>2 DEF JobsOK
<1>3. CASE StartStep
  BY <1>1, <1>2, <1>3 DEF StartStep, StartReads, IssueBegins
<1>4. CASE JobStep
  BY <1>0, <1>4 DEF JobStep, JobAdvances, JobEnds, JobSucceeds, JobsOK
<1>5. CASE Restart
  BY <1>0, <1>5 DEF Restart, RecoverJobs, JobsOK
<1>6. CASE WorldStep \/ CycleStep \/ SchedulerStep \/ CycleFails \/ FenceStep
           \/ UNCHANGED vars
  BY <1>6, <1>1, WorldFrame, CycleFrame, SchedulerFrame, FailsFrame,
     FenceFrame DEF vars
<1>7. ASSUME NEW s \in Scans, Approve(s) PROVE UNCHANGED jobs
  BY <1>7, ApproveFrame
<1>8. QED
  BY <1>1, <1>3, <1>4, <1>5, <1>6, <1>7 DEF Next

\* Attempts are only added, and only a scan nobody claimed is interrupted.
LEMMA ScansAdvance ==
    ASSUME TypeInv, [Next]_vars
    PROVE  /\ \A r \in Resources : attempts[r] <= attempts'[r]
           /\ \A s \in Scans : scanLife'[s] = "interrupted" =>
                  scanLife[s] = "interrupted" \/ \A j \in Jobs : owedScan[j] # s
<1> DEFINE Goal == /\ \A r \in Resources : attempts[r] <= attempts'[r]
                   /\ \A s \in Scans : scanLife'[s] = "interrupted" =>
                          scanLife[s] = "interrupted" \/ \A j \in Jobs : owedScan[j] # s
<1>0. ScansOK /\ CycleOK /\ \A r \in Resources : attempts[r] \in Nat
  BY ScanFacts DEF TypeInv, TypeOK, ScansOK
<1>1. CASE UNCHANGED scans
  BY <1>0, <1>1 DEF scans
<1>2. ASSUME NEW r \in Resources, CanInsertScan(r), InsertScan(r) PROVE Goal
  <2>1. \A q \in Resources : attempts[q] <= attempts'[q]
    BY <1>0, <1>2 DEF InsertScan, ScansOK
  <2>2. \A s \in Scans : scanLife'[s] = "interrupted" => scanLife[s] = "interrupted"
    BY <1>0, <1>2 DEF InsertScan, ScansOK
  <2>3. QED
    BY <2>1, <2>2
<1>3. ASSUME NEW j \in Jobs, ClaimOwed(j) PROVE Goal
  BY <1>1, <1>2, <1>3, ClaimTarget DEF ClaimOwed
<1>4. ASSUME NEW r \in Resources, IssuePeriodic(r) PROVE Goal
  BY <1>1, <1>2, <1>4 DEF IssuePeriodic
<1>5. CASE ExecCheck \/ Settle
  BY <1>0, <1>5 DEF ExecCheck, Settle, Finalize, ScansOK, CycleOK, scans
<1>6. ASSUME NEW p \in Plans \cup {None}, HostRead(p) PROVE Goal
  BY <1>0, <1>6 DEF HostRead
<1>7. CASE OwedLaneDone \/ CycleDone
  BY <1>7, <1>1 DEF OwedLaneDone, CycleDone
<1>8. CASE Restart
  BY <1>0, <1>8, RestartFrame DEF Restart, RecoverScans, ScansOK
<1>9. QED
  <2>1. CASE SchedulerStep
    BY <2>1, <1>3, <1>4, <1>5, <1>6, <1>7 DEF SchedulerStep
  <2>2. CASE WorldStep \/ CycleStep \/ CycleFails \/ StartStep \/ JobStep
             \/ FenceStep \/ UNCHANGED vars
    BY <2>2, <1>1, WorldFrame, CycleFrame, FailsFrame, StartFrame, JobFrame,
       FenceFrame DEF vars
  <2>3. ASSUME NEW t \in Scans, Approve(t) PROVE Goal
    BY <2>3, <1>1, ApproveFrame
  <2>4. QED
    BY <2>1, <2>2, <2>3, <1>8 DEF Next

\* A claim changes the link of one successful job, to the scan it inserts.
LEMMA ClaimEffect ==
    ASSUME TypeInv, OwesInv, [Next]_vars, ~ UNCHANGED owedScan
    PROVE  \E j \in Jobs :
              /\ status[j] = "succeeded" /\ JobRes(j) \in Resources
              /\ CanInsertScan(JobRes(j)) /\ InsertScan(JobRes(j))
              /\ owedScan[j] = None /\ owedScan' = [owedScan EXCEPT ![j] = exec']
              /\ UNCHANGED jobs
<1>1. PICK j \in Jobs : ClaimOwed(j)
  <2>1. CASE SchedulerStep
    BY <2>1 DEF SchedulerStep, OwedLaneDone, CycleDone, IssuePeriodic,
       ExecCheck, Settle, HostRead, owes
  <2>2. CASE WorldStep \/ CycleStep \/ CycleFails \/ StartStep \/ JobStep
             \/ FenceStep \/ Restart \/ UNCHANGED vars
    BY <2>2, WorldFrame, CycleFrame, FailsFrame, StartFrame, JobFrame,
       FenceFrame, RestartFrame DEF vars, owes
  <2>3. ASSUME NEW t \in Scans, Approve(t) PROVE FALSE
    BY <2>3, ApproveFrame DEF owes
  <2>4. QED
    BY <2>1, <2>2, <2>3 DEF Next
<1>2. j \in postQ /\ UNCHANGED jobs
  BY <1>1 DEF ClaimOwed
<1>3. /\ owedScan[j] = None /\ CanInsertScan(JobRes(j)) /\ InsertScan(JobRes(j))
      /\ owedScan' = [owedScan EXCEPT ![j] = exec']
  BY <1>1 DEF ClaimOwed, owes
<1>4. QED
  BY <1>1, <1>2, <1>3, ClaimTarget DEF OwesInv

\* Every step preserves that a claimed scan has one owner, of its resource.
LEMMA ClaimedInvStep ==
    TypeInv /\ OwesInv /\ ClaimedInv /\ [Next]_vars => ClaimedInv'
<1> SUFFICES ASSUME TypeInv, OwesInv, ClaimedInv, [Next]_vars PROVE ClaimedInv'
  OBVIOUS
<1>0. JobsOK /\ \A r \in Resources : attempts[r] \in Nat /\ attempts'[r] \in Nat
  BY ScanFacts, TypeStep DEF TypeInv, TypeOK, ScansOK
<1>1. ASSUME NEW j \in Jobs, owedScan[j] # None, owedScan'[j] = owedScan[j]
      PROVE  /\ status'[j] = "succeeded"
             /\ owedScan'[j][1] = JobRes(j)'
             /\ owedScan'[j][2] <= attempts'[owedScan'[j][1]]
             /\ scanLife'[owedScan'[j]] # "interrupted"
  <2>1. owedScan[j] \in Scans /\ owedScan[j][1] \in Resources /\ owedScan[j][2] \in Nat
    BY <1>0, <1>1, ScanFacts DEF JobsOK
  <2>2. status'[j] = "succeeded" /\ JobRes(j)' = JobRes(j)
    BY <1>1, SuccessKept DEF ClaimedInv, JobRes
  <2>3. owedScan[j][2] <= attempts'[owedScan[j][1]]
    BY <1>0, <1>1, <2>1, ScansAdvance DEF ClaimedInv
  <2>4. scanLife'[owedScan[j]] # "interrupted"
    BY <1>1, <2>1, ScansAdvance DEF ClaimedInv
  <2>5. QED
    BY <1>1, <2>2, <2>3, <2>4 DEF ClaimedInv
<1>2. CASE UNCHANGED owedScan
  BY <1>1, <1>2 DEF ClaimedInv
<1>3. CASE ~ UNCHANGED owedScan
  <2>1. PICK j \in Jobs :
           /\ status[j] = "succeeded" /\ JobRes(j) \in Resources
           /\ CanInsertScan(JobRes(j)) /\ InsertScan(JobRes(j))
           /\ owedScan[j] = None /\ owedScan' = [owedScan EXCEPT ![j] = exec']
           /\ UNCHANGED jobs
    BY <1>3, ClaimEffect
  <2> DEFINE t == <<JobRes(j), attempts[JobRes(j)] + 1>>
  <2>2. /\ t \in Scans /\ exec' = t /\ scanLife'[t] = "running"
        /\ attempts'[JobRes(j)] = attempts[JobRes(j)] + 1
    BY <2>1, InsertEffect
  <2>3. /\ owedScan'[j] = t
        /\ \A k \in Jobs : k # j => owedScan'[k] = owedScan[k]
    BY <1>0, <2>1, <2>2 DEF JobsOK
  <2>4. JobRes(j)' = JobRes(j)
    BY <2>1 DEF JobRes, jobs
  <2>5. /\ status'[j] = "succeeded" /\ owedScan'[j][1] = JobRes(j)'
        /\ owedScan'[j][2] <= attempts'[owedScan'[j][1]]
        /\ scanLife'[owedScan'[j]] # "interrupted"
    BY <1>0, <2>1, <2>2, <2>3, <2>4 DEF jobs
  <2>6. \A k \in Jobs : owedScan[k] # t
    <3>1. t[1] = JobRes(j) /\ t[2] = attempts[JobRes(j)] + 1 /\ t # None
      BY <2>2, ScanFacts
    <3>2. ~ (t[2] <= attempts[t[1]])
      BY <1>0, <2>1, <3>1
    <3>3. QED
      BY <3>1, <3>2 DEF ClaimedInv
  <2>7. ASSUME NEW k \in Jobs, NEW l \in Jobs, owedScan'[k] = owedScan'[l], k # l
        PROVE  owedScan'[k] = None
    BY <2>3, <2>6, <2>7 DEF ClaimedInv
  <2>8. ASSUME NEW k \in Jobs, owedScan'[k] # None
        PROVE  /\ status'[k] = "succeeded"
               /\ owedScan'[k][1] = JobRes(k)'
               /\ owedScan'[k][2] <= attempts'[owedScan'[k][1]]
               /\ scanLife'[owedScan'[k]] # "interrupted"
    BY <1>1, <2>3, <2>5, <2>8
  <2>9. QED
    BY <2>7, <2>8 DEF ClaimedInv
<1>4. QED
  BY <1>2, <1>3

\* A scan succeeds by being settled, and comes up for settling by the read.
LEMMA SettleEffect ==
    ASSUME TypeInv, [Next]_vars, NEW s \in Scans
    PROVE  /\ scanLife'[s] = "success" /\ scanLife[s] # "success" =>
                 exec = s /\ execPc = "settle" /\ UNCHANGED sawSuccess
           /\ exec' = s /\ execPc' = "settle" =>
                 \/ exec = s /\ sawSuccess'[s] = SucceededOn(s[1])
                 \/ UNCHANGED <<exec, execPc, sawSuccess>>
<1> DEFINE Goal == /\ scanLife'[s] = "success" /\ scanLife[s] # "success" =>
                         exec = s /\ execPc = "settle" /\ UNCHANGED sawSuccess
                   /\ exec' = s /\ execPc' = "settle" =>
                         \/ exec = s /\ sawSuccess'[s] = SucceededOn(s[1])
                         \/ UNCHANGED <<exec, execPc, sawSuccess>>
<1>0. ScansOK /\ CycleOK
  BY DEF TypeInv, TypeOK
<1>1. CASE UNCHANGED <<scans, run>>
  BY <1>1 DEF scans, run
<1>2. ASSUME NEW r \in Resources, CanInsertScan(r), InsertScan(r) PROVE Goal
  BY <1>0, <1>2, InsertEffect DEF Untouched
<1>3. ASSUME NEW j \in Jobs, ClaimOwed(j) PROVE Goal
  <2>1. CASE UNCHANGED scans /\ execPc' = "check"
    BY <2>1 DEF scans
  <2>2. QED
    BY <1>1, <1>2, <1>3, <2>1, ClaimTarget DEF ClaimOwed
<1>4. ASSUME NEW r \in Resources, IssuePeriodic(r) PROVE Goal
  BY <1>1, <1>2, <1>4 DEF IssuePeriodic
<1>5. CASE ExecCheck
  BY <1>0, <1>5 DEF ExecCheck, Finalize, ScansOK, CycleOK, scans
<1>6. CASE Settle
  BY <1>0, <1>6 DEF Settle, Finalize, ScansOK, CycleOK
<1>7. ASSUME NEW p \in Plans \cup {None}, HostRead(p) PROVE Goal
  BY <1>0, <1>7 DEF HostRead, ScansOK
<1>8. CASE OwedLaneDone \/ CycleDone
  BY <1>8, <1>1 DEF OwedLaneDone, CycleDone
<1>9. CASE Restart \/ CycleFails
  BY <1>0, <1>9 DEF Restart, CycleFails, RecoverScans, ScansOK, scans
<1>10. QED
  <2>1. CASE SchedulerStep
    BY <2>1, <1>3, <1>4, <1>5, <1>6, <1>7, <1>8 DEF SchedulerStep
  <2>2. CASE WorldStep \/ CycleStep \/ StartStep \/ JobStep \/ FenceStep
             \/ UNCHANGED vars
    BY <2>2, <1>1, WorldFrame, CycleFrame, StartFrame, JobFrame, FenceFrame
       DEF vars
  <2>3. ASSUME NEW t \in Scans, Approve(t) PROVE Goal
    BY <2>3, <1>1, ApproveFrame
  <2>4. QED
    BY <2>1, <2>2, <2>3, <1>9 DEF Next

\* Every step preserves that claimed and later scans saw the success.
LEMMA SeenInvStep ==
    TypeInv /\ OwesInv /\ ClaimedInv /\ ScanInv /\ SeenInv /\ [Next]_vars
        => SeenInv'
<1> SUFFICES ASSUME TypeInv, OwesInv, ClaimedInv, ScanInv, SeenInv, [Next]_vars,
                    NEW j \in Jobs, NEW s \in Scans,
                    owedScan'[j] # None,
                    owedScan'[j][1] = s[1], owedScan'[j][2] <= s[2],
                    scanLife'[s] = "success" \/ (exec' = s /\ execPc' = "settle")
             PROVE  j \in sawSuccess'[s]
  BY DEF SeenInv
<1>0. /\ JobsOK /\ NamesInv
      /\ \A r \in Resources : attempts[r] \in Nat
      /\ s[1] \in Resources /\ s[2] \in Nat
  BY ScanFacts DEF TypeInv, TypeOK, ScansOK
<1>1. CASE owedScan'[j] = owedScan[j]
  <2>1. CASE scanLife[s] = "success"
    BY <1>1, <2>1, SuccessIsFinal DEF SeenInv, Untouched
  <2>2. CASE scanLife[s] # "success" /\ scanLife'[s] = "success"
    BY <1>1, <2>2, SettleEffect DEF SeenInv
  <2>3. CASE exec' = s /\ execPc' = "settle"
    <3>1. CASE exec = s /\ sawSuccess'[s] = SucceededOn(s[1])
      <4>1. status[j] = "succeeded" /\ JobRes(j) = s[1]
        BY <1>1 DEF ClaimedInv
      <4>2. j \in 1 .. issued
        BY <1>0, <4>1 DEF NamesInv, JobsOK, Jobs
      <4>3. QED
        BY <3>1, <4>1, <4>2 DEF SucceededOn, OnResource
    <3>2. CASE UNCHANGED <<exec, execPc, sawSuccess>>
      BY <1>1, <2>3, <3>2 DEF SeenInv
    <3>3. QED
      BY <2>3, <3>1, <3>2, SettleEffect
  <2>4. QED
    BY <2>1, <2>2, <2>3
<1>2. CASE owedScan'[j] # owedScan[j]
  <2>1. PICK k \in Jobs :
           /\ status[k] = "succeeded" /\ JobRes(k) \in Resources
           /\ CanInsertScan(JobRes(k)) /\ InsertScan(JobRes(k))
           /\ owedScan[k] = None /\ owedScan' = [owedScan EXCEPT ![k] = exec']
           /\ UNCHANGED jobs
    BY <1>2, ClaimEffect
  <2>2. k = j
    BY <1>0, <1>2, <2>1 DEF JobsOK
  <2> DEFINE t == <<JobRes(j), attempts[JobRes(j)] + 1>>
  <2>3. /\ t \in Scans /\ exec' = t /\ execPc' = "check"
        /\ scanLife'[t] = "running"
        /\ \A q \in Scans : q # t => Untouched(q)
    BY <2>1, <2>2, InsertEffect
  <2>4. owedScan'[j] = t
    BY <1>0, <2>1, <2>2, <2>3 DEF JobsOK
  <2>5. s[1] = JobRes(j) /\ s[2] > attempts[s[1]]
    BY <1>0, <2>1, <2>2, <2>4
  <2>6. scanLife[s] = "none"
    BY <2>5 DEF ScanInv
  <2>7. scanLife'[s] # "success"
    BY <2>3, <2>6 DEF Untouched
  <2>8. QED
    BY <2>3, <2>7
<1>3. QED
  BY <1>1, <1>2

\* The property itself, from the parts.
LEMMA PlanSeenStep ==
    TypeInv /\ SlotInv /\ ScanInv /\ ApprovedInv /\ OwesInv /\ ClaimedInv
        /\ SeenInv /\ PlanSeenAfterLastSuccess /\ [Next]_vars
        => PlanSeenAfterLastSuccess'
<1> SUFFICES ASSUME TypeInv, SlotInv, ScanInv, ApprovedInv, OwesInv, ClaimedInv,
                    SeenInv, PlanSeenAfterLastSuccess, [Next]_vars,
                    NEW j \in 1 .. issued', NEW k \in 1 .. (j - 1),
                    jobScan'[k][1] = jobScan'[j][1], status'[k] = "succeeded"
             PROVE  k \in sawSuccess'[jobScan'[j]]
  BY DEF PlanSeenAfterLastSuccess, JobRes
<1>0. JobsOK /\ NamesInv /\ JobsOK'
  BY TypeStep DEF TypeInv, TypeOK
<1>1. j \in Jobs /\ k \in Jobs /\ k < j /\ j <= issued' /\ issued \in Nat
  BY <1>0 DEF JobsOK, Jobs
<1>2. CASE j <= issued /\ jobScan'[j] = jobScan[j] /\ jobScan'[k] = jobScan[k]
           /\ (status[k] # "active" => status[k] = "succeeded")
  <2>1. status[k] = "succeeded"
    BY <1>1, <1>2 DEF SlotInv
  <2>2. k \in sawSuccess[jobScan[j]]
    BY <1>0, <1>1, <1>2, <2>1 DEF PlanSeenAfterLastSuccess, JobRes
  <2>3. jobScan[j] \in Scans /\ scanLife[jobScan[j]] = "success"
    BY <1>0, <1>1, <1>2 DEF ApprovedInv, NamesInv
  <2>4. QED
    BY <1>2, <2>2, <2>3, SuccessIsFinal DEF Untouched
<1>3. ASSUME NEW c \in Callers, IssueEnds(c), ~ UNCHANGED jobs
      PROVE  k \in sawSuccess'[jobScan'[j]]
  <2> DEFINE r == callRes[c]
             n == issued + 1
  <2>1. /\ n \in Jobs /\ issued' = n /\ Issuable(r, callAppr[c])
        /\ r \in Resources /\ Latest(r) \in Scans
        /\ status' = [status EXCEPT ![n] = "active"]
        /\ jobScan' = [jobScan EXCEPT ![n] = Latest(r)]
    BY <1>3, IssueEffect
  <2>2. k # n /\ status[k] = "succeeded" /\ jobScan'[k] = jobScan[k]
    BY <1>0, <1>1, <2>1 DEF JobsOK
  <2>3. CASE j # n
    BY <1>0, <1>1, <1>2, <2>1, <2>2, <2>3 DEF JobsOK
  <2>4. CASE j = n
    <3>1. jobScan'[j] = Latest(r) /\ JobRes(k) = r
      BY <1>0, <2>1, <2>2, <2>4 DEF JobRes, Latest, JobsOK
    <3>2. k \in OnResource(r)
      BY <1>0, <1>1, <2>2, <3>1 DEF OnResource, NamesInv, Jobs
    <3>3. owed[k] /\ ~ Pending(k)
      BY <1>1, <2>1, <2>2, <3>2 DEF OwesInv, Issuable, PendingOn
    <3>4. owedScan[k] # None
      BY <3>3 DEF Pending
    <3>5. owedScan[k][1] = Latest(r)[1] /\ owedScan[k][2] <= Latest(r)[2]
      BY <1>1, <3>1, <3>4 DEF ClaimedInv, Latest
    <3>6. scanLife[Latest(r)] = "success"
      BY <2>1 DEF Issuable, CurrentAndApprovable
    <3>7. k \in sawSuccess[Latest(r)]
      BY <1>1, <2>1, <3>4, <3>5, <3>6 DEF SeenInv
    <3>8. UNCHANGED sawSuccess
      BY <1>3 DEF IssueEnds, scans
    <3>9. QED
      BY <3>1, <3>7, <3>8
  <2>5. QED
    BY <2>3, <2>4
<1>4. CASE UNCHANGED jobs
  BY <1>1, <1>2, <1>4 DEF jobs
<1>5. CASE StartStep
  BY <1>3, <1>4, <1>5 DEF StartStep, StartReads, IssueBegins
<1>6. CASE JobStep \/ Restart
  <2>1. status[k] # "active" => status[k] = "succeeded"
    BY <1>0, <1>1, <1>6 DEF JobStep, JobAdvances, JobEnds, JobSucceeds, Restart,
       RecoverJobs, JobsOK
  <2>2. QED
    BY <1>1, <1>2, <1>6, <2>1, JobFrame, RestartFrame
<1>7. CASE WorldStep \/ CycleStep \/ SchedulerStep \/ CycleFails \/ FenceStep
           \/ UNCHANGED vars
  BY <1>7, <1>4, WorldFrame, CycleFrame, SchedulerFrame, FailsFrame,
     FenceFrame DEF vars
<1>8. ASSUME NEW s \in Scans, Approve(s) PROVE UNCHANGED jobs
  BY <1>8, ApproveFrame
<1>9. QED
  BY <1>4, <1>5, <1>6, <1>7, <1>8 DEF Next

-----------------------------------------------------------------------------
(* The inductive invariant and the theorems.                                *)

\* The inductive invariant.
IInv == /\ TypeInv /\ FenceInv /\ SlotInv /\ ContractInv /\ ScanInv
        /\ ApprovedInv /\ OwesInv /\ ClaimedInv /\ SeenInv
        /\ PlanSeenAfterLastSuccess

\* It holds in an empty authority.
LEMMA InitIInv == Init => IInv
<1> SUFFICES ASSUME Init PROVE IInv
  OBVIOUS
<1>1. TypeInv
  BY TypeInit
<1>2. FenceInv
  BY DEF Init, FenceInv, FenceExcludesJobs, Active
<1>3. SlotInv
  BY DEF Init, SlotInv
<1>4. ContractInv
  BY DEF Init, ContractInv, Jobs
<1>5. ScanInv
  BY DEF Init, ScanInv
<1>6. ApprovedInv
  BY DEF Init, ApprovedInv, Approvals, Jobs
<1>7. OwesInv
  BY DEF Init, OwesInv
<1>8. ClaimedInv /\ SeenInv
  BY DEF Init, ClaimedInv, SeenInv
<1>9. PlanSeenAfterLastSuccess
  BY DEF Init, PlanSeenAfterLastSuccess
<1>10. QED
  BY <1>1, <1>2, <1>3, <1>4, <1>5, <1>6, <1>7, <1>8, <1>9 DEF IInv

\* The invariant holds in every behaviour of the specification.
THEOREM PlanInductive == Spec => []IInv
<1>1. Init => IInv
  BY InitIInv
<1>2. IInv /\ [Next]_vars => IInv'
  BY TypeStep, FenceInvStep, SlotInvStep, ContractInvStep, ScanInvStep,
     ApprovedInvStep, OwesInvStep, ClaimedInvStep, SeenInvStep, PlanSeenStep
     DEF IInv
<1>3. QED
  BY <1>1, <1>2, PTL DEF Spec

\* Every variable of the authority keeps its type.
THEOREM PlanTypeCorrect == Spec => []TypeOK
<1>1. IInv => TypeOK
  BY DEF IInv, TypeInv
<1>2. QED
  BY <1>1, PlanInductive, PTL

\* No job is issued on a plan read from the host before an earlier update of
\* the same resource had succeeded.
THEOREM NoPlanFromBeforeSuccess == Spec => []PlanSeenAfterLastSuccess
<1>1. IInv => PlanSeenAfterLastSuccess
  BY DEF IInv
<1>2. QED
  BY <1>1, PlanInductive, PTL

\* An approval leads to at most one successful update.
THEOREM OneSuccessPerApproval == Spec => []ApprovalSucceedsOnce
<1>1. IInv => ApprovalSucceedsOnce
  <2> SUFFICES ASSUME IInv, NEW j \in 1 .. issued, NEW k \in 1 .. issued,
                      status[j] = "succeeded", status[k] = "succeeded", j # k
               PROVE  jobAppr[j] # jobAppr[k]
    BY DEF ApprovalSucceedsOnce
  <2>1. j \in Jobs /\ k \in Jobs
    BY DEF IInv, TypeInv, TypeOK, JobsOK, Jobs
  <2>2. QED
    BY <2>1 DEF IInv, SlotInv
<1>2. QED
  BY <1>1, PlanInductive, PTL

\* What a job freezes is the non-empty plan the operator approved, in the
\* context it was approved in.
THEOREM FrozenIsApproved == Spec => []FrozenPlanWasApproved
<1>1. IInv => FrozenPlanWasApproved
  <2> SUFFICES ASSUME IInv, NEW j \in 1 .. issued
               PROVE  LET s == jobScan[j]
                          t == apprScan[jobAppr[j]]
                      IN /\ s[1] = t[1] /\ SameContext(s, t)
                         /\ scanPlan[s] = scanPlan[t]
                         /\ scanPlan[s] \notin {None, EmptyPlan}
    BY DEF FrozenPlanWasApproved
  <2>1. j \in Jobs /\ j <= issued
    BY DEF IInv, TypeInv, TypeOK, JobsOK, Jobs
  <2>2. jobScan[j] \in Scans
    BY <2>1 DEF IInv, TypeInv, NamesInv
  <2>3. QED
    BY <2>1, <2>2 DEF IInv, ApprovedInv, ScanInv
<1>2. QED
  BY <1>1, PlanInductive, PTL

\* A job whose frozen health contract was edited or cleared before its
\* mutation never reaches the mutation.
THEOREM MutationUnderFrozenContract == Spec => []MutationKeepsContract
<1>1. IInv => MutationKeepsContract
  BY DEF IInv, ContractInv, MutationKeepsContract
<1>2. QED
  BY <1>1, PlanInductive, PTL

\* A fence and an active job never exist together.
THEOREM FenceIsExclusive == Spec => []FenceExcludesJobs
<1>1. IInv => FenceExcludesJobs
  BY DEF IInv, FenceInv
<1>2. QED
  BY <1>1, PlanInductive, PTL

\* The owed scan is never interrupted, has one owner, and if it succeeded it
\* was read after the owner's success.
THEOREM OwedScansAreHonest == Spec => []OwedScanIsHonest
<1>1. IInv => OwedScanIsHonest
  <2> SUFFICES ASSUME IInv, NEW j \in 1 .. issued, owedScan[j] # None
               PROVE  /\ scanLife[owedScan[j]] # "interrupted"
                      /\ \A k \in 1 .. issued : owedScan[k] = owedScan[j] => k = j
                      /\ scanLife[owedScan[j]] = "success"
                            => j \in sawSuccess[owedScan[j]]
    BY DEF OwedScanIsHonest
  <2>1. j \in Jobs /\ 1 .. issued \subseteq Jobs
    BY DEF IInv, TypeInv, TypeOK, JobsOK, Jobs
  <2>2. owedScan[j] \in Scans /\ owedScan[j][2] \in Nat
    BY <2>1, ScanFacts DEF IInv, TypeInv, TypeOK, JobsOK
  <2>3. QED
    BY <2>1, <2>2 DEF IInv, ClaimedInv, SeenInv
<1>2. QED
  BY <1>1, PlanInductive, PTL
=============================================================================
