------------------------ MODULE PostMutationProofs -------------------------
(***************************************************************************)
(* Safety of health and rollback for every number of invocations, helper   *)
(* processes, faults and moves of the world around them.                   *)
(***************************************************************************)
EXTENDS PostMutation, TLAPS

\* The steps of a helper that holds the lease itself.
LeaseSteps == {"leased", "task", "listing", "intent"}

\* The lease has one holder, inside its critical section; a runner that exists
\* holds it.
LeaseInv ==
    /\ \A c \in Calls : step[c] \in LeaseSteps <=> lease = c
    /\ lease = Runner <=> runner # "none"

\* Task t is the journaled one, in a phase the launching helper may rewrite.
Journaled(t) == phase \in {"task_known", "terminal"} /\ jtask = t

\* How far a launch has come, and what a helper holds, against the journal.
LaunchInv ==
    /\ \A c \in Calls : step[c] \in {"intent", "prepared"} => op[c] = "submit"
    /\ \A c \in Calls : step[c] = "intent" => phase = "intent"
    /\ \A c \in Calls : step[c] = "prepared" => runner = "ready" /\ phase = "intent"
    /\ \A c \in Calls : step[c] = "journaled" => runner = "ready" /\ phase = "submitted"
    /\ \A c, d \in Calls : /\ step[c] \in {"prepared", "journaled"}
                           /\ step[d] \in {"prepared", "journaled"}
                           => c = d
    /\ \A c \in Calls : step[c] \in {"task", "listing", "promote", "rewrite"}
                           => found[c] # NoTask
    /\ \A c \in Calls : step[c] = "promote" =>
          \/ phase = "submitted" /\ capture = found[c]
          \/ Journaled(found[c])
    /\ \A c \in Calls : step[c] = "listing" => pveTask = "ok"

\* The journal's phase, the runner and the capture against what PVE was asked.
RunInv ==
    /\ submissions <= 1
    /\ submissions = 0 <=> pveTask = "none"
    /\ phase \notin PostSubmission
          => submissions = 0 /\ runner \in {"none", "ready", "abandoned"}
    /\ runner \in {"ready", "abandoned", "released"} => submissions = 0
    /\ runner \in {"released", "running"} => phase = "submitted" /\ capture = NoTask
    /\ runner \in {"ready", "abandoned"} => phase \in {"intent", "submitted"}
    /\ runner = "running" => submissions = 1
    /\ capture \in {NoTask, submissions}
    /\ capture # NoTask => phase = "submitted"
    /\ jtask \in {NoTask, submissions}
    /\ jtask # NoTask <=> phase \in {"task_known", "terminal"}

\* Before arming nothing was asked of the host; afterwards the row says of the
\* rollback what the host bears out.  A verdict closes the evaluation.
JobInv ==
    /\ checkpoint \in EligibleCheckpoints =>
          /\ phase = "absent"
          /\ \A c \in Calls : step[c] = "free"
          /\ \A w \in Invocations :
                pc[w] \in {"idle", "health", "prove", "probing", "reprove",
                           "verdict"}
    /\ checkpoint \in EligibleCheckpoints \ {"health_completed"}
          => status = "active" /\ verdict = "none"
    /\ status = "succeeded" => checkpoint = "health_completed"
    /\ status = "rolled_back" <=> checkpoint = "rollback_completed"
    /\ status = "rolled_back" => pveTask = "ok"
    /\ status = "blocked" => /\ checkpoint = "rollback_may_have_started"
                             /\ phase = "sealed_not_submitted"
    /\ task # NoTask => Journaled(task)

\* Answers under way, and the replies they became, stay true until used.
AnswerInv ==
    /\ \A c \in Calls :
          /\ answer[c] = "sealed" => phase = "sealed_not_submitted"
          /\ answer[c] = "completed" => pveTask = "ok"
          /\ found[c] # NoTask /\ step[c] # "promote" => Journaled(found[c])
    /\ \A w \in Invocations :
          /\ reply[w] = "sealed" => phase = "sealed_not_submitted"
          /\ reply[w] = "completed" => pveTask = "ok"
          /\ upid[w] # NoTask => Journaled(upid[w])

\* A call that still has a caller is the one call its invocation waits for; an
\* invocation that goes on with a result keeps the reply it rests on.
CallerInv ==
    /\ \A c \in Calls : caller[c] # None =>
          /\ pc[caller[c]] \in WaitingPcs
          /\ reply[caller[c]] = None
          /\ op[c] = "submit" => pc[caller[c]] = "submitting"
    /\ \A c, d \in Calls : caller[c] = caller[d] /\ c # d => caller[c] = None
    /\ \A c \in Calls : step[c] = "free" => caller[c] = None
    /\ \A w \in Invocations :
          /\ pc[w] \in {"reprove", "verdict"} => reply[w] \in Verdicts
          /\ pc[w] = "complete" => reply[w] = "completed"

\* The writer lock spans the host call made under it, and the job stays armed.
WriterInv ==
    /\ \A w \in Invocations : pc[w] \in {"submitting", "sealing"} <=> writer = w
    /\ \A w \in Invocations : pc[w] \in {"submitting", "sealing"} => Armed
    /\ \A w \in Invocations : pc[w] = "submitting" => context = "current"

\* The inductive invariant.
IInv == /\ TypeOK /\ LeaseInv /\ LaunchInv /\ RunInv /\ JobInv /\ AnswerInv
        /\ CallerInv /\ WriterInv

-----------------------------------------------------------------------------
(* The inductive step, one lemma per part of the invariant.                *)

\* The steps of the backend, and those of the host.
BackendStep(w) == InvocationStep(w) \/ WriterBusy(w) \/ CallTimeout(w)

\* The steps of the host, which change journal and task.
HostStep ==
    \/ \E c \in Calls : \/ HelperStep(c) \/ HelperDies(c)
                        \/ ReadFails(c) \/ SubmitJournalFails(c)
    \/ RunnerStep \/ PveTaskStep \/ RunnerLost \/ HostReboot

\* The operator, discovery, the guest and the stage before this one.
WorldStep ==
    \/ RequestRollback \/ ArmRollback \/ ContextMoves \/ DiscoveryNotices
    \/ GuestLeaves \/ OperatorTouchesSnapshots \/ MutationCompletes

USE PostMutationAssumption
  DEF jobRow, guest, world, inv, calls, journal, pve, host, bounds, Active,
      Armed, Statuses, EligibleCheckpoints, Checkpoints, Contexts, Listings,
      SubmissionPermitted, PostSubmission, Phases, NoTask, Verdicts, Replies,
      Ops, WaitingPcs, TxnPcs, Pcs, HelperSteps, RunnerStates, LeaseSteps,
      Journaled

\* A backend step reaches the host only by starting a helper in a free slot,
\* and makes up no reply of the rollback helper's but an error.
LEMMA BackendEffect ==
  ASSUME TypeOK, NEW w \in Invocations, BackendStep(w)
  PROVE  /\ UNCHANGED <<host, answer, found>>
         /\ \A c \in Calls : \/ step'[c] = step[c] /\ op'[c] = op[c]
                             \/ step[c] = "free" /\ step'[c] = "sent"
         /\ \A v \in Invocations :
               reply'[v] \in {reply[v], None, "error"} \cup Verdicts
         /\ \A v \in Invocations : upid'[v] \in {upid[v], NoTask}
<1>1. CASE StartCycle(w) \/ StartHealth(w) \/ ProveHealthContext(w)
             \/ EvaluateHealth(w)
  BY <1>1 DEF TypeOK, StartCycle, Goto, Continue, Same, StartHealth, Stop,
     ProveHealthContext, Keep, EvaluateHealth
<1>2. CASE CompleteHealth(w)
  BY <1>2 DEF TypeOK, CompleteHealth, Stop, Goto, Continue
<1>3. CASE BeginInspection(w) \/ InspectionReturned(w)
  BY <1>3 DEF TypeOK, BeginInspection, Send, Goto, Continue, Same,
     InspectionReturned, Keep
<1>4. CASE SubmitIfCurrent(w) \/ SubmissionReturned(w)
  BY <1>4 DEF TypeOK, SubmitIfCurrent, Send, Goto, Stop, Continue, Same,
     SubmissionReturned, Keep
<1>5. CASE BeginSeal(w) \/ SealReturned(w)
  BY <1>5 DEF TypeOK, BeginSeal, Send, Goto, Stop, Continue, SealReturned,
     Keep, Same
<1>6. CASE FinishResult(w) \/ PollReturned(w)
  BY <1>6 DEF TypeOK, FinishResult, PersistConflict, TaskRecordable,
     PersistKnownTask, UpdateProof, Stop, Send, Goto, Keep, Continue,
     PollReturned
<1>7. CASE ApplyResult(w)
  BY <1>7 DEF TypeOK, ApplyResult, PersistConflict, TaskRecordable,
     PersistKnownTask, Goto, Keep, Stop, Continue, Same
<1>8. CASE CompleteRollback(w) \/ WriterBusy(w) \/ CallTimeout(w)
  BY <1>8 DEF TypeOK, CompleteRollback, Stop, Goto, Continue, WriterBusy,
     Fault, CallTimeout
<1>9. QED
  BY <1>1, <1>2, <1>3, <1>4, <1>5, <1>6, <1>7, <1>8
  DEF BackendStep, InvocationStep

\* A host step leaves the store and the invocations' control alone.
LEMMA HostEffect ==
  ASSUME HostStep
  PROVE  UNCHANGED <<jobRow, context, request, writer, pc, proven, sealTried>>
<1>1. ASSUME NEW c \in Calls,
             \/ HelperStep(c) \/ HelperDies(c) \/ ReadFails(c)
             \/ SubmitJournalFails(c)
      PROVE  UNCHANGED <<jobRow, context, request, writer, pc, proven, sealTried>>
  BY <1>1 DEF HelperStep, AcquireLease, InspectJournal, ResolveJournal,
     ReadTask, ReadListing, ReadFails, Seal, SubmitPreflight, SubmitPrepare,
     SubmitJournal, SubmitJournalFails, SubmitRelease, SubmitReadCapture,
     SubmitPromote, SubmitRewrite, Deliver, HelperDies
<1>2. CASE RunnerStep \/ PveTaskStep \/ RunnerLost \/ HostReboot
  BY <1>2 DEF RunnerStep, RunnerStart, RunnerCapture, RunnerExit, PveTaskStep,
     RunnerLost, HostReboot
<1>3. QED
  BY <1>1, <1>2 DEF HostStep

\* The world around them touches neither the invocations nor the host.
LEMMA WorldEffect ==
  ASSUME WorldStep PROVE UNCHANGED <<writer, inv, calls, host, status, verdict, task>>
  BY DEF WorldStep, RequestRollback, ArmRollback, ContextMoves,
     DiscoveryNotices, GuestLeaves, OperatorTouchesSnapshots,
     MutationCompletes

\* Every step keeps the variables within their types.
LEMMA TypeStep == IInv /\ [Next]_vars => TypeOK'
<1> SUFFICES ASSUME IInv, [Next]_vars PROVE TypeOK'
  OBVIOUS
<1> USE DEF IInv, TypeOK
<1>1. ASSUME NEW w \in Invocations,
            StartCycle(w) \/ StartHealth(w) \/ ProveHealthContext(w)
            \/ EvaluateHealth(w)
      PROVE TypeOK'
  BY <1>1 DEF StartCycle, Goto, Continue, Same, StartHealth, Stop,
     ProveHealthContext, Keep, EvaluateHealth
<1>2. ASSUME NEW w \in Invocations, CompleteHealth(w) PROVE TypeOK'
  BY <1>2 DEF CompleteHealth, Stop, Goto, Continue, CallerInv
<1>3. ASSUME NEW w \in Invocations,
            BeginInspection(w) \/ InspectionReturned(w)
      PROVE TypeOK'
  BY <1>3 DEF BeginInspection, Send, Goto, Continue, Same,
     InspectionReturned, Keep
<1>4. ASSUME NEW w \in Invocations,
            SubmitIfCurrent(w) \/ SubmissionReturned(w)
      PROVE TypeOK'
  BY <1>4 DEF SubmitIfCurrent, Send, Goto, Stop, Continue, Same,
     SubmissionReturned, Keep
<1>5. ASSUME NEW w \in Invocations,
            BeginSeal(w) \/ SealReturned(w)
      PROVE TypeOK'
  BY <1>5 DEF BeginSeal, Send, Goto, Stop, Continue, SealReturned, Keep,
     Same
<1>6. ASSUME NEW w \in Invocations,
            FinishResult(w) \/ PollReturned(w)
      PROVE TypeOK'
  BY <1>6 DEF FinishResult, PersistConflict, TaskRecordable,
     PersistKnownTask, UpdateProof, Stop, Send, Goto, Keep, Continue,
     PollReturned
<1>7. ASSUME NEW w \in Invocations, ApplyResult(w) PROVE TypeOK'
  BY <1>7 DEF ApplyResult, PersistConflict, TaskRecordable, PersistKnownTask,
     Goto, Keep, Stop, Continue, Same
<1>8. ASSUME NEW w \in Invocations,
            CompleteRollback(w) \/ WriterBusy(w) \/ CallTimeout(w)
      PROVE TypeOK'
  BY <1>8 DEF CompleteRollback, Stop, Goto, Continue, WriterBusy, Fault,
     CallTimeout
<1>9. ASSUME NEW c \in Calls,
            AcquireLease(c) \/ InspectJournal(c)
      PROVE TypeOK'
  BY <1>9 DEF AcquireLease, Advance, Finish, InspectJournal
<1>10. ASSUME NEW c \in Calls, ResolveJournal(c) PROVE TypeOK'
  BY <1>10 DEF ResolveJournal, Advance, Finish, Promotable, Promote
<1>11. ASSUME NEW c \in Calls,
            ReadTask(c) \/ ReadListing(c) \/ ReadFails(c)
      PROVE TypeOK'
  BY <1>11 DEF ReadTask, Advance, Finish, ReadListing, ReadFails
<1>12. ASSUME NEW c \in Calls, Seal(c) PROVE TypeOK'
  BY <1>12 DEF Seal, Finish
<1>13. ASSUME NEW c \in Calls, SubmitPreflight(c) PROVE TypeOK'
  BY <1>13 DEF SubmitPreflight, Advance, Finish
<1>14. ASSUME NEW c \in Calls, SubmitPrepare(c) PROVE TypeOK'
  BY <1>14 DEF SubmitPrepare, Advance, Finish
<1>15. ASSUME NEW c \in Calls,
            SubmitJournal(c) \/ SubmitJournalFails(c)
      PROVE TypeOK'
  BY <1>15 DEF SubmitJournal, Advance, SubmitJournalFails, Finish
<1>16. ASSUME NEW c \in Calls,
            SubmitRelease(c) \/ SubmitReadCapture(c)
      PROVE TypeOK'
  BY <1>16 DEF SubmitRelease, Advance, SubmitReadCapture, Finish
<1>17. ASSUME NEW c \in Calls,
            SubmitPromote(c) \/ SubmitRewrite(c)
      PROVE TypeOK'
  BY <1>17 DEF SubmitPromote, Advance, SubmitRewrite, Finish
<1>18. ASSUME NEW c \in Calls, Deliver(c) PROVE TypeOK'
  BY <1>18 DEF Deliver
<1>19. ASSUME NEW c \in Calls, HelperDies(c) PROVE TypeOK'
  BY <1>19 DEF HelperDies, Fault, Finish
<1>20. CASE RunnerStart \/ RunnerCapture \/ RunnerExit \/ RunnerLost
  BY <1>20 DEF RunnerStart, RunnerCapture, RunnerExit, RunnerLost, Fault
<1>21. CASE PveTaskStep \/ HostReboot
  BY <1>21 DEF PveTaskStep, HostReboot, Fault
<1>22. CASE BackendRestart
  BY <1>22 DEF BackendRestart, Fault
<1>23. CASE RequestRollback \/ ArmRollback \/ ContextMoves
             \/ DiscoveryNotices
  BY <1>23 DEF RequestRollback, ArmRollback, Armable, ContextMoves,
     DiscoveryNotices
<1>24. CASE GuestLeaves
  <2>1. live' \in BOOLEAN
    BY <1>24, Zenon DEF GuestLeaves
  <2>2. QED
    BY <1>24, <2>1 DEF GuestLeaves
<1>25. CASE OperatorTouchesSnapshots \/ MutationCompletes
  BY <1>25 DEF OperatorTouchesSnapshots, MutationCompletes
<1>26. CASE UNCHANGED vars
  BY <1>26 DEF vars
<1>27. QED
  BY <1>1, <1>2, <1>3, <1>4, <1>5, <1>6, <1>7, <1>8, <1>9, <1>10, <1>11,
     <1>12, <1>13, <1>14, <1>15, <1>16, <1>17, <1>18, <1>19, <1>20, <1>21,
     <1>22, <1>23, <1>24, <1>25, <1>26
  DEF Next, InvocationStep, HelperStep, RunnerStep, WorldStep

\* The lease keeps one holder.
LEMMA LeaseStep == IInv /\ [Next]_vars => LeaseInv'
<1> SUFFICES ASSUME IInv, [Next]_vars PROVE LeaseInv'
  OBVIOUS
<1> USE DEF IInv, TypeOK, LeaseInv, LaunchInv, RunInv
<1>1. ASSUME NEW w \in Invocations, BackendStep(w) PROVE LeaseInv'
  BY <1>1, BackendEffect
<1>2. ASSUME NEW c \in Calls,
            AcquireLease(c) \/ InspectJournal(c)
      PROVE LeaseInv'
  BY <1>2 DEF AcquireLease, Advance, Finish, InspectJournal
<1>3. ASSUME NEW c \in Calls, ResolveJournal(c) PROVE LeaseInv'
  BY <1>3 DEF ResolveJournal, Advance, Finish, Promotable, Promote
<1>4. ASSUME NEW c \in Calls,
            ReadTask(c) \/ ReadListing(c) \/ ReadFails(c)
      PROVE LeaseInv'
  BY <1>4 DEF ReadTask, Advance, Finish, ReadListing, ReadFails
<1>5. ASSUME NEW c \in Calls, Seal(c) PROVE LeaseInv'
  BY <1>5 DEF Seal, Finish
<1>6. ASSUME NEW c \in Calls, SubmitPreflight(c) PROVE LeaseInv'
  BY <1>6 DEF SubmitPreflight, Advance, Finish
<1>7. ASSUME NEW c \in Calls, SubmitPrepare(c) PROVE LeaseInv'
  BY <1>7 DEF SubmitPrepare, Advance, Finish
<1>8. ASSUME NEW c \in Calls,
            SubmitJournal(c) \/ SubmitJournalFails(c)
      PROVE LeaseInv'
  BY <1>8 DEF SubmitJournal, Advance, SubmitJournalFails, Finish
<1>9. ASSUME NEW c \in Calls,
            SubmitRelease(c) \/ SubmitReadCapture(c)
      PROVE LeaseInv'
  BY <1>9 DEF SubmitRelease, Advance, SubmitReadCapture, Finish
<1>10. ASSUME NEW c \in Calls,
            SubmitPromote(c) \/ SubmitRewrite(c)
      PROVE LeaseInv'
  BY <1>10 DEF SubmitPromote, Advance, SubmitRewrite, Finish
<1>11. ASSUME NEW c \in Calls, Deliver(c) PROVE LeaseInv'
  BY <1>11 DEF Deliver
<1>12. ASSUME NEW c \in Calls, HelperDies(c) PROVE LeaseInv'
  BY <1>12 DEF HelperDies, Fault, Finish
<1>13. CASE RunnerStart \/ RunnerCapture \/ RunnerExit \/ RunnerLost
  BY <1>13 DEF RunnerStart, RunnerCapture, RunnerExit, RunnerLost, Fault
<1>14. CASE PveTaskStep \/ HostReboot
  BY <1>14 DEF PveTaskStep, HostReboot, Fault
<1>15. CASE BackendRestart
  BY <1>15 DEF BackendRestart, Fault
<1>16. CASE WorldStep
  BY <1>16, WorldEffect
<1>17. CASE UNCHANGED vars
  BY <1>17 DEF vars
<1>18. QED
  BY <1>1, <1>2, <1>3, <1>4, <1>5, <1>6, <1>7, <1>8, <1>9, <1>10, <1>11,
     <1>12, <1>13, <1>14, <1>15, <1>16, <1>17
  DEF Next, BackendStep, HelperStep, RunnerStep, WorldStep

\* A launch keeps pace with the journal.
LEMMA LaunchStep == IInv /\ [Next]_vars => LaunchInv'
<1> SUFFICES ASSUME IInv, [Next]_vars PROVE LaunchInv'
  OBVIOUS
<1> USE DEF IInv, TypeOK, LeaseInv, LaunchInv, RunInv, AnswerInv
<1>1. ASSUME NEW w \in Invocations, BackendStep(w) PROVE LaunchInv'
  BY <1>1, BackendEffect
<1>2. ASSUME NEW c \in Calls,
            AcquireLease(c) \/ InspectJournal(c)
      PROVE LaunchInv'
  BY <1>2 DEF AcquireLease, Advance, Finish, InspectJournal
<1>3. ASSUME NEW c \in Calls, ResolveJournal(c) PROVE LaunchInv'
  BY <1>3 DEF ResolveJournal, Advance, Finish, Promotable, Promote
<1>4. ASSUME NEW c \in Calls,
            ReadTask(c) \/ ReadListing(c) \/ ReadFails(c)
      PROVE LaunchInv'
  BY <1>4 DEF ReadTask, Advance, Finish, ReadListing, ReadFails
<1>5. ASSUME NEW c \in Calls, Seal(c) PROVE LaunchInv'
  BY <1>5 DEF Seal, Finish
<1>6. ASSUME NEW c \in Calls, SubmitPreflight(c) PROVE LaunchInv'
  BY <1>6 DEF SubmitPreflight, Advance, Finish
<1>7. ASSUME NEW c \in Calls, SubmitPrepare(c) PROVE LaunchInv'
  BY <1>7 DEF SubmitPrepare, Advance, Finish
<1>8. ASSUME NEW c \in Calls,
            SubmitJournal(c) \/ SubmitJournalFails(c)
      PROVE LaunchInv'
  BY <1>8 DEF SubmitJournal, Advance, SubmitJournalFails, Finish
<1>9. ASSUME NEW c \in Calls,
            SubmitRelease(c) \/ SubmitReadCapture(c)
      PROVE LaunchInv'
  BY <1>9 DEF SubmitRelease, Advance, SubmitReadCapture, Finish
<1>10. ASSUME NEW c \in Calls,
            SubmitPromote(c) \/ SubmitRewrite(c)
      PROVE LaunchInv'
  BY <1>10 DEF SubmitPromote, Advance, SubmitRewrite, Finish
<1>11. ASSUME NEW c \in Calls, Deliver(c) PROVE LaunchInv'
  BY <1>11 DEF Deliver
<1>12. ASSUME NEW c \in Calls, HelperDies(c) PROVE LaunchInv'
  BY <1>12 DEF HelperDies, Fault, Finish
<1>13. CASE RunnerStart \/ RunnerCapture \/ RunnerExit \/ RunnerLost
  BY <1>13 DEF RunnerStart, RunnerCapture, RunnerExit, RunnerLost, Fault
<1>14. CASE PveTaskStep \/ HostReboot
  BY <1>14 DEF PveTaskStep, HostReboot, Fault
<1>15. CASE BackendRestart
  BY <1>15 DEF BackendRestart, Fault
<1>16. CASE WorldStep
  BY <1>16, WorldEffect
<1>17. CASE UNCHANGED vars
  BY <1>17 DEF vars
<1>18. QED
  BY <1>1, <1>2, <1>3, <1>4, <1>5, <1>6, <1>7, <1>8, <1>9, <1>10, <1>11,
     <1>12, <1>13, <1>14, <1>15, <1>16, <1>17
  DEF Next, BackendStep, HelperStep, RunnerStep, WorldStep

\* What PVE was asked follows the journal's phase.
LEMMA RunStep == IInv /\ [Next]_vars => RunInv'
<1> SUFFICES ASSUME IInv, [Next]_vars PROVE RunInv'
  OBVIOUS
<1> USE DEF IInv, TypeOK, LeaseInv, LaunchInv, RunInv, AnswerInv
<1>1. ASSUME NEW w \in Invocations, BackendStep(w) PROVE RunInv'
  BY <1>1, BackendEffect
<1>2. ASSUME NEW c \in Calls,
            AcquireLease(c) \/ InspectJournal(c)
      PROVE RunInv'
  BY <1>2 DEF AcquireLease, Advance, Finish, InspectJournal
<1>3. ASSUME NEW c \in Calls, ResolveJournal(c) PROVE RunInv'
  BY <1>3 DEF ResolveJournal, Advance, Finish, Promotable, Promote
<1>4. ASSUME NEW c \in Calls,
            ReadTask(c) \/ ReadListing(c) \/ ReadFails(c)
      PROVE RunInv'
  BY <1>4 DEF ReadTask, Advance, Finish, ReadListing, ReadFails
<1>5. ASSUME NEW c \in Calls, Seal(c) PROVE RunInv'
  BY <1>5 DEF Seal, Finish
<1>6. ASSUME NEW c \in Calls, SubmitPreflight(c) PROVE RunInv'
  BY <1>6 DEF SubmitPreflight, Advance, Finish
<1>7. ASSUME NEW c \in Calls, SubmitPrepare(c) PROVE RunInv'
  BY <1>7 DEF SubmitPrepare, Advance, Finish
<1>8. ASSUME NEW c \in Calls,
            SubmitJournal(c) \/ SubmitJournalFails(c)
      PROVE RunInv'
  BY <1>8 DEF SubmitJournal, Advance, SubmitJournalFails, Finish
<1>9. ASSUME NEW c \in Calls,
            SubmitRelease(c) \/ SubmitReadCapture(c)
      PROVE RunInv'
  BY <1>9 DEF SubmitRelease, Advance, SubmitReadCapture, Finish
<1>10. ASSUME NEW c \in Calls,
            SubmitPromote(c) \/ SubmitRewrite(c)
      PROVE RunInv'
  BY <1>10 DEF SubmitPromote, Advance, SubmitRewrite, Finish
<1>11. ASSUME NEW c \in Calls, Deliver(c) PROVE RunInv'
  BY <1>11 DEF Deliver
<1>12. ASSUME NEW c \in Calls, HelperDies(c) PROVE RunInv'
  BY <1>12 DEF HelperDies, Fault, Finish
<1>13. CASE RunnerStart \/ RunnerCapture \/ RunnerExit \/ RunnerLost
  BY <1>13 DEF RunnerStart, RunnerCapture, RunnerExit, RunnerLost, Fault
<1>14. CASE PveTaskStep \/ HostReboot
  BY <1>14 DEF PveTaskStep, HostReboot, Fault
<1>15. CASE BackendRestart
  BY <1>15 DEF BackendRestart, Fault
<1>16. CASE WorldStep
  BY <1>16, WorldEffect
<1>17. CASE UNCHANGED vars
  BY <1>17 DEF vars
<1>18. QED
  BY <1>1, <1>2, <1>3, <1>4, <1>5, <1>6, <1>7, <1>8, <1>9, <1>10, <1>11,
     <1>12, <1>13, <1>14, <1>15, <1>16, <1>17
  DEF Next, BackendStep, HelperStep, RunnerStep, WorldStep

\* What the host has reached for good: a seal, a task identity, a task that
\* ended well.
LEMMA HostFactsStand ==
  ASSUME IInv, HostStep
  PROVE  /\ phase = "sealed_not_submitted" => phase' = "sealed_not_submitted"
         /\ phase \in {"task_known", "terminal"}
              => phase' \in {"task_known", "terminal"} /\ jtask' = jtask
         /\ pveTask = "ok" => pveTask' = "ok"
<1> USE DEF IInv, TypeOK, LeaseInv, LaunchInv, RunInv, AnswerInv
<1>1. ASSUME NEW c \in Calls,
             AcquireLease(c) \/ InspectJournal(c) \/ ResolveJournal(c)
             \/ ReadTask(c) \/ ReadListing(c) \/ ReadFails(c) \/ Deliver(c)
             \/ HelperDies(c)
      PROVE  /\ phase = "sealed_not_submitted" => phase' = "sealed_not_submitted"
             /\ phase \in {"task_known", "terminal"}
                  => phase' \in {"task_known", "terminal"} /\ jtask' = jtask
             /\ UNCHANGED pveTask
  BY <1>1 DEF AcquireLease, InspectJournal, ResolveJournal, Promotable,
     Promote, ReadTask, ReadListing, ReadFails, Deliver, HelperDies
<1>2. ASSUME NEW c \in Calls,
             Seal(c) \/ SubmitPreflight(c) \/ SubmitPrepare(c)
      PROVE  /\ phase = "sealed_not_submitted" => phase' = "sealed_not_submitted"
             /\ phase \in {"task_known", "terminal"}
                  => phase' \in {"task_known", "terminal"} /\ jtask' = jtask
             /\ UNCHANGED pveTask
  BY <1>2 DEF Seal, SubmitPreflight, SubmitPrepare
<1>3. ASSUME NEW c \in Calls,
             SubmitJournal(c) \/ SubmitJournalFails(c) \/ SubmitRelease(c)
             \/ SubmitReadCapture(c) \/ SubmitPromote(c) \/ SubmitRewrite(c)
      PROVE  /\ phase = "sealed_not_submitted" => phase' = "sealed_not_submitted"
             /\ phase \in {"task_known", "terminal"}
                  => phase' \in {"task_known", "terminal"} /\ jtask' = jtask
             /\ UNCHANGED pveTask
  BY <1>3 DEF SubmitJournal, SubmitJournalFails, SubmitRelease,
     SubmitReadCapture, SubmitPromote, SubmitRewrite
<1>4. CASE RunnerStep \/ PveTaskStep \/ RunnerLost \/ HostReboot
  BY <1>4 DEF RunnerStep, RunnerStart, RunnerCapture, RunnerExit, PveTaskStep,
     RunnerLost, HostReboot
<1>5. QED
  BY <1>1, <1>2, <1>3, <1>4 DEF HostStep, HelperStep

\* The job row stays justified by what the host has reached.
LEMMA JobStep == IInv /\ [Next]_vars => JobInv'
<1> SUFFICES ASSUME IInv, [Next]_vars PROVE JobInv'
  OBVIOUS
<1> USE DEF IInv, TypeOK, RunInv, JobInv, AnswerInv, CallerInv, WriterInv
<1>1. ASSUME NEW w \in Invocations,
            StartCycle(w) \/ StartHealth(w) \/ ProveHealthContext(w)
            \/ EvaluateHealth(w)
      PROVE JobInv'
  BY <1>1 DEF StartCycle, Goto, Continue, Same, StartHealth, Stop,
     ProveHealthContext, Keep, EvaluateHealth
<1>2. ASSUME NEW w \in Invocations, CompleteHealth(w) PROVE JobInv'
  BY <1>2 DEF CompleteHealth, Stop, Goto, Continue
<1>3. ASSUME NEW w \in Invocations,
            BeginInspection(w) \/ InspectionReturned(w)
      PROVE JobInv'
  BY <1>3 DEF BeginInspection, Send, Goto, Continue, Same,
     InspectionReturned, Keep
<1>4. ASSUME NEW w \in Invocations,
            SubmitIfCurrent(w) \/ SubmissionReturned(w)
      PROVE JobInv'
  BY <1>4 DEF SubmitIfCurrent, Send, Goto, Stop, Continue, Same,
     SubmissionReturned, Keep
<1>5. ASSUME NEW w \in Invocations,
            BeginSeal(w) \/ SealReturned(w)
      PROVE JobInv'
  BY <1>5 DEF BeginSeal, Send, Goto, Stop, Continue, SealReturned, Keep,
     Same
<1>6. ASSUME NEW w \in Invocations,
            FinishResult(w) \/ PollReturned(w)
      PROVE JobInv'
  BY <1>6 DEF FinishResult, PersistConflict, TaskRecordable,
     PersistKnownTask, UpdateProof, Stop, Send, Goto, Keep, Continue,
     PollReturned
<1>7. ASSUME NEW w \in Invocations, ApplyResult(w) PROVE JobInv'
  BY <1>7 DEF ApplyResult, PersistConflict, TaskRecordable, PersistKnownTask,
     Goto, Keep, Stop, Continue, Same
<1>8. ASSUME NEW w \in Invocations,
            CompleteRollback(w) \/ WriterBusy(w) \/ CallTimeout(w)
      PROVE JobInv'
  BY <1>8 DEF CompleteRollback, Stop, Goto, Continue, WriterBusy, Fault,
     CallTimeout
<1>9. CASE HostStep
  <2>1. checkpoint \in EligibleCheckpoints
           => phase' = "absent" /\ \A c \in Calls : step'[c] = "free"
    <3> SUFFICES ASSUME checkpoint \in EligibleCheckpoints
                 PROVE  phase' = "absent" /\ \A c \in Calls : step'[c] = "free"
      OBVIOUS
    <3>1. phase = "absent" /\ runner = "none" /\ pveTask # "running"
      BY DEF IInv, TypeOK, JobInv, RunInv
    <3>2. \A c \in Calls : step[c] = "free"
      BY DEF IInv, JobInv
    <3>3. ~\E c \in Calls : \/ HelperStep(c) \/ HelperDies(c)
                           \/ ReadFails(c) \/ SubmitJournalFails(c)
      BY <3>2 DEF HelperStep, AcquireLease, InspectJournal, ResolveJournal,
         ReadTask, ReadListing, ReadFails, Seal, SubmitPreflight,
         SubmitPrepare, SubmitJournal, SubmitJournalFails, SubmitRelease,
         SubmitReadCapture, SubmitPromote, SubmitRewrite, Deliver,
         HelperDies
    <3>4. CASE RunnerStep \/ PveTaskStep \/ RunnerLost
      BY <3>1, <3>4 DEF RunnerStep, RunnerStart, RunnerCapture, RunnerExit,
         PveTaskStep, RunnerLost
    <3>5. CASE HostReboot
      BY <3>1, <3>2, <3>5 DEF HostReboot
    <3>6. QED
      BY <1>9, <3>3, <3>4, <3>5 DEF HostStep
  <2>2. QED
    BY <1>9, <2>1, HostEffect, HostFactsStand DEF IInv, TypeOK, JobInv
<1>10. CASE BackendRestart
  BY <1>10 DEF BackendRestart, Fault
<1>11. CASE RequestRollback \/ ArmRollback \/ ContextMoves
             \/ DiscoveryNotices \/ GuestLeaves \/ OperatorTouchesSnapshots
             \/ MutationCompletes
  BY <1>11 DEF RequestRollback, ArmRollback, Armable, ContextMoves,
     DiscoveryNotices, GuestLeaves, OperatorTouchesSnapshots,
     MutationCompletes
<1>12. CASE UNCHANGED vars
  BY <1>12 DEF vars
<1>13. QED
  BY <1>1, <1>2, <1>3, <1>4, <1>5, <1>6, <1>7, <1>8, <1>9, <1>10, <1>11,
     <1>12
  DEF Next, InvocationStep, HostStep, WorldStep

\* An answer about what stands is still true when it is used.
LEMMA AnswerStep == IInv /\ [Next]_vars => AnswerInv'
<1> SUFFICES ASSUME IInv, [Next]_vars PROVE AnswerInv'
  OBVIOUS
<1> USE DEF IInv, TypeOK, LeaseInv, LaunchInv, RunInv, AnswerInv
<1>1. ASSUME NEW w \in Invocations, BackendStep(w) PROVE AnswerInv'
  BY <1>1, BackendEffect
<1>2. ASSUME NEW c \in Calls,
            AcquireLease(c) \/ InspectJournal(c)
      PROVE AnswerInv'
  BY <1>2 DEF AcquireLease, Advance, Finish, InspectJournal
<1>3. ASSUME NEW c \in Calls, ResolveJournal(c) PROVE AnswerInv'
  BY <1>3 DEF ResolveJournal, Advance, Finish, Promotable, Promote
<1>4. ASSUME NEW c \in Calls,
            ReadTask(c) \/ ReadListing(c) \/ ReadFails(c)
      PROVE AnswerInv'
  BY <1>4 DEF ReadTask, Advance, Finish, ReadListing, ReadFails
<1>5. ASSUME NEW c \in Calls, Seal(c) PROVE AnswerInv'
  BY <1>5 DEF Seal, Finish
<1>6. ASSUME NEW c \in Calls, SubmitPreflight(c) PROVE AnswerInv'
  BY <1>6 DEF SubmitPreflight, Advance, Finish
<1>7. ASSUME NEW c \in Calls, SubmitPrepare(c) PROVE AnswerInv'
  BY <1>7 DEF SubmitPrepare, Advance, Finish
<1>8. ASSUME NEW c \in Calls,
            SubmitJournal(c) \/ SubmitJournalFails(c)
      PROVE AnswerInv'
  BY <1>8 DEF SubmitJournal, Advance, SubmitJournalFails, Finish
<1>9. ASSUME NEW c \in Calls,
            SubmitRelease(c) \/ SubmitReadCapture(c)
      PROVE AnswerInv'
  BY <1>9 DEF SubmitRelease, Advance, SubmitReadCapture, Finish
<1>10. ASSUME NEW c \in Calls,
            SubmitPromote(c) \/ SubmitRewrite(c)
      PROVE AnswerInv'
  BY <1>10 DEF SubmitPromote, Advance, SubmitRewrite, Finish
<1>11. ASSUME NEW c \in Calls, Deliver(c) PROVE AnswerInv'
  BY <1>11 DEF Deliver
<1>12. ASSUME NEW c \in Calls, HelperDies(c) PROVE AnswerInv'
  BY <1>12 DEF HelperDies, Fault, Finish
<1>13. CASE RunnerStart \/ RunnerCapture \/ RunnerExit \/ RunnerLost
  BY <1>13 DEF RunnerStart, RunnerCapture, RunnerExit, RunnerLost, Fault
<1>14. CASE PveTaskStep \/ HostReboot
  BY <1>14 DEF PveTaskStep, HostReboot, Fault
<1>15. CASE BackendRestart
  BY <1>15 DEF BackendRestart, Fault
<1>16. CASE WorldStep
  BY <1>16, WorldEffect
<1>17. CASE UNCHANGED vars
  BY <1>17 DEF vars
<1>18. QED
  BY <1>1, <1>2, <1>3, <1>4, <1>5, <1>6, <1>7, <1>8, <1>9, <1>10, <1>11,
     <1>12, <1>13, <1>14, <1>15, <1>16, <1>17
  DEF Next, BackendStep, HelperStep, RunnerStep, WorldStep

\* Each waiting invocation has at most one call.
LEMMA CallerStep == IInv /\ [Next]_vars => CallerInv'
<1> SUFFICES ASSUME IInv, [Next]_vars PROVE CallerInv'
  OBVIOUS
<1> USE DEF IInv, TypeOK, CallerInv
<1>1. ASSUME NEW w \in Invocations,
            StartCycle(w) \/ StartHealth(w) \/ ProveHealthContext(w)
            \/ EvaluateHealth(w)
      PROVE CallerInv'
  BY <1>1 DEF StartCycle, Goto, Continue, Same, StartHealth, Stop,
     ProveHealthContext, Keep, EvaluateHealth
<1>2. ASSUME NEW w \in Invocations, CompleteHealth(w) PROVE CallerInv'
  BY <1>2 DEF CompleteHealth, Stop, Goto, Continue
<1>3. ASSUME NEW w \in Invocations,
            BeginInspection(w) \/ InspectionReturned(w)
      PROVE CallerInv'
  BY SMTT(40), <1>3 DEF BeginInspection, Send, Goto, Continue, Same,
     InspectionReturned, Keep
<1>4. ASSUME NEW w \in Invocations,
            SubmitIfCurrent(w) \/ SubmissionReturned(w)
      PROVE CallerInv'
  BY <1>4 DEF SubmitIfCurrent, Send, Goto, Stop, Continue, Same,
     SubmissionReturned, Keep
<1>5. ASSUME NEW w \in Invocations,
            BeginSeal(w) \/ SealReturned(w)
      PROVE CallerInv'
  BY SMTT(40), <1>5 DEF BeginSeal, Send, Goto, Stop, Continue, SealReturned, Keep,
     Same
<1>6. ASSUME NEW w \in Invocations,
            FinishResult(w) \/ PollReturned(w)
      PROVE CallerInv'
  BY <1>6 DEF FinishResult, PersistConflict, TaskRecordable,
     PersistKnownTask, UpdateProof, Stop, Send, Goto, Keep, Continue,
     PollReturned
<1>7. ASSUME NEW w \in Invocations, ApplyResult(w) PROVE CallerInv'
  BY <1>7 DEF ApplyResult, PersistConflict, TaskRecordable, PersistKnownTask,
     Goto, Keep, Stop, Continue, Same
<1>8. ASSUME NEW w \in Invocations,
            CompleteRollback(w) \/ WriterBusy(w) \/ CallTimeout(w)
      PROVE CallerInv'
  BY <1>8 DEF CompleteRollback, Stop, Goto, Continue, WriterBusy, Fault,
     CallTimeout
<1>9. ASSUME NEW c \in Calls,
            AcquireLease(c) \/ InspectJournal(c)
      PROVE CallerInv'
  BY <1>9 DEF AcquireLease, Advance, Finish, InspectJournal
<1>10. ASSUME NEW c \in Calls, ResolveJournal(c) PROVE CallerInv'
  BY <1>10 DEF ResolveJournal, Advance, Finish, Promotable, Promote
<1>11. ASSUME NEW c \in Calls,
            ReadTask(c) \/ ReadListing(c) \/ ReadFails(c)
      PROVE CallerInv'
  BY <1>11 DEF ReadTask, Advance, Finish, ReadListing, ReadFails
<1>12. ASSUME NEW c \in Calls, Seal(c) PROVE CallerInv'
  BY <1>12 DEF Seal, Finish
<1>13. ASSUME NEW c \in Calls, SubmitPreflight(c) PROVE CallerInv'
  BY <1>13 DEF SubmitPreflight, Advance, Finish
<1>14. ASSUME NEW c \in Calls, SubmitPrepare(c) PROVE CallerInv'
  BY <1>14 DEF SubmitPrepare, Advance, Finish
<1>15. ASSUME NEW c \in Calls,
            SubmitJournal(c) \/ SubmitJournalFails(c)
      PROVE CallerInv'
  BY <1>15 DEF SubmitJournal, Advance, SubmitJournalFails, Finish
<1>16. ASSUME NEW c \in Calls,
            SubmitRelease(c) \/ SubmitReadCapture(c)
      PROVE CallerInv'
  BY <1>16 DEF SubmitRelease, Advance, SubmitReadCapture, Finish
<1>17. ASSUME NEW c \in Calls,
            SubmitPromote(c) \/ SubmitRewrite(c)
      PROVE CallerInv'
  BY <1>17 DEF SubmitPromote, Advance, SubmitRewrite, Finish
<1>18. ASSUME NEW c \in Calls, Deliver(c) PROVE CallerInv'
  BY <1>18 DEF Deliver
<1>19. ASSUME NEW c \in Calls, HelperDies(c) PROVE CallerInv'
  BY <1>19 DEF HelperDies, Fault, Finish
<1>20. CASE RunnerStart \/ RunnerCapture \/ RunnerExit \/ RunnerLost
  BY <1>20 DEF RunnerStart, RunnerCapture, RunnerExit, RunnerLost, Fault
<1>21. CASE PveTaskStep \/ HostReboot
  BY <1>21 DEF PveTaskStep, HostReboot, Fault
<1>22. CASE BackendRestart
  BY <1>22 DEF BackendRestart, Fault
<1>23. CASE WorldStep
  BY <1>23, WorldEffect
<1>24. CASE UNCHANGED vars
  BY <1>24 DEF vars
<1>25. QED
  BY <1>1, <1>2, <1>3, <1>4, <1>5, <1>6, <1>7, <1>8, <1>9, <1>10, <1>11,
     <1>12, <1>13, <1>14, <1>15, <1>16, <1>17, <1>18, <1>19, <1>20, <1>21,
     <1>22, <1>23, <1>24
  DEF Next, InvocationStep, HelperStep, RunnerStep, WorldStep

\* The writer lock spans the host call made under it.
LEMMA WriterStep == IInv /\ [Next]_vars => WriterInv'
<1> SUFFICES ASSUME IInv, [Next]_vars PROVE WriterInv'
  OBVIOUS
<1> USE DEF IInv, TypeOK, JobInv, WriterInv
<1>1. ASSUME NEW w \in Invocations,
            StartCycle(w) \/ StartHealth(w) \/ ProveHealthContext(w)
            \/ EvaluateHealth(w)
      PROVE WriterInv'
  BY <1>1 DEF StartCycle, Goto, Continue, Same, StartHealth, Stop,
     ProveHealthContext, Keep, EvaluateHealth
<1>2. ASSUME NEW w \in Invocations, CompleteHealth(w) PROVE WriterInv'
  BY <1>2 DEF CompleteHealth, Stop, Goto, Continue
<1>3. ASSUME NEW w \in Invocations,
            BeginInspection(w) \/ InspectionReturned(w)
      PROVE WriterInv'
  BY <1>3 DEF BeginInspection, Send, Goto, Continue, Same,
     InspectionReturned, Keep
<1>4. ASSUME NEW w \in Invocations,
            SubmitIfCurrent(w) \/ SubmissionReturned(w)
      PROVE WriterInv'
  BY <1>4 DEF SubmitIfCurrent, Send, Goto, Stop, Continue, Same,
     SubmissionReturned, Keep
<1>5. ASSUME NEW w \in Invocations,
            BeginSeal(w) \/ SealReturned(w)
      PROVE WriterInv'
  BY <1>5 DEF BeginSeal, Send, Goto, Stop, Continue, SealReturned, Keep,
     Same
<1>6. ASSUME NEW w \in Invocations,
            FinishResult(w) \/ PollReturned(w)
      PROVE WriterInv'
  BY <1>6 DEF FinishResult, PersistConflict, TaskRecordable,
     PersistKnownTask, UpdateProof, Stop, Send, Goto, Keep, Continue,
     PollReturned
<1>7. ASSUME NEW w \in Invocations, ApplyResult(w) PROVE WriterInv'
  BY <1>7 DEF ApplyResult, PersistConflict, TaskRecordable, PersistKnownTask,
     Goto, Keep, Stop, Continue, Same
<1>8. ASSUME NEW w \in Invocations,
            CompleteRollback(w) \/ WriterBusy(w) \/ CallTimeout(w)
      PROVE WriterInv'
  BY <1>8 DEF CompleteRollback, Stop, Goto, Continue, WriterBusy, Fault,
     CallTimeout
<1>9. CASE HostStep
  BY <1>9, HostEffect
<1>10. CASE BackendRestart
  BY <1>10 DEF BackendRestart, Fault
<1>11. CASE RequestRollback \/ ArmRollback \/ ContextMoves
             \/ DiscoveryNotices \/ GuestLeaves \/ OperatorTouchesSnapshots
             \/ MutationCompletes
  BY <1>11 DEF RequestRollback, ArmRollback, Armable, ContextMoves,
     DiscoveryNotices, GuestLeaves, OperatorTouchesSnapshots,
     MutationCompletes
<1>12. CASE UNCHANGED vars
  BY <1>12 DEF vars
<1>13. QED
  BY <1>1, <1>2, <1>3, <1>4, <1>5, <1>6, <1>7, <1>8, <1>9, <1>10, <1>11,
     <1>12
  DEF Next, InvocationStep, HostStep, WorldStep

\* The initial states satisfy the invariant.
LEMMA InitIInv == Init => IInv
  BY DEF Init, IInv, TypeOK, LeaseInv, LaunchInv, RunInv, JobInv, AnswerInv,
     CallerInv, WriterInv

-----------------------------------------------------------------------------
(* The theorems.                                                           *)

\* IInv is an inductive invariant of health and rollback.
THEOREM Inductive == Spec => []IInv
<1>1. IInv /\ [Next]_vars => IInv'
  BY TypeStep, LeaseStep, LaunchStep, RunStep, JobStep, AnswerStep, CallerStep,
     WriterStep DEF IInv
<1>2. QED
  BY <1>1, InitIInv, PTL DEF Spec

\* The row only says what the host bears out: a job released on the strength
\* of a seal was never submitted and never will be, and the task it names is
\* the one the host journaled.
THEOREM RowTrue == Spec => []RowIsTrue
<1>1. IInv => BlockedIsSealed
  BY DEF IInv, TypeOK, RunInv, JobInv, BlockedIsSealed
<1>2. IInv => RecordedTaskStands
  BY DEF IInv, JobInv, RecordedTaskStands
<1>3. IInv => RowIsTrue
  BY <1>1, <1>2 DEF IInv, RowIsTrue
<1>4. QED
  BY <1>3, Inductive, PTL

\* The first verdict stands, and one that is under way when the rollback is
\* armed is dropped.
THEOREM VerdictStands == Spec => NoLateVerdict
<1>1. IInv /\ [Next]_vars => [VerdictStep]_vars
  <2> SUFFICES ASSUME IInv, Next PROVE VerdictStep
    OBVIOUS
  <2>1. ASSUME NEW w \in Invocations, CompleteHealth(w) PROVE VerdictStep
    BY <2>1 DEF IInv, TypeOK, JobInv, CompleteHealth, VerdictStep
  <2>2. ASSUME NEW w \in Invocations, BackendStep(w), ~CompleteHealth(w)
        PROVE  VerdictStep
    BY <2>2 DEF BackendStep, InvocationStep, StartCycle, StartHealth,
       ProveHealthContext, EvaluateHealth, BeginInspection, InspectionReturned,
       SubmitIfCurrent, SubmissionReturned, BeginSeal, SealReturned,
       FinishResult, PollReturned, ApplyResult, CompleteRollback, WriterBusy,
       CallTimeout, VerdictStep
  <2>3. CASE HostStep \/ WorldStep
    BY <2>3, HostEffect, WorldEffect DEF VerdictStep
  <2>4. CASE BackendRestart
    BY <2>4 DEF BackendRestart, VerdictStep
  <2>5. QED
    BY <2>1, <2>2, <2>3, <2>4 DEF Next, BackendStep, HostStep, WorldStep
<1>2. QED
  BY <1>1, Inductive, PTL DEF Spec, NoLateVerdict

\* A submission whose caller waits is journaled under that caller's writer
\* lock and over a context that is still current.
THEOREM SubmissionUnderContext == Spec => SubmitUnderCurrentContext
<1>1. IInv => SubmitStep
  BY DEF SubmitStep, IInv, TypeOK, LaunchInv, CallerInv, WriterInv
<1>2. QED
  BY <1>1, Inductive, PTL DEF SubmitUnderCurrentContext

-----------------------------------------------------------------------------
(* Refinement: the rollback is one host operation.                         *)

\* While PVE may still be asked, or works on the rollback, the job is armed.
LEMMA InFlightIsArmed ==
  ASSUME IInv, \/ phase = "submitted" /\ submissions = 0
               \/ pveTask = "running"
  PROVE  OperationStage = "armed"
<1>1. checkpoint = "rollback_may_have_started"
  BY DEF IInv, TypeOK, RunInv, JobInv
<1>2. status = "active"
  BY <1>1 DEF IInv, TypeOK, RunInv, JobInv
<1>3. QED
  BY <1>1, <1>2 DEF OperationStage

\* What a step may do to the row: go on before arming, arm, succeed without a
\* rollback, be released by the seal, or record the rollback.
RowStep ==
    \/ UNCHANGED <<status, checkpoint>>
    \/ /\ status = "active" /\ UNCHANGED status
       /\ checkpoint \in EligibleCheckpoints
       /\ checkpoint' \in EligibleCheckpoints \cup {"rollback_may_have_started"}
    \/ /\ status = "active" /\ status' = "succeeded"
       /\ checkpoint = "health_started" /\ checkpoint' = "health_completed"
    \/ /\ Armed /\ status' = "blocked" /\ UNCHANGED checkpoint
       /\ phase = "sealed_not_submitted"
    \/ /\ Armed /\ status' = "rolled_back" /\ pveTask = "ok"

\* A step of the backend does one of these things.
LEMMA BackendRow ==
  ASSUME IInv, NEW w \in Invocations, BackendStep(w) PROVE RowStep
<1> USE DEF RowStep
<1>1. CASE \/ StartCycle(w) \/ ProveHealthContext(w) \/ EvaluateHealth(w)
           \/ BeginInspection(w) \/ InspectionReturned(w)
           \/ SubmitIfCurrent(w) \/ SubmissionReturned(w) \/ BeginSeal(w)
           \/ FinishResult(w) \/ PollReturned(w) \/ ApplyResult(w)
           \/ WriterBusy(w) \/ CallTimeout(w)
  BY <1>1 DEF StartCycle, ProveHealthContext, EvaluateHealth, BeginInspection,
     InspectionReturned, SubmitIfCurrent, SubmissionReturned, BeginSeal,
     FinishResult, PollReturned, ApplyResult, WriterBusy, CallTimeout
<1>2. CASE StartHealth(w) \/ CompleteHealth(w)
  BY <1>2 DEF StartHealth, CompleteHealth
<1>3. CASE SealReturned(w)
  BY <1>3 DEF IInv, AnswerInv, WriterInv, SealReturned
<1>4. CASE CompleteRollback(w)
  BY <1>4 DEF IInv, AnswerInv, CallerInv, CompleteRollback
<1>5. QED
  BY <1>1, <1>2, <1>3, <1>4 DEF BackendStep, InvocationStep

\* So does every step outside the host and the backend.
LEMMA WorldRow == ASSUME WorldStep PROVE RowStep
  BY DEF RowStep, WorldStep, RequestRollback, ArmRollback, Armable,
     ContextMoves, DiscoveryNotices, GuestLeaves, OperatorTouchesSnapshots,
     MutationCompletes

\* A row step over an untouched host is a step of the abstract operation.
LEMMA RowRefines ==
  ASSUME IInv, IInv', RowStep, UNCHANGED <<journal, pve>>
  PROVE  [Operation!Next]_<<OperationStage, OperationEffect>>
<1>1. OperationEffect' = OperationEffect
  BY DEF OperationEffect
<1>2. CASE UNCHANGED <<status, checkpoint>>
  BY <1>1, <1>2 DEF OperationStage
<1>3. CASE /\ status = "active" /\ UNCHANGED status
           /\ checkpoint \in EligibleCheckpoints
           /\ checkpoint' \in EligibleCheckpoints \cup {"rollback_may_have_started"}
  <2>1. OperationStage = "open" /\ OperationStage' \in {"open", "armed"}
    BY <1>3 DEF OperationStage
  <2>2. QED
    BY <1>1, <2>1 DEF Operation!Next, Operation!Arm
<1>4. CASE /\ status = "active" /\ status' = "succeeded"
           /\ checkpoint = "health_started" /\ checkpoint' = "health_completed"
  <2>1. OperationStage = "open" /\ OperationStage' = "closed"
    BY <1>4 DEF OperationStage
  <2>2. OperationEffect = "none"
    BY <1>4 DEF IInv, RunInv, JobInv, OperationEffect
  <2>3. QED
    BY <1>1, <2>1, <2>2 DEF Operation!Next, Operation!Close
<1>5. CASE /\ Armed /\ status' = "blocked" /\ UNCHANGED checkpoint
           /\ phase = "sealed_not_submitted"
  <2>1. OperationStage = "armed" /\ OperationStage' = "closed"
    BY <1>5 DEF OperationStage
  <2>2. OperationEffect = "none"
    BY <1>5 DEF IInv, RunInv, OperationEffect
  <2>3. QED
    BY <1>1, <2>1, <2>2 DEF Operation!Next, Operation!Close
<1>6. CASE Armed /\ status' = "rolled_back" /\ pveTask = "ok"
  <2>1. OperationStage = "armed" /\ OperationStage' = "confirmed"
    BY <1>6 DEF OperationStage
  <2>2. OperationEffect = "achieved"
    BY <1>6 DEF IInv, TypeOK, RunInv, OperationEffect
  <2>3. QED
    BY <1>1, <2>1, <2>2 DEF Operation!Next, Operation!Conclude
<1>7. QED
  BY <1>2, <1>3, <1>4, <1>5, <1>6 DEF RowStep

\* What a step of the host may do to the rollback.
RollbackMoves ==
    \/ UNCHANGED pve
    \/ /\ submissions = 0 /\ submissions' = 1
       /\ phase = "submitted" /\ pveTask' = "running"
    \/ /\ UNCHANGED submissions
       /\ pveTask = "running" /\ pveTask' \in {"ok", "error", "lost"}

\* A step of the host moves the rollback task forward.
LEMMA HostRollback == ASSUME IInv, HostStep PROVE RollbackMoves
<1> USE DEF RollbackMoves
<1>1. ASSUME NEW c \in Calls,
             \/ HelperStep(c) \/ HelperDies(c) \/ ReadFails(c)
             \/ SubmitJournalFails(c)
      PROVE  RollbackMoves
  BY <1>1 DEF HelperStep, AcquireLease, InspectJournal, ResolveJournal,
     ReadTask, ReadListing, ReadFails, Seal, SubmitPreflight, SubmitPrepare,
     SubmitJournal, SubmitJournalFails, SubmitRelease, SubmitReadCapture,
     SubmitPromote, SubmitRewrite, Deliver, HelperDies
<1>2. CASE RunnerStep \/ RunnerLost
  BY <1>2 DEF IInv, RunInv, RunnerStep, RunnerStart, RunnerCapture, RunnerExit,
     RunnerLost
<1>3. CASE PveTaskStep \/ HostReboot
  BY <1>3 DEF PveTaskStep, HostReboot
<1>4. QED
  BY <1>1, <1>2, <1>3 DEF HostStep

\* A move of the rollback under an untouched row is a step of the abstract
\* operation.
LEMMA RollbackRefines ==
  ASSUME IInv, IInv', RollbackMoves, UNCHANGED jobRow
  PROVE  [Operation!Next]_<<OperationStage, OperationEffect>>
<1>1. OperationStage' = OperationStage
  BY DEF OperationStage
<1>2. CASE UNCHANGED pve
  BY <1>1, <1>2 DEF OperationEffect
<1>3. CASE /\ submissions = 0 /\ submissions' = 1
           /\ phase = "submitted" /\ pveTask' = "running"
  <2>1. OperationEffect = "none" /\ OperationEffect' = "started"
    BY <1>3 DEF OperationEffect
  <2>2. QED
    BY <1>1, <1>3, <2>1, InFlightIsArmed DEF Operation!Next, Operation!Start
<1>4. CASE /\ UNCHANGED submissions
           /\ pveTask = "running" /\ pveTask' \in {"ok", "error", "lost"}
  <2>1. submissions = 1
    BY <1>4 DEF IInv, TypeOK, RunInv
  <2>2. OperationEffect = "started" /\ OperationEffect' \in {"achieved", "failed"}
    BY <1>4, <2>1 DEF OperationEffect
  <2>3. QED
    BY <1>1, <1>4, <2>2, InFlightIsArmed DEF Operation!Next, Operation!Finish
<1>5. QED
  BY <1>2, <1>3, <1>4 DEF RollbackMoves

\* The rollback implements the abstract host operation, for every number of
\* invocations, helpers, faults and moves: armed before PVE is asked, asked
\* once, never for a job that succeeded or was released, and recorded only when
\* its one task ended well.
THEOREM RollbackImplements == Spec => ImplementsOperation
<1>1. Init => Operation!Init
  BY DEF Init, Operation!Init, OperationStage, OperationEffect
<1>2. ASSUME IInv, IInv', [Next]_vars
      PROVE  [Operation!Next]_<<OperationStage, OperationEffect>>
  <2>1. ASSUME NEW w \in Invocations, BackendStep(w)
        PROVE  [Operation!Next]_<<OperationStage, OperationEffect>>
    <3>1. UNCHANGED <<journal, pve>>
      BY <1>2, <2>1, BackendEffect DEF IInv
    <3>2. QED
      BY <1>2, <2>1, <3>1, BackendRow, RowRefines
  <2>2. CASE HostStep
    BY <1>2, <2>2, HostEffect, HostRollback, RollbackRefines
  <2>3. CASE WorldStep
    <3>1. UNCHANGED <<journal, pve>>
      BY <2>3, WorldEffect
    <3>2. QED
      BY <1>2, <2>3, <3>1, WorldRow, RowRefines
  <2>4. CASE BackendRestart \/ UNCHANGED vars
    BY <2>4 DEF BackendRestart, vars, OperationStage, OperationEffect
  <2>5. QED
    BY <1>2, <2>1, <2>2, <2>3, <2>4 DEF Next, BackendStep, HostStep, WorldStep
<1>3. QED
  BY <1>1, <1>2, Inductive, PTL
  DEF Spec, ImplementsOperation, Operation!Spec
=============================================================================
