------------------------ MODULE SnapshotStageProofs ------------------------
(***************************************************************************)
(* Safety of the snapshot stage for every number of invocations, helper    *)
(* processes and faults.                                                   *)
(***************************************************************************)
EXTENDS SnapshotStage, TLAPS

\* The steps of a helper that holds the lease itself.
ListingSteps == {"listing_absent", "listing_incomplete", "listing_present"}
LeaseSteps   == {"leased", "list", "preflight"} \cup ListingSteps

\* The lease has one holder, inside its critical section; a runner that exists
\* holds it.
LeaseInv ==
    /\ \A c \in Calls : step[c] \in LeaseSteps <=> lease = c
    /\ lease = Runner <=> runner # "none"

\* How far a launch has come, and what a listing said, against the journal.
LaunchInv ==
    /\ \A c \in Calls : step[c] = "preflight" => phase = "intent"
    /\ \A c \in Calls : step[c] = "prepared" => runner = "ready" /\ phase = "intent"
    /\ \A c \in Calls : step[c] = "journaled" => runner = "ready" /\ phase = "submitted"
    /\ \A c, d \in Calls : /\ step[c] \in {"prepared", "journaled"}
                           /\ step[d] \in {"prepared", "journaled"}
                           => c = d
    /\ \A c \in Calls : step[c] = "promote" =>
          /\ found[c] # NoTask
          /\ \/ phase = "submitted" /\ capture = found[c]
             \/ phase = "task_known" /\ jtask = found[c]
    /\ \A c \in Calls : step[c] \in ListingSteps => phase = "task_known"
    /\ \A c \in Calls : step[c] = "listing_present" => snapshot = "present"
    /\ \A c \in Calls : step[c] = "listing_absent" /\ pveTask = "error"
                           => snapshot # "present"

\* The journal's phase, the runner and the capture against what PVE was asked.
RunInv ==
    /\ submissions <= 1
    /\ submissions = 0 => snapshot = "absent" /\ pveTask = "none"
    /\ submissions = 1 => pveTask # "none"
    /\ pveTask = "ok" => snapshot = "present"
    /\ phase \in SubmissionPermitted \cup {"sealed_not_submitted"}
          => submissions = 0 /\ runner \in {"none", "ready", "abandoned"}
    /\ runner \in {"ready", "abandoned", "released"} => submissions = 0
    /\ runner \in {"released", "running"} => phase = "submitted" /\ capture = NoTask
    /\ runner \in {"ready", "abandoned"} => phase \in {"intent", "submitted"}
    /\ runner = "running" => submissions = 1
    /\ capture \in {NoTask, submissions}
    /\ capture # NoTask => phase = "submitted"
    /\ jtask \in {NoTask, submissions}
    /\ jtask # NoTask <=> phase = "task_known"
    /\ phase = "terminal" => snapshot = "present"

\* Before arming nothing was asked of the host; afterwards the row says of the
\* snapshot what the host bears out.
JobInv ==
    /\ checkpoint \in {"issued", "preflight_passed"} =>
          /\ phase = "absent"
          /\ \A c \in Calls : step[c] = "free"
          /\ \A w \in Invocations : pc[w] \in {"idle", "preflight", "intent"}
    /\ checkpoint = "snapshot_confirmed" => snapshot = "present"
    /\ release = "none" <=> status = "active"
    /\ release = "restart" <=> status = "interrupted"
    /\ status = "blocked" => checkpoint = "snapshot_may_have_started"
    /\ status = "interrupted" => checkpoint # "snapshot_may_have_started"
    /\ release = "sealed" => phase = "sealed_not_submitted"
    /\ release = "failed" => pveTask = "error" /\ snapshot # "present"
    /\ release = "retained" => snapshot = "present"
    /\ task # NoTask => phase = "task_known" /\ jtask = task

\* Answers under way, and the replies they became, stay true until used.
AnswerInv ==
    /\ \A c \in Calls :
          /\ answer[c] = "sealed" => phase = "sealed_not_submitted"
          /\ answer[c] = "failed" => pveTask = "error" /\ snapshot # "present"
          /\ answer[c] = "completed" => snapshot = "present"
          /\ found[c] # NoTask /\ step[c] # "promote"
                => phase = "task_known" /\ jtask = found[c]
    /\ \A w \in Invocations :
          /\ reply[w] = "sealed" => phase = "sealed_not_submitted"
          /\ reply[w] = "failed" => pveTask = "error" /\ snapshot # "present"
          /\ reply[w] = "completed" => snapshot = "present"
          /\ upid[w] # NoTask => phase = "task_known" /\ jtask = upid[w]

\* A call that still has a caller is the one call its invocation waits for; an
\* invocation that goes on with a result keeps the reply it rests on.
CallerInv ==
    /\ \A c \in Calls : caller[c] # None =>
          /\ pc[caller[c]] \in WaitingPcs
          /\ reply[caller[c]] = None
    /\ \A c, d \in Calls : caller[c] = caller[d] /\ c # d => caller[c] = None
    /\ \A c \in Calls : step[c] = "free" => caller[c] = None
    /\ \A w \in Invocations :
          /\ pc[w] = "fail" => reply[w] = "failed"
          /\ pc[w] \in {"confirm", "retain", "reconfirm"} => reply[w] = "completed"

\* The writer lock spans the host call made under it, and the job stays armed.
WriterInv ==
    /\ \A w \in Invocations : pc[w] \in {"submitting", "sealing"} <=> writer = w
    /\ \A w \in Invocations : pc[w] \in {"submitting", "sealing"} => Armed

\* The inductive invariant.
IInv == /\ TypeOK /\ LeaseInv /\ LaunchInv /\ RunInv /\ JobInv /\ AnswerInv
        /\ CallerInv /\ WriterInv

-----------------------------------------------------------------------------
(* The inductive step, one lemma per part of the invariant.                *)

\* The steps of the backend, and those of the host.
BackendStep(w) == InvocationStep(w) \/ WriterBusy(w) \/ CallTimeout(w)

\* The steps of the host, which change journal and task.
HostStep ==
    \/ \E c \in Calls : \/ HelperStep(c) \/ HelperDies(c)
                        \/ InspectReadFails(c) \/ SubmitJournalFails(c)
    \/ RunnerStep \/ PveTaskStep \/ RunnerLost \/ HostReboot

USE SnapshotAssumption
  DEF jobRow, inv, calls, journal, pve, host, Active, Armed, Statuses,
      Checkpoints, Releases, AuthorityStates, Phases, SubmissionPermitted,
      NoTask, Replies, Ops, WaitingPcs, TxnPcs, Pcs, HelperSteps, RunnerStates,
      ListingSteps, LeaseSteps

\* A backend step reaches the host only by starting a helper in a free slot,
\* and only forgets replies.
LEMMA BackendEffect ==
  ASSUME TypeOK, NEW w \in Invocations, BackendStep(w)
  PROVE  /\ UNCHANGED <<host, answer, found>>
         /\ \A c \in Calls : \/ step'[c] = step[c]
                             \/ step[c] = "free" /\ step'[c] = "sent"
         /\ \A v \in Invocations : reply'[v] \in {reply[v], None, "error"}
         /\ \A v \in Invocations : upid'[v] \in {upid[v], NoTask}
<1>1. CASE StartCycle(w) \/ RecordPreflight(w) \/ RecordIntent(w)
  BY <1>1 DEF TypeOK, StartCycle, Goto, Continue, SeedProof, Same,
     RecordPreflight, Stop, RecordIntent
<1>2. CASE BeginInspection(w) \/ InspectionReturned(w)
  BY <1>2 DEF TypeOK, BeginInspection, Send, Goto, Continue, Same,
     InspectionReturned, Keep
<1>3. CASE SubmitIfCurrent(w) \/ SubmissionReturned(w)
  BY <1>3 DEF TypeOK, SubmitIfCurrent, Send, Goto, Stop, Continue, Same,
     SubmissionReturned, Keep
<1>4. CASE BeginSeal(w) \/ SealReturned(w)
  BY <1>4 DEF TypeOK, BeginSeal, Send, Goto, Stop, Continue, SealReturned,
     Keep, Same
<1>5. CASE FinishResult(w) \/ PollReturned(w)
  BY <1>5 DEF TypeOK, FinishResult, PersistConflict, TaskRecordable,
     PersistKnownTask, UpdateProof, Stop, Send, Goto, Keep, Continue,
     PollReturned
<1>6. CASE ApplyResult(w)
  BY <1>6 DEF TypeOK, ApplyResult, PersistConflict, TaskRecordable,
     PersistKnownTask, Goto, Keep, Stop, Continue, Same
<1>7. CASE FailSnapshot(w) \/ ConfirmSnapshot(w) \/ RetainSnapshot(w)
  BY <1>7 DEF TypeOK, FailSnapshot, Stop, Goto, Continue, ConfirmSnapshot,
     MayConfirm, Keep, Same, RetainSnapshot
<1>8. CASE WriterBusy(w) \/ CallTimeout(w)
  BY <1>8 DEF TypeOK, WriterBusy, Fault, Stop, Goto, Continue, CallTimeout
<1>9. QED
  BY <1>1, <1>2, <1>3, <1>4, <1>5, <1>6, <1>7, <1>8
  DEF BackendStep, InvocationStep

\* A host step leaves the store and the invocations' control alone.
LEMMA HostEffect ==
  ASSUME HostStep
  PROVE  UNCHANGED <<jobRow, authority, writer, pc, proven, sealTried>>
<1>1. ASSUME NEW c \in Calls,
             \/ HelperStep(c) \/ HelperDies(c) \/ InspectReadFails(c)
             \/ SubmitJournalFails(c)
      PROVE  UNCHANGED <<jobRow, authority, writer, pc, proven, sealTried>>
  BY <1>1 DEF HelperStep, AcquireLease, InspectJournal, InspectListing,
     InspectReadFails, InspectTask, Seal, SubmitIntent, SubmitReplay,
     SubmitPreflight, SubmitJournal, SubmitJournalFails, SubmitRelease,
     SubmitReadCapture, SubmitPromote, Deliver, HelperDies
<1>2. CASE RunnerStep \/ PveTaskStep \/ RunnerLost \/ HostReboot
  BY <1>2 DEF RunnerStep, RunnerStart, RunnerCapture, RunnerExit, PveTaskStep,
     RunnerLost, HostReboot
<1>3. QED
  BY <1>1, <1>2 DEF HostStep

\* Every step keeps the variables within their types.
LEMMA TypeStep == TypeOK /\ [Next]_vars => TypeOK'
<1> SUFFICES ASSUME TypeOK, [Next]_vars PROVE TypeOK'
  OBVIOUS
<1> USE DEF TypeOK
<1>1. ASSUME NEW w \in Invocations,
            StartCycle(w) \/ RecordPreflight(w) \/ RecordIntent(w)
      PROVE TypeOK'
  BY <1>1 DEF StartCycle, Goto, Continue, SeedProof, Same, RecordPreflight,
     Stop, RecordIntent
<1>2. ASSUME NEW w \in Invocations,
            BeginInspection(w) \/ InspectionReturned(w)
      PROVE TypeOK'
  BY <1>2 DEF BeginInspection, Send, Goto, Continue, Same,
     InspectionReturned, Keep
<1>3. ASSUME NEW w \in Invocations,
            SubmitIfCurrent(w) \/ SubmissionReturned(w)
      PROVE TypeOK'
  BY <1>3 DEF SubmitIfCurrent, Send, Goto, Stop, Continue, Same,
     SubmissionReturned, Keep
<1>4. ASSUME NEW w \in Invocations,
            BeginSeal(w) \/ SealReturned(w)
      PROVE TypeOK'
  BY <1>4 DEF BeginSeal, Send, Goto, Stop, Continue, SealReturned, Keep,
     Same
<1>5. ASSUME NEW w \in Invocations,
            FinishResult(w) \/ PollReturned(w)
      PROVE TypeOK'
  BY <1>5 DEF FinishResult, PersistConflict, TaskRecordable,
     PersistKnownTask, UpdateProof, Stop, Send, Goto, Keep, Continue,
     PollReturned
<1>6. ASSUME NEW w \in Invocations, ApplyResult(w) PROVE TypeOK'
  BY <1>6 DEF ApplyResult, PersistConflict, TaskRecordable, PersistKnownTask,
     Goto, Keep, Stop, Continue, Same
<1>7. ASSUME NEW w \in Invocations,
            FailSnapshot(w) \/ ConfirmSnapshot(w) \/ RetainSnapshot(w)
      PROVE TypeOK'
  BY <1>7 DEF FailSnapshot, Stop, Goto, Continue, ConfirmSnapshot,
     MayConfirm, Keep, Same, RetainSnapshot
<1>8. ASSUME NEW w \in Invocations,
            WriterBusy(w) \/ CallTimeout(w)
      PROVE TypeOK'
  BY <1>8 DEF WriterBusy, Fault, Stop, Goto, Continue, CallTimeout
<1>9. ASSUME NEW c \in Calls, AcquireLease(c) PROVE TypeOK'
  BY <1>9 DEF AcquireLease, Advance, Finish
<1>10. ASSUME NEW c \in Calls, InspectJournal(c) PROVE TypeOK'
  BY <1>10 DEF InspectJournal, Advance, Finish, Promotable, Promote
<1>11. ASSUME NEW c \in Calls,
            InspectListing(c) \/ InspectReadFails(c)
      PROVE TypeOK'
  BY <1>11 DEF InspectListing, Advance, Finish, Listed, TasklessCompletion,
     InspectReadFails
<1>12. ASSUME NEW c \in Calls, InspectTask(c) PROVE TypeOK'
  BY <1>12 DEF InspectTask, Finish
<1>13. ASSUME NEW c \in Calls, Seal(c) PROVE TypeOK'
  BY <1>13 DEF Seal, Finish
<1>14. ASSUME NEW c \in Calls, SubmitIntent(c) PROVE TypeOK'
  BY <1>14 DEF SubmitIntent, Advance
<1>15. ASSUME NEW c \in Calls, SubmitReplay(c) PROVE TypeOK'
  BY <1>15 DEF SubmitReplay, Finish, Promotable, Promote, TasklessCompletion
<1>16. ASSUME NEW c \in Calls, SubmitPreflight(c) PROVE TypeOK'
  BY <1>16 DEF SubmitPreflight, Advance, Finish
<1>17. ASSUME NEW c \in Calls,
            SubmitJournal(c) \/ SubmitJournalFails(c)
      PROVE TypeOK'
  BY <1>17 DEF SubmitJournal, Advance, SubmitJournalFails, Finish
<1>18. ASSUME NEW c \in Calls,
            SubmitRelease(c) \/ SubmitReadCapture(c)
      PROVE TypeOK'
  BY <1>18 DEF SubmitRelease, Advance, SubmitReadCapture, Finish
<1>19. ASSUME NEW c \in Calls, SubmitPromote(c) PROVE TypeOK'
  BY <1>19 DEF SubmitPromote, Finish
<1>20. ASSUME NEW c \in Calls, Deliver(c) PROVE TypeOK'
  BY <1>20 DEF Deliver
<1>21. ASSUME NEW c \in Calls, HelperDies(c) PROVE TypeOK'
  BY <1>21 DEF HelperDies, Fault, Finish
<1>22. CASE RunnerStart \/ RunnerCapture \/ RunnerExit \/ RunnerLost
  BY <1>22 DEF RunnerStart, RunnerCapture, RunnerExit, RunnerLost, Fault
<1>23. CASE PveTaskStep
  BY <1>23 DEF PveTaskStep
<1>24. CASE HostReboot
  BY <1>24 DEF HostReboot, Fault
<1>25. CASE BackendRestart \/ AuthorityMoves
  BY <1>25 DEF BackendRestart, Fault, AuthorityMoves
<1>26. CASE UNCHANGED vars
  BY <1>26 DEF vars
<1>27. QED
  BY <1>1, <1>2, <1>3, <1>4, <1>5, <1>6, <1>7, <1>8, <1>9, <1>10, <1>11,
     <1>12, <1>13, <1>14, <1>15, <1>16, <1>17, <1>18, <1>19, <1>20, <1>21,
     <1>22, <1>23, <1>24, <1>25, <1>26
  DEF Next, InvocationStep, HelperStep, RunnerStep

\* The lease keeps one holder.
LEMMA LeaseStep == IInv /\ [Next]_vars => LeaseInv'
<1> SUFFICES ASSUME IInv, [Next]_vars PROVE LeaseInv'
  OBVIOUS
<1> USE DEF IInv, TypeOK, LeaseInv, LaunchInv, RunInv
<1>1. ASSUME NEW w \in Invocations, BackendStep(w) PROVE LeaseInv'
  BY <1>1, BackendEffect
<1>2. ASSUME NEW c \in Calls, AcquireLease(c) PROVE LeaseInv'
  BY <1>2 DEF AcquireLease, Advance, Finish
<1>3. ASSUME NEW c \in Calls, InspectJournal(c) PROVE LeaseInv'
  BY <1>3 DEF InspectJournal, Advance, Finish, Promotable, Promote
<1>4. ASSUME NEW c \in Calls,
            InspectListing(c) \/ InspectReadFails(c)
      PROVE LeaseInv'
  BY <1>4 DEF InspectListing, Advance, Finish, Listed, TasklessCompletion,
     InspectReadFails
<1>5. ASSUME NEW c \in Calls, InspectTask(c) PROVE LeaseInv'
  BY <1>5 DEF InspectTask, Finish
<1>6. ASSUME NEW c \in Calls, Seal(c) PROVE LeaseInv'
  BY <1>6 DEF Seal, Finish
<1>7. ASSUME NEW c \in Calls, SubmitIntent(c) PROVE LeaseInv'
  BY <1>7 DEF SubmitIntent, Advance
<1>8. ASSUME NEW c \in Calls, SubmitReplay(c) PROVE LeaseInv'
  BY <1>8 DEF SubmitReplay, Finish, Promotable, Promote, TasklessCompletion
<1>9. ASSUME NEW c \in Calls, SubmitPreflight(c) PROVE LeaseInv'
  BY <1>9 DEF SubmitPreflight, Advance, Finish
<1>10. ASSUME NEW c \in Calls,
            SubmitJournal(c) \/ SubmitJournalFails(c)
      PROVE LeaseInv'
  BY <1>10 DEF SubmitJournal, Advance, SubmitJournalFails, Finish
<1>11. ASSUME NEW c \in Calls,
            SubmitRelease(c) \/ SubmitReadCapture(c)
      PROVE LeaseInv'
  BY <1>11 DEF SubmitRelease, Advance, SubmitReadCapture, Finish
<1>12. ASSUME NEW c \in Calls, SubmitPromote(c) PROVE LeaseInv'
  BY <1>12 DEF SubmitPromote, Finish
<1>13. ASSUME NEW c \in Calls, Deliver(c) PROVE LeaseInv'
  BY <1>13 DEF Deliver
<1>14. ASSUME NEW c \in Calls, HelperDies(c) PROVE LeaseInv'
  BY <1>14 DEF HelperDies, Fault, Finish
<1>15. CASE RunnerStart \/ RunnerCapture \/ RunnerExit \/ RunnerLost
  BY <1>15 DEF RunnerStart, RunnerCapture, RunnerExit, RunnerLost, Fault
<1>16. CASE PveTaskStep
  BY <1>16 DEF PveTaskStep
<1>17. CASE HostReboot
  BY <1>17 DEF HostReboot, Fault
<1>18. CASE BackendRestart \/ AuthorityMoves
  BY <1>18 DEF BackendRestart, Fault, AuthorityMoves
<1>19. CASE UNCHANGED vars
  BY <1>19 DEF vars
<1>20. QED
  BY <1>1, <1>2, <1>3, <1>4, <1>5, <1>6, <1>7, <1>8, <1>9, <1>10, <1>11,
     <1>12, <1>13, <1>14, <1>15, <1>16, <1>17, <1>18, <1>19
  DEF Next, BackendStep, HelperStep, RunnerStep

\* A launch keeps pace with the journal, and a listing with PVE.
LEMMA LaunchStep == IInv /\ [Next]_vars => LaunchInv'
<1> SUFFICES ASSUME IInv, [Next]_vars PROVE LaunchInv'
  OBVIOUS
<1> USE DEF IInv, TypeOK, LeaseInv, LaunchInv, RunInv, AnswerInv
<1>1. ASSUME NEW w \in Invocations, BackendStep(w) PROVE LaunchInv'
  BY <1>1, BackendEffect
<1>2. ASSUME NEW c \in Calls, AcquireLease(c) PROVE LaunchInv'
  BY <1>2 DEF AcquireLease, Advance, Finish
<1>3. ASSUME NEW c \in Calls, InspectJournal(c) PROVE LaunchInv'
  BY <1>3 DEF InspectJournal, Advance, Finish, Promotable, Promote
<1>4. ASSUME NEW c \in Calls,
            InspectListing(c) \/ InspectReadFails(c)
      PROVE LaunchInv'
  BY <1>4 DEF InspectListing, Advance, Finish, Listed, TasklessCompletion,
     InspectReadFails
<1>5. ASSUME NEW c \in Calls, InspectTask(c) PROVE LaunchInv'
  BY <1>5 DEF InspectTask, Finish
<1>6. ASSUME NEW c \in Calls, Seal(c) PROVE LaunchInv'
  BY <1>6 DEF Seal, Finish
<1>7. ASSUME NEW c \in Calls, SubmitIntent(c) PROVE LaunchInv'
  BY <1>7 DEF SubmitIntent, Advance
<1>8. ASSUME NEW c \in Calls, SubmitReplay(c) PROVE LaunchInv'
  BY <1>8 DEF SubmitReplay, Finish, Promotable, Promote, TasklessCompletion
<1>9. ASSUME NEW c \in Calls, SubmitPreflight(c) PROVE LaunchInv'
  BY <1>9 DEF SubmitPreflight, Advance, Finish
<1>10. ASSUME NEW c \in Calls,
            SubmitJournal(c) \/ SubmitJournalFails(c)
      PROVE LaunchInv'
  BY <1>10 DEF SubmitJournal, Advance, SubmitJournalFails, Finish
<1>11. ASSUME NEW c \in Calls,
            SubmitRelease(c) \/ SubmitReadCapture(c)
      PROVE LaunchInv'
  BY <1>11 DEF SubmitRelease, Advance, SubmitReadCapture, Finish
<1>12. ASSUME NEW c \in Calls, SubmitPromote(c) PROVE LaunchInv'
  BY <1>12 DEF SubmitPromote, Finish
<1>13. ASSUME NEW c \in Calls, Deliver(c) PROVE LaunchInv'
  BY <1>13 DEF Deliver
<1>14. ASSUME NEW c \in Calls, HelperDies(c) PROVE LaunchInv'
  BY <1>14 DEF HelperDies, Fault, Finish
<1>15. CASE RunnerStart \/ RunnerCapture \/ RunnerExit \/ RunnerLost
  BY <1>15 DEF RunnerStart, RunnerCapture, RunnerExit, RunnerLost, Fault
<1>16. CASE PveTaskStep
  BY <1>16 DEF PveTaskStep
<1>17. CASE HostReboot
  BY <1>17 DEF HostReboot, Fault
<1>18. CASE BackendRestart \/ AuthorityMoves
  BY <1>18 DEF BackendRestart, Fault, AuthorityMoves
<1>19. CASE UNCHANGED vars
  BY <1>19 DEF vars
<1>20. QED
  BY <1>1, <1>2, <1>3, <1>4, <1>5, <1>6, <1>7, <1>8, <1>9, <1>10, <1>11,
     <1>12, <1>13, <1>14, <1>15, <1>16, <1>17, <1>18, <1>19
  DEF Next, BackendStep, HelperStep, RunnerStep

\* What PVE was asked follows the journal's phase.
LEMMA RunStep == IInv /\ [Next]_vars => RunInv'
<1> SUFFICES ASSUME IInv, [Next]_vars PROVE RunInv'
  OBVIOUS
<1> USE DEF IInv, TypeOK, LeaseInv, LaunchInv, RunInv
<1>1. ASSUME NEW w \in Invocations, BackendStep(w) PROVE RunInv'
  BY <1>1, BackendEffect
<1>2. ASSUME NEW c \in Calls, AcquireLease(c) PROVE RunInv'
  BY <1>2 DEF AcquireLease, Advance, Finish
<1>3. ASSUME NEW c \in Calls, InspectJournal(c) PROVE RunInv'
  BY <1>3 DEF InspectJournal, Advance, Finish, Promotable, Promote
<1>4. ASSUME NEW c \in Calls,
            InspectListing(c) \/ InspectReadFails(c)
      PROVE RunInv'
  BY <1>4 DEF InspectListing, Advance, Finish, Listed, TasklessCompletion,
     InspectReadFails
<1>5. ASSUME NEW c \in Calls, InspectTask(c) PROVE RunInv'
  BY <1>5 DEF InspectTask, Finish
<1>6. ASSUME NEW c \in Calls, Seal(c) PROVE RunInv'
  BY <1>6 DEF Seal, Finish
<1>7. ASSUME NEW c \in Calls, SubmitIntent(c) PROVE RunInv'
  BY <1>7 DEF SubmitIntent, Advance
<1>8. ASSUME NEW c \in Calls, SubmitReplay(c) PROVE RunInv'
  BY <1>8 DEF SubmitReplay, Finish, Promotable, Promote, TasklessCompletion
<1>9. ASSUME NEW c \in Calls, SubmitPreflight(c) PROVE RunInv'
  BY <1>9 DEF SubmitPreflight, Advance, Finish
<1>10. ASSUME NEW c \in Calls,
            SubmitJournal(c) \/ SubmitJournalFails(c)
      PROVE RunInv'
  BY <1>10 DEF SubmitJournal, Advance, SubmitJournalFails, Finish
<1>11. ASSUME NEW c \in Calls,
            SubmitRelease(c) \/ SubmitReadCapture(c)
      PROVE RunInv'
  BY <1>11 DEF SubmitRelease, Advance, SubmitReadCapture, Finish
<1>12. ASSUME NEW c \in Calls, SubmitPromote(c) PROVE RunInv'
  BY <1>12 DEF SubmitPromote, Finish
<1>13. ASSUME NEW c \in Calls, Deliver(c) PROVE RunInv'
  BY <1>13 DEF Deliver
<1>14. ASSUME NEW c \in Calls, HelperDies(c) PROVE RunInv'
  BY <1>14 DEF HelperDies, Fault, Finish
<1>15. CASE RunnerStart \/ RunnerCapture \/ RunnerExit \/ RunnerLost
  BY <1>15 DEF RunnerStart, RunnerCapture, RunnerExit, RunnerLost, Fault
<1>16. CASE PveTaskStep
  BY <1>16 DEF PveTaskStep
<1>17. CASE HostReboot
  BY <1>17 DEF HostReboot, Fault
<1>18. CASE BackendRestart \/ AuthorityMoves
  BY <1>18 DEF BackendRestart, Fault, AuthorityMoves
<1>19. CASE UNCHANGED vars
  BY <1>19 DEF vars
<1>20. QED
  BY <1>1, <1>2, <1>3, <1>4, <1>5, <1>6, <1>7, <1>8, <1>9, <1>10, <1>11,
     <1>12, <1>13, <1>14, <1>15, <1>16, <1>17, <1>18, <1>19
  DEF Next, BackendStep, HelperStep, RunnerStep

\* What the host has reached for good: a seal, a task identity, a snapshot
\* that stands, a task that failed.
LEMMA HostFactsStand ==
  ASSUME IInv, HostStep
  PROVE  /\ phase = "sealed_not_submitted" => phase' = "sealed_not_submitted"
         /\ phase = "task_known" => phase' = "task_known" /\ jtask' = jtask
         /\ snapshot = "present" => snapshot' = "present"
         /\ pveTask = "error" /\ snapshot # "present"
              => pveTask' = "error" /\ snapshot' # "present"
<1> USE DEF IInv, TypeOK, LeaseInv, LaunchInv, RunInv
<1>1. ASSUME NEW c \in Calls,
             AcquireLease(c) \/ InspectJournal(c) \/ InspectListing(c)
             \/ InspectReadFails(c) \/ InspectTask(c) \/ Deliver(c)
             \/ HelperDies(c)
      PROVE  /\ phase = "sealed_not_submitted" => phase' = "sealed_not_submitted"
             /\ phase = "task_known" => phase' = "task_known" /\ jtask' = jtask
             /\ UNCHANGED <<snapshot, pveTask>>
  BY <1>1 DEF AcquireLease, InspectJournal, Promotable, Promote,
     InspectListing, InspectReadFails, InspectTask, Deliver, HelperDies
<1>2. ASSUME NEW c \in Calls,
             Seal(c) \/ SubmitIntent(c) \/ SubmitReplay(c)
             \/ SubmitPreflight(c)
      PROVE  /\ phase = "sealed_not_submitted" => phase' = "sealed_not_submitted"
             /\ phase = "task_known" => phase' = "task_known" /\ jtask' = jtask
             /\ UNCHANGED <<snapshot, pveTask>>
  BY <1>2 DEF Seal, SubmitIntent, SubmitReplay, Promotable, Promote,
     SubmitPreflight
<1>3. ASSUME NEW c \in Calls,
             SubmitJournal(c) \/ SubmitJournalFails(c) \/ SubmitRelease(c)
             \/ SubmitReadCapture(c) \/ SubmitPromote(c)
      PROVE  /\ phase = "sealed_not_submitted" => phase' = "sealed_not_submitted"
             /\ phase = "task_known" => phase' = "task_known" /\ jtask' = jtask
             /\ UNCHANGED <<snapshot, pveTask>>
  BY <1>3 DEF SubmitJournal, SubmitJournalFails, SubmitRelease,
     SubmitReadCapture, SubmitPromote
<1>4. CASE RunnerStep \/ PveTaskStep \/ RunnerLost \/ HostReboot
  BY <1>4 DEF RunnerStep, RunnerStart, RunnerCapture, RunnerExit, PveTaskStep,
     RunnerLost, HostReboot
<1>5. QED
  BY <1>1, <1>2, <1>3, <1>4 DEF HostStep, HelperStep

\* The job row stays justified by what the host has reached.
LEMMA JobStep == IInv /\ [Next]_vars => JobInv'
<1> SUFFICES ASSUME IInv, [Next]_vars PROVE JobInv'
  OBVIOUS
<1> USE DEF IInv, TypeOK, RunInv, JobInv, AnswerInv, CallerInv, WriterInv
<1>1. ASSUME NEW w \in Invocations,
            StartCycle(w) \/ RecordPreflight(w) \/ RecordIntent(w)
      PROVE JobInv'
  BY <1>1 DEF StartCycle, Goto, Continue, SeedProof, Same, RecordPreflight,
     Stop, RecordIntent
<1>2. ASSUME NEW w \in Invocations,
            BeginInspection(w) \/ InspectionReturned(w)
      PROVE JobInv'
  BY <1>2 DEF BeginInspection, Send, Goto, Continue, Same,
     InspectionReturned, Keep
<1>3. ASSUME NEW w \in Invocations,
            SubmitIfCurrent(w) \/ SubmissionReturned(w)
      PROVE JobInv'
  BY <1>3 DEF SubmitIfCurrent, Send, Goto, Stop, Continue, Same,
     SubmissionReturned, Keep
<1>4. ASSUME NEW w \in Invocations,
            BeginSeal(w) \/ SealReturned(w)
      PROVE JobInv'
  BY <1>4 DEF BeginSeal, Send, Goto, Stop, Continue, SealReturned, Keep,
     Same
<1>5. ASSUME NEW w \in Invocations,
            FinishResult(w) \/ PollReturned(w)
      PROVE JobInv'
  BY <1>5 DEF FinishResult, PersistConflict, TaskRecordable,
     PersistKnownTask, UpdateProof, Stop, Send, Goto, Keep, Continue,
     PollReturned
<1>6. ASSUME NEW w \in Invocations, ApplyResult(w) PROVE JobInv'
  BY <1>6 DEF ApplyResult, PersistConflict, TaskRecordable, PersistKnownTask,
     Goto, Keep, Stop, Continue, Same
<1>7. ASSUME NEW w \in Invocations,
            FailSnapshot(w) \/ ConfirmSnapshot(w) \/ RetainSnapshot(w)
      PROVE JobInv'
  BY <1>7 DEF FailSnapshot, Stop, Goto, Continue, ConfirmSnapshot,
     MayConfirm, Keep, Same, RetainSnapshot
<1>8. ASSUME NEW w \in Invocations,
            WriterBusy(w) \/ CallTimeout(w)
      PROVE JobInv'
  BY <1>8 DEF WriterBusy, Fault, Stop, Goto, Continue, CallTimeout
<1>9. CASE HostStep
  <2>1. checkpoint \in {"issued", "preflight_passed"}
           => phase' = "absent" /\ \A c \in Calls : step'[c] = "free"
    <3> SUFFICES ASSUME checkpoint \in {"issued", "preflight_passed"}
                 PROVE  phase' = "absent" /\ \A c \in Calls : step'[c] = "free"
      OBVIOUS
    <3>1. phase = "absent" /\ runner = "none" /\ pveTask # "running"
      BY DEF IInv, TypeOK, JobInv, RunInv
    <3>2. \A c \in Calls : step[c] = "free"
      BY DEF IInv, JobInv
    <3>3. ~\E c \in Calls : \/ HelperStep(c) \/ HelperDies(c)
                           \/ InspectReadFails(c) \/ SubmitJournalFails(c)
      BY <3>2 DEF HelperStep, AcquireLease, InspectJournal, InspectListing,
         InspectReadFails, InspectTask, Seal, SubmitIntent, SubmitReplay,
         SubmitPreflight, SubmitJournal, SubmitJournalFails, SubmitRelease,
         SubmitReadCapture, SubmitPromote, Deliver, HelperDies
    <3>4. CASE RunnerStep \/ PveTaskStep \/ RunnerLost
      BY <3>1, <3>4 DEF RunnerStep, RunnerStart, RunnerCapture, RunnerExit,
         PveTaskStep, RunnerLost
    <3>5. CASE HostReboot
      BY <3>1, <3>2, <3>5 DEF HostReboot
    <3>6. QED
      BY <1>9, <3>3, <3>4, <3>5 DEF HostStep
  <2>2. QED
    BY <1>9, <2>1, HostEffect, HostFactsStand DEF IInv, TypeOK, JobInv
<1>10. CASE BackendRestart \/ AuthorityMoves
  BY <1>10 DEF BackendRestart, Fault, AuthorityMoves
<1>11. CASE UNCHANGED vars
  BY <1>11 DEF vars
<1>12. QED
  BY <1>1, <1>2, <1>3, <1>4, <1>5, <1>6, <1>7, <1>8, <1>9, <1>10, <1>11
  DEF Next, InvocationStep, HostStep

\* An answer about what stands is still true when it is used.
LEMMA AnswerStep == IInv /\ [Next]_vars => AnswerInv'
<1> SUFFICES ASSUME IInv, [Next]_vars PROVE AnswerInv'
  OBVIOUS
<1> USE DEF IInv, TypeOK, LeaseInv, LaunchInv, RunInv, AnswerInv
<1>1. ASSUME NEW w \in Invocations, BackendStep(w) PROVE AnswerInv'
  BY <1>1, BackendEffect
<1>2. ASSUME NEW c \in Calls, AcquireLease(c) PROVE AnswerInv'
  BY <1>2 DEF AcquireLease, Advance, Finish
<1>3. ASSUME NEW c \in Calls, InspectJournal(c) PROVE AnswerInv'
  BY <1>3 DEF InspectJournal, Advance, Finish, Promotable, Promote
<1>4. ASSUME NEW c \in Calls,
            InspectListing(c) \/ InspectReadFails(c)
      PROVE AnswerInv'
  BY <1>4 DEF InspectListing, Advance, Finish, Listed, TasklessCompletion,
     InspectReadFails
<1>5. ASSUME NEW c \in Calls, InspectTask(c) PROVE AnswerInv'
  BY <1>5 DEF InspectTask, Finish
<1>6. ASSUME NEW c \in Calls, Seal(c) PROVE AnswerInv'
  BY <1>6 DEF Seal, Finish
<1>7. ASSUME NEW c \in Calls, SubmitIntent(c) PROVE AnswerInv'
  BY <1>7 DEF SubmitIntent, Advance
<1>8. ASSUME NEW c \in Calls, SubmitReplay(c) PROVE AnswerInv'
  BY <1>8 DEF SubmitReplay, Finish, Promotable, Promote, TasklessCompletion
<1>9. ASSUME NEW c \in Calls, SubmitPreflight(c) PROVE AnswerInv'
  BY <1>9 DEF SubmitPreflight, Advance, Finish
<1>10. ASSUME NEW c \in Calls,
            SubmitJournal(c) \/ SubmitJournalFails(c)
      PROVE AnswerInv'
  BY <1>10 DEF SubmitJournal, Advance, SubmitJournalFails, Finish
<1>11. ASSUME NEW c \in Calls,
            SubmitRelease(c) \/ SubmitReadCapture(c)
      PROVE AnswerInv'
  BY <1>11 DEF SubmitRelease, Advance, SubmitReadCapture, Finish
<1>12. ASSUME NEW c \in Calls, SubmitPromote(c) PROVE AnswerInv'
  BY <1>12 DEF SubmitPromote, Finish
<1>13. ASSUME NEW c \in Calls, Deliver(c) PROVE AnswerInv'
  BY <1>13 DEF Deliver
<1>14. ASSUME NEW c \in Calls, HelperDies(c) PROVE AnswerInv'
  BY <1>14 DEF HelperDies, Fault, Finish
<1>15. CASE RunnerStart \/ RunnerCapture \/ RunnerExit \/ RunnerLost
  BY <1>15 DEF RunnerStart, RunnerCapture, RunnerExit, RunnerLost, Fault
<1>16. CASE PveTaskStep
  BY <1>16 DEF PveTaskStep
<1>17. CASE HostReboot
  BY <1>17 DEF HostReboot, Fault
<1>18. CASE BackendRestart \/ AuthorityMoves
  BY <1>18 DEF BackendRestart, Fault, AuthorityMoves
<1>19. CASE UNCHANGED vars
  BY <1>19 DEF vars
<1>20. QED
  BY <1>1, <1>2, <1>3, <1>4, <1>5, <1>6, <1>7, <1>8, <1>9, <1>10, <1>11,
     <1>12, <1>13, <1>14, <1>15, <1>16, <1>17, <1>18, <1>19
  DEF Next, BackendStep, HelperStep, RunnerStep

\* Each waiting invocation has at most one call.
LEMMA CallerStep == IInv /\ [Next]_vars => CallerInv'
<1> SUFFICES ASSUME IInv, [Next]_vars PROVE CallerInv'
  OBVIOUS
<1> USE DEF IInv, TypeOK, CallerInv
<1>1. ASSUME NEW w \in Invocations,
            StartCycle(w) \/ RecordPreflight(w) \/ RecordIntent(w)
      PROVE CallerInv'
  BY <1>1 DEF StartCycle, Goto, Continue, SeedProof, Same, RecordPreflight,
     Stop, RecordIntent
<1>2. ASSUME NEW w \in Invocations,
            BeginInspection(w) \/ InspectionReturned(w)
      PROVE CallerInv'
  BY SMTT(40), <1>2 DEF BeginInspection, Send, Goto, Continue, Same,
     InspectionReturned, Keep
<1>3. ASSUME NEW w \in Invocations,
            SubmitIfCurrent(w) \/ SubmissionReturned(w)
      PROVE CallerInv'
  BY <1>3 DEF SubmitIfCurrent, Send, Goto, Stop, Continue, Same,
     SubmissionReturned, Keep
<1>4. ASSUME NEW w \in Invocations,
            BeginSeal(w) \/ SealReturned(w)
      PROVE CallerInv'
  BY <1>4 DEF BeginSeal, Send, Goto, Stop, Continue, SealReturned, Keep,
     Same
<1>5. ASSUME NEW w \in Invocations,
            FinishResult(w) \/ PollReturned(w)
      PROVE CallerInv'
  BY <1>5 DEF FinishResult, PersistConflict, TaskRecordable,
     PersistKnownTask, UpdateProof, Stop, Send, Goto, Keep, Continue,
     PollReturned
<1>6. ASSUME NEW w \in Invocations, ApplyResult(w) PROVE CallerInv'
  BY <1>6 DEF ApplyResult, PersistConflict, TaskRecordable, PersistKnownTask,
     Goto, Keep, Stop, Continue, Same
<1>7. ASSUME NEW w \in Invocations,
            FailSnapshot(w) \/ ConfirmSnapshot(w) \/ RetainSnapshot(w)
      PROVE CallerInv'
  BY <1>7 DEF FailSnapshot, Stop, Goto, Continue, ConfirmSnapshot,
     MayConfirm, Keep, Same, RetainSnapshot
<1>8. ASSUME NEW w \in Invocations,
            WriterBusy(w) \/ CallTimeout(w)
      PROVE CallerInv'
  BY <1>8 DEF WriterBusy, Fault, Stop, Goto, Continue, CallTimeout
<1>9. ASSUME NEW c \in Calls, AcquireLease(c) PROVE CallerInv'
  BY <1>9 DEF AcquireLease, Advance, Finish
<1>10. ASSUME NEW c \in Calls, InspectJournal(c) PROVE CallerInv'
  BY <1>10 DEF InspectJournal, Advance, Finish, Promotable, Promote
<1>11. ASSUME NEW c \in Calls,
            InspectListing(c) \/ InspectReadFails(c)
      PROVE CallerInv'
  BY <1>11 DEF InspectListing, Advance, Finish, Listed, TasklessCompletion,
     InspectReadFails
<1>12. ASSUME NEW c \in Calls, InspectTask(c) PROVE CallerInv'
  BY <1>12 DEF InspectTask, Finish
<1>13. ASSUME NEW c \in Calls, Seal(c) PROVE CallerInv'
  BY <1>13 DEF Seal, Finish
<1>14. ASSUME NEW c \in Calls, SubmitIntent(c) PROVE CallerInv'
  BY <1>14 DEF SubmitIntent, Advance
<1>15. ASSUME NEW c \in Calls, SubmitReplay(c) PROVE CallerInv'
  BY <1>15 DEF SubmitReplay, Finish, Promotable, Promote, TasklessCompletion
<1>16. ASSUME NEW c \in Calls, SubmitPreflight(c) PROVE CallerInv'
  BY <1>16 DEF SubmitPreflight, Advance, Finish
<1>17. ASSUME NEW c \in Calls,
            SubmitJournal(c) \/ SubmitJournalFails(c)
      PROVE CallerInv'
  BY <1>17 DEF SubmitJournal, Advance, SubmitJournalFails, Finish
<1>18. ASSUME NEW c \in Calls,
            SubmitRelease(c) \/ SubmitReadCapture(c)
      PROVE CallerInv'
  BY <1>18 DEF SubmitRelease, Advance, SubmitReadCapture, Finish
<1>19. ASSUME NEW c \in Calls, SubmitPromote(c) PROVE CallerInv'
  BY <1>19 DEF SubmitPromote, Finish
<1>20. ASSUME NEW c \in Calls, Deliver(c) PROVE CallerInv'
  BY <1>20 DEF Deliver
<1>21. ASSUME NEW c \in Calls, HelperDies(c) PROVE CallerInv'
  BY <1>21 DEF HelperDies, Fault, Finish
<1>22. CASE RunnerStart \/ RunnerCapture \/ RunnerExit \/ RunnerLost
  BY <1>22 DEF RunnerStart, RunnerCapture, RunnerExit, RunnerLost, Fault
<1>23. CASE PveTaskStep
  BY <1>23 DEF PveTaskStep
<1>24. CASE HostReboot
  BY <1>24 DEF HostReboot, Fault
<1>25. CASE BackendRestart \/ AuthorityMoves
  BY <1>25 DEF BackendRestart, Fault, AuthorityMoves
<1>26. CASE UNCHANGED vars
  BY <1>26 DEF vars
<1>27. QED
  BY <1>1, <1>2, <1>3, <1>4, <1>5, <1>6, <1>7, <1>8, <1>9, <1>10, <1>11,
     <1>12, <1>13, <1>14, <1>15, <1>16, <1>17, <1>18, <1>19, <1>20, <1>21,
     <1>22, <1>23, <1>24, <1>25, <1>26
  DEF Next, InvocationStep, HelperStep, RunnerStep

\* The writer lock spans the host call made under it.
LEMMA WriterStep == IInv /\ [Next]_vars => WriterInv'
<1> SUFFICES ASSUME IInv, [Next]_vars PROVE WriterInv'
  OBVIOUS
<1> USE DEF IInv, TypeOK, WriterInv
<1>1. ASSUME NEW w \in Invocations,
            StartCycle(w) \/ RecordPreflight(w) \/ RecordIntent(w)
      PROVE WriterInv'
  BY <1>1 DEF StartCycle, Goto, Continue, SeedProof, Same, RecordPreflight,
     Stop, RecordIntent
<1>2. ASSUME NEW w \in Invocations,
            BeginInspection(w) \/ InspectionReturned(w)
      PROVE WriterInv'
  BY <1>2 DEF BeginInspection, Send, Goto, Continue, Same,
     InspectionReturned, Keep
<1>3. ASSUME NEW w \in Invocations,
            SubmitIfCurrent(w) \/ SubmissionReturned(w)
      PROVE WriterInv'
  BY <1>3 DEF SubmitIfCurrent, Send, Goto, Stop, Continue, Same,
     SubmissionReturned, Keep
<1>4. ASSUME NEW w \in Invocations,
            BeginSeal(w) \/ SealReturned(w)
      PROVE WriterInv'
  BY <1>4 DEF BeginSeal, Send, Goto, Stop, Continue, SealReturned, Keep,
     Same
<1>5. ASSUME NEW w \in Invocations,
            FinishResult(w) \/ PollReturned(w)
      PROVE WriterInv'
  BY <1>5 DEF FinishResult, PersistConflict, TaskRecordable,
     PersistKnownTask, UpdateProof, Stop, Send, Goto, Keep, Continue,
     PollReturned
<1>6. ASSUME NEW w \in Invocations, ApplyResult(w) PROVE WriterInv'
  BY <1>6 DEF ApplyResult, PersistConflict, TaskRecordable, PersistKnownTask,
     Goto, Keep, Stop, Continue, Same
<1>7. ASSUME NEW w \in Invocations,
            FailSnapshot(w) \/ ConfirmSnapshot(w) \/ RetainSnapshot(w)
      PROVE WriterInv'
  BY <1>7 DEF FailSnapshot, Stop, Goto, Continue, ConfirmSnapshot,
     MayConfirm, Keep, Same, RetainSnapshot
<1>8. ASSUME NEW w \in Invocations,
            WriterBusy(w) \/ CallTimeout(w)
      PROVE WriterInv'
  BY <1>8 DEF WriterBusy, Fault, Stop, Goto, Continue, CallTimeout
<1>9. CASE HostStep
  BY <1>9, HostEffect
<1>10. CASE BackendRestart \/ AuthorityMoves
  BY <1>10 DEF BackendRestart, Fault, AuthorityMoves
<1>11. CASE UNCHANGED vars
  BY <1>11 DEF vars
<1>12. QED
  BY <1>1, <1>2, <1>3, <1>4, <1>5, <1>6, <1>7, <1>8, <1>9, <1>10, <1>11
  DEF Next, InvocationStep, HostStep

\* The initial states satisfy the invariant.
LEMMA InitIInv == Init => IInv
  BY DEF Init, IInv, TypeOK, LeaseInv, LaunchInv, RunInv, JobInv, AnswerInv,
     CallerInv, WriterInv

-----------------------------------------------------------------------------
(* The theorems.                                                           *)

\* IInv is an inductive invariant of the snapshot stage.
THEOREM Inductive == Spec => []IInv
<1>1. IInv /\ [Next]_vars => IInv'
  BY TypeStep, LeaseStep, LaunchStep, RunStep, JobStep, AnswerStep, CallerStep,
     WriterStep DEF IInv
<1>2. QED
  BY <1>1, InitIInv, PTL DEF Spec

\* The row only says what the host bears out: a job released on the strength
\* of a seal was never submitted and never will be, and the task it names is
\* the one the host journaled.
THEOREM RowTrue == Spec => []RowIsTrue
<1>1. IInv => SealedReleaseIsTrue
  BY DEF IInv, TypeOK, RunInv, JobInv, SealedReleaseIsTrue
<1>2. IInv => RecordedTaskIsJournaled
  BY DEF IInv, JobInv, RecordedTaskIsJournaled
<1>3. IInv => RowIsTrue
  BY <1>1, <1>2 DEF IInv, RowIsTrue
<1>4. QED
  BY <1>3, Inductive, PTL

-----------------------------------------------------------------------------
(* Refinement: the stage is one host operation.                            *)

\* While PVE may still be asked, or works on the snapshot, the job is armed.
LEMMA InFlightIsArmed ==
  ASSUME IInv, \/ phase = "submitted" /\ submissions = 0
               \/ pveTask = "running" /\ snapshot # "present"
  PROVE  OperationStage = "armed"
<1>1. checkpoint = "snapshot_may_have_started"
  BY DEF IInv, TypeOK, RunInv, JobInv
<1>2. status = "active"
  BY <1>1 DEF IInv, TypeOK, RunInv, JobInv
<1>3. release = "none"
  BY <1>2 DEF IInv, JobInv
<1>4. QED
  BY <1>1, <1>2, <1>3 DEF OperationStage

\* What a step of the backend may do to the row.
Leaves(r) ==
    /\ status = "active" /\ status' # "active"
    /\ release' = r
    /\ UNCHANGED checkpoint

\* What a step may do to the row.
RowStep ==
    \/ UNCHANGED <<status, checkpoint, release>>
    \/ /\ UNCHANGED <<status, release>> /\ status = "active"
       /\ \/ /\ checkpoint \in {"issued", "preflight_passed"}
             /\ checkpoint' \in {"preflight_passed", "snapshot_may_have_started"}
          \/ /\ checkpoint = "snapshot_may_have_started"
             /\ checkpoint' = "snapshot_confirmed"
             /\ snapshot = "present"
    \/ Leaves("sealed") /\ Armed /\ phase = "sealed_not_submitted"
    \/ Leaves("failed") /\ Armed /\ pveTask = "error" /\ snapshot # "present"
    \/ Leaves("retained") /\ Armed /\ snapshot = "present"
    \/ Leaves("restart") /\ checkpoint # "snapshot_may_have_started"

\* A step of the backend does one of these things.
LEMMA BackendRow ==
  ASSUME IInv, NEW w \in Invocations, BackendStep(w) PROVE RowStep
<1> USE DEF RowStep, Leaves
<1>1. CASE \/ StartCycle(w) \/ BeginInspection(w) \/ InspectionReturned(w)
           \/ SubmitIfCurrent(w) \/ SubmissionReturned(w) \/ BeginSeal(w)
           \/ FinishResult(w) \/ PollReturned(w) \/ ApplyResult(w)
           \/ WriterBusy(w) \/ CallTimeout(w)
  BY <1>1 DEF StartCycle, BeginInspection, InspectionReturned, SubmitIfCurrent,
     SubmissionReturned, BeginSeal, FinishResult, PollReturned, ApplyResult,
     WriterBusy, CallTimeout
<1>2. CASE RecordPreflight(w) \/ RecordIntent(w)
  BY <1>2 DEF IInv, TypeOK, RecordPreflight, RecordIntent
<1>3. CASE SealReturned(w)
  BY <1>3 DEF IInv, AnswerInv, WriterInv, SealReturned
<1>4. CASE FailSnapshot(w)
  BY <1>4 DEF IInv, AnswerInv, CallerInv, FailSnapshot
<1>5. CASE ConfirmSnapshot(w)
  BY <1>5 DEF IInv, AnswerInv, CallerInv, ConfirmSnapshot, MayConfirm
<1>6. CASE RetainSnapshot(w)
  BY <1>6 DEF IInv, AnswerInv, CallerInv, RetainSnapshot
<1>7. QED
  BY <1>1, <1>2, <1>3, <1>4, <1>5, <1>6 DEF BackendStep, InvocationStep

\* A row step over an untouched host is a step of the abstract operation.
LEMMA RowRefines ==
  ASSUME IInv, IInv', RowStep, UNCHANGED <<journal, pve>>
  PROVE  [Operation!Next]_<<OperationStage, OperationEffect>>
<1>1. OperationEffect' = OperationEffect
  BY DEF OperationEffect
<1>2. CASE UNCHANGED <<status, checkpoint, release>>
  BY <1>1, <1>2 DEF OperationStage
<1>3. CASE /\ UNCHANGED <<status, release>> /\ status = "active"
           /\ checkpoint \in {"issued", "preflight_passed"}
           /\ checkpoint' \in {"preflight_passed", "snapshot_may_have_started"}
  <2>1. release = "none"
    BY <1>3 DEF IInv, JobInv
  <2>2. OperationStage = "open" /\ OperationStage' \in {"open", "armed"}
    BY <1>3, <2>1 DEF OperationStage
  <2>3. QED
    BY <1>1, <2>2 DEF Operation!Next, Operation!Arm
<1>4. CASE /\ UNCHANGED <<status, release>> /\ status = "active"
           /\ checkpoint = "snapshot_may_have_started"
           /\ checkpoint' = "snapshot_confirmed"
           /\ snapshot = "present"
  <2>1. release = "none"
    BY <1>4 DEF IInv, JobInv
  <2>2. OperationStage = "armed" /\ OperationStage' = "confirmed"
    BY <1>4, <2>1 DEF OperationStage
  <2>3. OperationEffect = "achieved"
    BY <1>4 DEF IInv, TypeOK, RunInv, OperationEffect
  <2>4. QED
    BY <1>1, <2>2, <2>3 DEF Operation!Next, Operation!Conclude
<1>5. CASE Leaves("sealed") /\ Armed /\ phase = "sealed_not_submitted"
  <2>1. release = "none"
    BY <1>5 DEF IInv, JobInv
  <2>2. OperationStage = "armed" /\ OperationStage' = "closed"
    BY <1>5, <2>1 DEF OperationStage, Leaves
  <2>3. OperationEffect = "none"
    BY <1>5 DEF IInv, RunInv, OperationEffect
  <2>4. QED
    BY <1>1, <2>2, <2>3 DEF Operation!Next, Operation!Close
<1>6. CASE Leaves("failed") /\ Armed /\ pveTask = "error" /\ snapshot # "present"
  <2>1. release = "none"
    BY <1>6 DEF IInv, JobInv
  <2>2. OperationStage = "armed" /\ OperationStage' = "failed"
    BY <1>6, <2>1 DEF OperationStage, Leaves
  <2>3. OperationEffect = "failed"
    BY <1>6 DEF IInv, TypeOK, RunInv, OperationEffect
  <2>4. QED
    BY <1>1, <2>2, <2>3 DEF Operation!Next, Operation!Conclude
<1>7. CASE Leaves("retained") /\ Armed /\ snapshot = "present"
  <2>1. release = "none"
    BY <1>7 DEF IInv, JobInv
  <2>2. OperationStage = "armed" /\ OperationStage' = "retained"
    BY <1>7, <2>1 DEF OperationStage, Leaves
  <2>3. OperationEffect = "achieved"
    BY <1>7 DEF IInv, TypeOK, RunInv, OperationEffect
  <2>4. QED
    BY <1>1, <2>2, <2>3 DEF Operation!Next, Operation!Conclude
<1>8. CASE Leaves("restart") /\ checkpoint # "snapshot_may_have_started"
  <2>1. release = "none"
    BY <1>8 DEF IInv, JobInv, Leaves
  <2>2. CASE checkpoint = "snapshot_confirmed"
    BY <1>1, <1>8, <2>1, <2>2 DEF OperationStage, Leaves
  <2>3. CASE checkpoint \in {"issued", "preflight_passed"}
    <3>1. OperationStage = "open" /\ OperationStage' = "closed"
      BY <1>8, <2>1, <2>3 DEF OperationStage, Leaves
    <3>2. OperationEffect = "none"
      BY <2>3 DEF IInv, RunInv, JobInv, OperationEffect
    <3>3. QED
      BY <1>1, <3>1, <3>2 DEF Operation!Next, Operation!Close
  <2>4. QED
    BY <1>8, <2>2, <2>3 DEF IInv, TypeOK
<1>9. QED
  BY <1>2, <1>3, <1>4, <1>5, <1>6, <1>7, <1>8 DEF RowStep

\* What a step of the host may do to the snapshot.
SnapshotMoves ==
    \/ UNCHANGED pve
    \/ /\ submissions = 0 /\ submissions' = 1
       /\ phase = "submitted" /\ pveTask' = "running"
       /\ UNCHANGED snapshot
    \/ UNCHANGED submissions /\ snapshot = "present" /\ snapshot' = "present"
    \/ /\ UNCHANGED submissions /\ snapshot # "present"
       /\ pveTask = "running" /\ pveTask' \in {"running", "error"}

\* A step of the host moves the snapshot task forward.
LEMMA HostSnapshot == ASSUME IInv, HostStep PROVE SnapshotMoves
<1> USE DEF SnapshotMoves
<1>1. ASSUME NEW c \in Calls,
             \/ HelperStep(c) \/ HelperDies(c) \/ InspectReadFails(c)
             \/ SubmitJournalFails(c)
      PROVE  SnapshotMoves
  BY <1>1 DEF HelperStep, AcquireLease, InspectJournal, InspectListing,
     InspectReadFails, InspectTask, Seal, SubmitIntent, SubmitReplay,
     SubmitPreflight, SubmitJournal, SubmitJournalFails, SubmitRelease,
     SubmitReadCapture, SubmitPromote, Deliver, HelperDies
<1>2. CASE RunnerStep \/ RunnerLost
  BY <1>2 DEF IInv, RunInv, RunnerStep, RunnerStart, RunnerCapture, RunnerExit,
     RunnerLost
<1>3. CASE PveTaskStep \/ HostReboot
  BY <1>3 DEF IInv, TypeOK, PveTaskStep, HostReboot
<1>4. QED
  BY <1>1, <1>2, <1>3 DEF HostStep

\* A move of the snapshot under an untouched row is a step of the abstract
\* operation.
LEMMA SnapshotRefines ==
  ASSUME IInv, IInv', SnapshotMoves, UNCHANGED jobRow
  PROVE  [Operation!Next]_<<OperationStage, OperationEffect>>
<1>1. OperationStage' = OperationStage
  BY DEF OperationStage
<1>2. CASE UNCHANGED pve
  BY <1>1, <1>2 DEF OperationEffect
<1>3. CASE /\ submissions = 0 /\ submissions' = 1
           /\ phase = "submitted" /\ pveTask' = "running"
           /\ UNCHANGED snapshot
  <2>1. OperationEffect = "none" /\ OperationEffect' = "started"
    BY <1>3 DEF IInv, RunInv, OperationEffect
  <2>2. QED
    BY <1>1, <1>3, <2>1, InFlightIsArmed DEF Operation!Next, Operation!Start
<1>4. CASE UNCHANGED submissions /\ snapshot = "present" /\ snapshot' = "present"
  BY <1>1, <1>4 DEF OperationEffect
<1>5. CASE /\ UNCHANGED submissions /\ snapshot # "present"
           /\ pveTask = "running" /\ pveTask' \in {"running", "error"}
  <2>1. submissions = 1
    BY <1>5 DEF IInv, TypeOK, RunInv
  <2>2. OperationEffect = "started"
    BY <1>5, <2>1 DEF OperationEffect
  <2>3. OperationEffect' \in {"started", "achieved", "failed"}
    BY <1>5, <2>1 DEF OperationEffect
  <2>4. OperationStage = "armed"
    BY <1>5, InFlightIsArmed
  <2>5. QED
    BY <1>1, <2>2, <2>3, <2>4 DEF Operation!Next, Operation!Finish
<1>6. QED
  BY <1>2, <1>3, <1>4, <1>5 DEF SnapshotMoves

\* The snapshot stage implements the abstract host operation, for every number
\* of invocations, helpers and faults: armed before PVE is asked, asked once,
\* never for a released job, confirmed or retained only when the snapshot
\* stands, failed only when its task did.
THEOREM SnapshotImplements == Spec => ImplementsOperation
<1>1. Init => Operation!Init
  BY DEF Init, Operation!Init, OperationStage, OperationEffect
<1>2. ASSUME IInv, IInv', [Next]_vars
      PROVE  [Operation!Next]_<<OperationStage, OperationEffect>>
  <2>1. ASSUME NEW w \in Invocations, BackendStep(w)
        PROVE  [Operation!Next]_<<OperationStage, OperationEffect>>
    <3>1. UNCHANGED <<journal, pve>>
      BY <1>2, <2>1, BackendEffect DEF IInv
    <3>2. QED
      BY <1>2, <2>1, <3>1, BackendRow, RowRefines
  <2>2. CASE HostStep
    BY <1>2, <2>2, HostEffect, HostSnapshot, SnapshotRefines
  <2>3. CASE BackendRestart
    <3>1. RowStep /\ UNCHANGED <<journal, pve>>
      BY <2>3 DEF BackendRestart, RowStep, Leaves
    <3>2. QED
      BY <1>2, <3>1, RowRefines
  <2>4. CASE AuthorityMoves \/ UNCHANGED vars
    BY <2>4 DEF AuthorityMoves, vars, OperationStage, OperationEffect
  <2>5. QED
    BY <1>2, <2>1, <2>2, <2>3, <2>4 DEF Next, BackendStep, HostStep
<1>3. QED
  BY <1>1, <1>2, Inductive, PTL
  DEF Spec, ImplementsOperation, Operation!Spec
=============================================================================
