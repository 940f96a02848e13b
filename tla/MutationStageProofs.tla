------------------------ MODULE MutationStageProofs ------------------------
(***************************************************************************)
(* Safety of the mutation stage for every number of invocations, helper    *)
(* processes, evidence digests and faults.                                 *)
(***************************************************************************)
EXTENDS MutationStage, TLAPS

\* The lease has one holder, which is inside its critical section; a runner
\* that exists holds it.
LeaseInv ==
    /\ \A c \in Calls : step[c] \in {"leased", "intent"} => lease = c
    /\ \A c \in Calls : lease = c => step[c] \in {"leased", "intent", "probe"}
    /\ lease = Runner <=> runner # "none"
    /\ \A c \in Calls : step[c] \in {"intent", "prepared", "journaled"}
                           => op[c] = "execute"

\* How far a launch has come, against the journal and the command count.
LaunchInv ==
    /\ \A c \in Calls : step[c] = "intent" => phase = "intent"
    /\ \A c \in Calls : step[c] = "prepared" => runner = "ready" /\ phase = "intent"
    /\ \A c \in Calls : step[c] = "journaled"
                           => runner = "ready" /\ phase = "submitted" /\ runs = 0
    /\ \A c, d \in Calls : /\ step[c] \in {"prepared", "journaled"}
                           /\ step[d] \in {"prepared", "journaled"}
                           => c = d

\* The journal phase tells whether the command was started.
RunInv ==
    /\ phase \in SubmissionPermitted \cup {"sealed_not_submitted"}
          => runs = 0 /\ runner \notin {"released", "running"}
    /\ runner = "released" => phase = "submitted" /\ runs = 0
    /\ runner = "running" => phase = "submitted" /\ runs = 1
    /\ phase = "terminal_success" => runs = 1
    /\ runs <= 1
    /\ post = "proven" => phase = "terminal_success"

\* Before arming nothing was sent that could write the journal; afterwards
\* the accepted evidence matches the plan, and a release rests on a seal.
JobInv ==
    /\ checkpoint = "snapshot_confirmed" =>
          /\ phase = "absent"
          /\ \A c \in Calls : op[c] \notin {"execute", "seal"}
          /\ \A w \in Invocations :
                pc[w] \notin {"submit", "submitting", "inspect", "seal", "sealing"}
    /\ checkpoint # "snapshot_confirmed" => accepted \in MatchingEvidence
    /\ status = "interrupted" => checkpoint = "snapshot_confirmed"
    /\ status = "blocked" /\ checkpoint # "snapshot_confirmed"
          => phase = "sealed_not_submitted"
    /\ checkpoint = "mutation_completed" => post = "proven"

\* Answers under way about a final phase are still true when they are used.
AnswerInv ==
    /\ \A c \in Calls : answer[c] = "sealed_not_submitted"
                           => phase = "sealed_not_submitted"
    /\ \A w \in Invocations : reply[w] = "sealed_not_submitted"
                           => phase = "sealed_not_submitted"

\* A call that still has a caller is the one call its invocation waits for,
\* and the two calls made under the writer lock keep it until they return.
CallerInv ==
    /\ \A c \in Calls : caller[c] # None =>
          /\ pc[caller[c]] \in WaitingPcs
          /\ reply[caller[c]] = None
          /\ op[c] = "execute" => pc[caller[c]] = "submitting"
    /\ \A c, d \in Calls : caller[c] = caller[d] /\ c # d => caller[c] = None
    /\ \A c \in Calls : step[c] = "free" => caller[c] = None /\ answer[c] = None

\* A call made under the writer lock keeps it, and the authority with it.
WriterInv ==
    /\ \A w \in Invocations : pc[w] \in {"submitting", "sealing"} <=> writer = w
    /\ \A w \in Invocations : pc[w] = "submitting" => authority = "current"

\* The inductive invariant.
IInv == /\ TypeOK /\ LeaseInv /\ LaunchInv /\ RunInv /\ JobInv /\ AnswerInv
        /\ CallerInv /\ WriterInv

-----------------------------------------------------------------------------
(* The inductive step, one lemma per part of the invariant.                *)

\* The steps of the backend, which change the row.
BackendStep(w) == InvocationStep(w) \/ AbandonInvocation(w) \/ CallTimeout(w)

\* The steps of the host, which change journal and command.
HostStep ==
    \/ \E c \in Calls : HelperStep(c) \/ HelperDies(c)
    \/ RunnerStep \/ RunnerLost \/ HostReboot

USE MutationAssumption
  DEF jobRow, host, inv, calls, journal, Active, Armed, AtGate, Statuses,
      Checkpoints, AuthorityStates, Phases, TerminalPhases,
      SubmissionPermitted, Replies, Ops, WaitingPcs, TxnPcs, Pcs,
      HelperSteps, RunnerStates

\* A backend step reaches the host only by starting a helper in a free slot.
LEMMA BackendEffect ==
  ASSUME TypeOK, NEW w \in Invocations, BackendStep(w)
  PROVE  /\ UNCHANGED <<host, answer>>
         /\ \A c \in Calls : \/ step'[c] = step[c] /\ op'[c] = op[c]
                             \/ step[c] = "free" /\ step'[c] = "sent"
         /\ \A v \in Invocations : reply'[v] \in {reply[v], None, "error"}
<1>1. CASE \/ StartCycle(w) \/ RevalidateOrRelease(w) \/ EvaluatePlan(w)
           \/ PrepareReturned(w) \/ ArmMutation(w) \/ CompleteMutation(w)
           \/ AbandonInvocation(w)
  BY <1>1 DEF StartCycle, RevalidateOrRelease, EvaluatePlan, PrepareReturned,
     ArmMutation, CompleteMutation, AbandonInvocation, GateRefuses, GateHolds,
     Goto, Stop, Continue, TypeOK
<1>2. CASE BeginMutation(w) \/ SubmitIfCurrent(w) \/ BeginSeal(w)
  BY <1>2 DEF BeginMutation, SubmitIfCurrent, BeginSeal, Send, Goto, Stop,
     Continue, TypeOK
<1>3. CASE SubmissionReturned(w) \/ InspectReturned(w) \/ SealReturned(w)
  BY <1>3 DEF SubmissionReturned, InspectReturned, SealReturned, Resolve, Send,
     Goto, Stop, Continue, TypeOK
<1>4. CASE CallTimeout(w)
  BY <1>4 DEF CallTimeout, TypeOK
<1>5. QED
  BY <1>1, <1>2, <1>3, <1>4 DEF BackendStep, InvocationStep

\* A host step leaves the store and the invocations' control alone.
LEMMA HostEffect ==
  ASSUME HostStep PROVE UNCHANGED <<jobRow, authority, writer, pc>>
<1>1. ASSUME NEW c \in Calls, HelperStep(c) \/ HelperDies(c)
      PROVE  UNCHANGED <<jobRow, authority, writer, pc>>
  BY <1>1 DEF HelperStep, HelperDies, AcquireLease, Prepare, Seal, ExecuteIntent,
     ExecutePrepareRunner, ExecuteJournalSubmitted, ExecuteRelease, InspectRead,
     InspectProbe, Deliver
<1>2. CASE RunnerStep \/ RunnerLost \/ HostReboot
  BY <1>2 DEF RunnerStep, RunnerStart, RunnerFinish, RunnerExit, RunnerLost,
     HostReboot
<1>3. QED
  BY <1>1, <1>2 DEF HostStep

\* Every step keeps the variables within their types.
LEMMA TypeStep == TypeOK /\ [Next]_vars => TypeOK'
<1> SUFFICES ASSUME TypeOK, [Next]_vars PROVE TypeOK'
  OBVIOUS
<1> USE DEF TypeOK
<1>1. ASSUME NEW w \in Invocations,
            StartCycle(w) \/ RevalidateOrRelease(w) \/ EvaluatePlan(w)
            \/ PrepareReturned(w) \/ ArmMutation(w) \/ CompleteMutation(w)
            \/ AbandonInvocation(w) \/ CallTimeout(w)
      PROVE TypeOK'
  BY <1>1 DEF StartCycle, Goto, Continue, RevalidateOrRelease, GateRefuses,
      GateHolds, Stop, EvaluatePlan, PrepareReturned, ArmMutation,
      CompleteMutation, AbandonInvocation, CallTimeout, Fault
<1>2. ASSUME NEW w \in Invocations,
            BeginMutation(w) \/ SubmitIfCurrent(w) \/ SubmissionReturned(w)
            \/ InspectReturned(w) \/ BeginSeal(w) \/ SealReturned(w)
      PROVE TypeOK'
  BY <1>2 DEF BeginMutation, Send, Goto, Stop, Continue, SubmitIfCurrent,
      SubmissionReturned, Resolve, InspectReturned, BeginSeal, SealReturned
<1>3. ASSUME NEW c \in Calls,
            AcquireLease(c) \/ InspectRead(c) \/ InspectProbe(c)
      PROVE TypeOK'
  BY <1>3 DEF AcquireLease, Advance, Finish, InspectRead, InspectProbe
<1>4. ASSUME NEW c \in Calls, Prepare(c) \/ Seal(c)
      PROVE TypeOK'
  BY <1>4 DEF Prepare, Finish, Seal, Journal
<1>5. ASSUME NEW c \in Calls,
            ExecuteIntent(c) \/ ExecutePrepareRunner(c)
            \/ ExecuteJournalSubmitted(c) \/ ExecuteRelease(c)
      PROVE TypeOK'
  BY <1>5 DEF ExecuteIntent, Advance, Finish, Journal, ExecutePrepareRunner,
      ExecuteJournalSubmitted, ExecuteRelease
<1>6. ASSUME NEW c \in Calls, Deliver(c)
      PROVE TypeOK'
  BY <1>6 DEF Deliver
<1>7. ASSUME NEW c \in Calls, HelperDies(c)
      PROVE TypeOK'
  BY <1>7 DEF HelperDies, Fault, Finish
<1>8. CASE RunnerStart \/ RunnerFinish \/ RunnerExit \/ RunnerLost
             \/ HostReboot
  BY <1>8 DEF RunnerStart, RunnerFinish, Journal, RunnerExit, RunnerLost,
      Fault, HostReboot
<1>9. CASE BackendRestart \/ AuthorityMoves \/ GuestDrifts
  BY <1>9 DEF BackendRestart, Fault, AuthorityMoves, GuestDrifts
<1>10. CASE UNCHANGED vars
  BY <1>10 DEF vars
<1>11. QED
  BY <1>1, <1>2, <1>3, <1>4, <1>5, <1>6, <1>7, <1>8, <1>9, <1>10
  DEF Next, InvocationStep, HelperStep, RunnerStep

\* The lease keeps one holder.
LEMMA LeaseStep == IInv /\ [Next]_vars => LeaseInv'
<1> SUFFICES ASSUME IInv, [Next]_vars PROVE LeaseInv'
  OBVIOUS
<1> USE DEF IInv, TypeOK, LeaseInv, LaunchInv
<1>1. ASSUME NEW w \in Invocations, BackendStep(w) PROVE LeaseInv'
  BY <1>1, BackendEffect
<1>2. ASSUME NEW c \in Calls, AcquireLease(c)
      PROVE LeaseInv'
  BY <1>2 DEF AcquireLease, Advance, Finish
<1>3. ASSUME NEW c \in Calls, Prepare(c) \/ Seal(c)
      PROVE LeaseInv'
  BY <1>3 DEF Prepare, Finish, Seal, Journal
<1>4. ASSUME NEW c \in Calls, ExecuteIntent(c)
      PROVE LeaseInv'
  BY <1>4 DEF ExecuteIntent, Advance, Finish, Journal
<1>5. ASSUME NEW c \in Calls, ExecutePrepareRunner(c)
      PROVE LeaseInv'
  BY <1>5 DEF ExecutePrepareRunner, Advance, Finish
<1>6. ASSUME NEW c \in Calls, ExecuteJournalSubmitted(c)
      PROVE LeaseInv'
  BY <1>6 DEF ExecuteJournalSubmitted, Advance, Journal
<1>7. ASSUME NEW c \in Calls, ExecuteRelease(c)
      PROVE LeaseInv'
  BY <1>7 DEF ExecuteRelease, Finish
<1>8. ASSUME NEW c \in Calls, InspectRead(c) \/ InspectProbe(c)
      PROVE LeaseInv'
  BY <1>8 DEF InspectRead, Advance, Finish, InspectProbe
<1>9. ASSUME NEW c \in Calls, Deliver(c)
      PROVE LeaseInv'
  BY <1>9 DEF Deliver
<1>10. ASSUME NEW c \in Calls, HelperDies(c)
      PROVE LeaseInv'
  BY <1>10 DEF HelperDies, Fault, Finish
<1>11. CASE RunnerStart \/ RunnerFinish \/ RunnerExit \/ RunnerLost
             \/ HostReboot
  BY <1>11 DEF RunnerStart, RunnerFinish, Journal, RunnerExit, RunnerLost,
      Fault, HostReboot
<1>12. CASE BackendRestart \/ AuthorityMoves \/ GuestDrifts
  BY <1>12 DEF BackendRestart, Fault, AuthorityMoves, GuestDrifts
<1>13. CASE UNCHANGED vars
  BY <1>13 DEF vars
<1>14. QED
  BY <1>1, <1>2, <1>3, <1>4, <1>5, <1>6, <1>7, <1>8, <1>9, <1>10, <1>11,
      <1>12, <1>13
  DEF Next, BackendStep, HelperStep, RunnerStep

\* A launch keeps pace with the journal: nobody else can move it meanwhile.
LEMMA LaunchStep == IInv /\ [Next]_vars => LaunchInv'
<1> SUFFICES ASSUME IInv, [Next]_vars PROVE LaunchInv'
  OBVIOUS
<1> USE DEF IInv, TypeOK, LeaseInv, LaunchInv, RunInv
<1>1. ASSUME NEW w \in Invocations, BackendStep(w) PROVE LaunchInv'
  BY <1>1, BackendEffect
<1>2. ASSUME NEW c \in Calls,
            AcquireLease(c) \/ Prepare(c) \/ InspectRead(c)
            \/ InspectProbe(c) \/ Deliver(c)
      PROVE LaunchInv'
  BY <1>2 DEF AcquireLease, Advance, Finish, Prepare, InspectRead,
      InspectProbe, Deliver
<1>3. ASSUME NEW c \in Calls, Seal(c)
      PROVE LaunchInv'
  BY <1>3 DEF Seal, Finish, Journal
<1>4. ASSUME NEW c \in Calls, ExecuteIntent(c)
      PROVE LaunchInv'
  BY <1>4 DEF ExecuteIntent, Advance, Finish, Journal
<1>5. ASSUME NEW c \in Calls, ExecutePrepareRunner(c)
      PROVE LaunchInv'
  BY <1>5 DEF ExecutePrepareRunner, Advance, Finish
<1>6. ASSUME NEW c \in Calls, ExecuteJournalSubmitted(c)
      PROVE LaunchInv'
  BY <1>6 DEF ExecuteJournalSubmitted, Advance, Journal
<1>7. ASSUME NEW c \in Calls, ExecuteRelease(c)
      PROVE LaunchInv'
  BY <1>7 DEF ExecuteRelease, Finish
<1>8. ASSUME NEW c \in Calls, HelperDies(c)
      PROVE LaunchInv'
  BY <1>8 DEF HelperDies, Fault, Finish
<1>9. CASE RunnerStart \/ RunnerFinish \/ RunnerExit \/ RunnerLost
             \/ HostReboot
  BY <1>9 DEF RunnerStart, RunnerFinish, Journal, RunnerExit, RunnerLost,
      Fault, HostReboot
<1>10. CASE BackendRestart \/ AuthorityMoves \/ GuestDrifts
  BY <1>10 DEF BackendRestart, Fault, AuthorityMoves, GuestDrifts
<1>11. CASE UNCHANGED vars
  BY <1>11 DEF vars
<1>12. QED
  BY <1>1, <1>2, <1>3, <1>4, <1>5, <1>6, <1>7, <1>8, <1>9, <1>10, <1>11
  DEF Next, BackendStep, HelperStep, RunnerStep

\* The command count follows the journal phase.
LEMMA RunStep == IInv /\ [Next]_vars => RunInv'
<1> SUFFICES ASSUME IInv, [Next]_vars PROVE RunInv'
  OBVIOUS
<1> USE DEF IInv, TypeOK, LeaseInv, LaunchInv, RunInv
<1>1. ASSUME NEW w \in Invocations, BackendStep(w) PROVE RunInv'
  BY <1>1, BackendEffect
<1>2. ASSUME NEW c \in Calls,
            AcquireLease(c) \/ Prepare(c) \/ InspectRead(c)
            \/ InspectProbe(c) \/ Deliver(c)
      PROVE RunInv'
  BY <1>2 DEF AcquireLease, Advance, Finish, Prepare, InspectRead,
      InspectProbe, Deliver
<1>3. ASSUME NEW c \in Calls, Seal(c)
      PROVE RunInv'
  BY <1>3 DEF Seal, Finish, Journal
<1>4. ASSUME NEW c \in Calls, ExecuteIntent(c)
      PROVE RunInv'
  BY <1>4 DEF ExecuteIntent, Advance, Finish, Journal
<1>5. ASSUME NEW c \in Calls, ExecutePrepareRunner(c)
      PROVE RunInv'
  BY <1>5 DEF ExecutePrepareRunner, Advance, Finish
<1>6. ASSUME NEW c \in Calls, ExecuteJournalSubmitted(c)
      PROVE RunInv'
  BY <1>6 DEF ExecuteJournalSubmitted, Advance, Journal
<1>7. ASSUME NEW c \in Calls, ExecuteRelease(c)
      PROVE RunInv'
  BY <1>7 DEF ExecuteRelease, Finish
<1>8. ASSUME NEW c \in Calls, HelperDies(c)
      PROVE RunInv'
  BY <1>8 DEF HelperDies, Fault, Finish
<1>9. CASE RunnerStart \/ RunnerFinish \/ RunnerExit \/ RunnerLost
             \/ HostReboot
  BY <1>9 DEF RunnerStart, RunnerFinish, Journal, RunnerExit, RunnerLost,
      Fault, HostReboot
<1>10. CASE BackendRestart \/ AuthorityMoves \/ GuestDrifts
  BY <1>10 DEF BackendRestart, Fault, AuthorityMoves, GuestDrifts
<1>11. CASE UNCHANGED vars
  BY <1>11 DEF vars
<1>12. QED
  BY <1>1, <1>2, <1>3, <1>4, <1>5, <1>6, <1>7, <1>8, <1>9, <1>10, <1>11
  DEF Next, BackendStep, HelperStep, RunnerStep

\* The job row stays justified by the journal.
LEMMA JobStep == IInv /\ [Next]_vars => JobInv'
<1> SUFFICES ASSUME IInv, [Next]_vars PROVE JobInv'
  OBVIOUS
<1> USE DEF IInv, TypeOK, LeaseInv, LaunchInv, RunInv, JobInv, AnswerInv
<1>1. ASSUME NEW w \in Invocations,
            StartCycle(w) \/ RevalidateOrRelease(w) \/ EvaluatePlan(w)
            \/ PrepareReturned(w) \/ AbandonInvocation(w) \/ CallTimeout(w)
      PROVE JobInv'
  BY <1>1 DEF StartCycle, Goto, Continue, RevalidateOrRelease, GateRefuses,
      GateHolds, Stop, EvaluatePlan, PrepareReturned, AbandonInvocation,
      CallTimeout, Fault
<1>2. ASSUME NEW w \in Invocations, ArmMutation(w)
      PROVE JobInv'
  BY <1>2 DEF ArmMutation, GateRefuses, GateHolds, Goto, Stop, Continue
<1>3. ASSUME NEW w \in Invocations,
            BeginMutation(w) \/ SubmitIfCurrent(w) \/ BeginSeal(w)
      PROVE JobInv'
  BY <1>3 DEF BeginMutation, Send, Goto, Stop, Continue, SubmitIfCurrent,
      BeginSeal
<1>4. ASSUME NEW w \in Invocations,
            SubmissionReturned(w) \/ InspectReturned(w) \/ SealReturned(w)
      PROVE JobInv'
  BY <1>4 DEF SubmissionReturned, Resolve, Send, Goto, Stop, Continue,
      InspectReturned, SealReturned
<1>5. ASSUME NEW w \in Invocations, CompleteMutation(w)
      PROVE JobInv'
  BY <1>5 DEF CompleteMutation, Goto, Stop, Continue
<1>6. ASSUME NEW c \in Calls,
            AcquireLease(c) \/ Prepare(c) \/ InspectRead(c)
            \/ InspectProbe(c) \/ Deliver(c)
      PROVE JobInv'
  BY <1>6 DEF AcquireLease, Advance, Finish, Prepare, InspectRead,
      InspectProbe, Deliver
<1>7. ASSUME NEW c \in Calls, Seal(c)
      PROVE JobInv'
  BY <1>7 DEF Seal, Finish, Journal
<1>8. ASSUME NEW c \in Calls, ExecuteIntent(c)
      PROVE JobInv'
  BY <1>8 DEF ExecuteIntent, Advance, Finish, Journal
<1>9. ASSUME NEW c \in Calls,
            ExecutePrepareRunner(c) \/ ExecuteRelease(c)
      PROVE JobInv'
  BY <1>9 DEF ExecutePrepareRunner, Advance, Finish, ExecuteRelease
<1>10. ASSUME NEW c \in Calls, ExecuteJournalSubmitted(c)
      PROVE JobInv'
  BY <1>10 DEF ExecuteJournalSubmitted, Advance, Journal
<1>11. ASSUME NEW c \in Calls, HelperDies(c)
      PROVE JobInv'
  BY <1>11 DEF HelperDies, Fault, Finish
<1>12. CASE RunnerStart \/ RunnerFinish \/ RunnerExit \/ RunnerLost
             \/ HostReboot
  BY <1>12 DEF RunnerStart, RunnerFinish, Journal, RunnerExit, RunnerLost,
      Fault, HostReboot
<1>13. CASE BackendRestart \/ AuthorityMoves \/ GuestDrifts
  BY <1>13 DEF BackendRestart, Fault, AuthorityMoves, GuestDrifts
<1>14. CASE UNCHANGED vars
  BY <1>14 DEF vars
<1>15. QED
  BY <1>1, <1>2, <1>3, <1>4, <1>5, <1>6, <1>7, <1>8, <1>9, <1>10, <1>11,
      <1>12, <1>13, <1>14
  DEF Next, InvocationStep, HelperStep, RunnerStep

\* A seal that was reported stays in the journal.
LEMMA AnswerStep == IInv /\ [Next]_vars => AnswerInv'
<1> SUFFICES ASSUME IInv, [Next]_vars PROVE AnswerInv'
  OBVIOUS
<1> USE DEF IInv, TypeOK, LeaseInv, LaunchInv, RunInv, AnswerInv
<1>1. ASSUME NEW w \in Invocations, BackendStep(w) PROVE AnswerInv'
  BY <1>1, BackendEffect
<1>2. ASSUME NEW c \in Calls, AcquireLease(c)
      PROVE AnswerInv'
  BY <1>2 DEF AcquireLease, Advance, Finish
<1>3. ASSUME NEW c \in Calls,
            Prepare(c) \/ InspectRead(c) \/ InspectProbe(c)
      PROVE AnswerInv'
  BY <1>3 DEF Prepare, Finish, InspectRead, Advance, InspectProbe
<1>4. ASSUME NEW c \in Calls, Seal(c)
      PROVE AnswerInv'
  BY <1>4 DEF Seal, Finish, Journal
<1>5. ASSUME NEW c \in Calls, ExecuteIntent(c)
      PROVE AnswerInv'
  BY <1>5 DEF ExecuteIntent, Advance, Finish, Journal
<1>6. ASSUME NEW c \in Calls,
            ExecutePrepareRunner(c) \/ ExecuteRelease(c)
      PROVE AnswerInv'
  BY <1>6 DEF ExecutePrepareRunner, Advance, Finish, ExecuteRelease
<1>7. ASSUME NEW c \in Calls, ExecuteJournalSubmitted(c)
      PROVE AnswerInv'
  BY <1>7 DEF ExecuteJournalSubmitted, Advance, Journal
<1>8. ASSUME NEW c \in Calls, Deliver(c)
      PROVE AnswerInv'
  BY <1>8 DEF Deliver
<1>9. ASSUME NEW c \in Calls, HelperDies(c)
      PROVE AnswerInv'
  BY <1>9 DEF HelperDies, Fault, Finish
<1>10. CASE RunnerStart \/ RunnerFinish \/ RunnerExit \/ RunnerLost
             \/ HostReboot
  BY <1>10 DEF RunnerStart, RunnerFinish, Journal, RunnerExit, RunnerLost,
      Fault, HostReboot
<1>11. CASE BackendRestart \/ AuthorityMoves \/ GuestDrifts
  BY <1>11 DEF BackendRestart, Fault, AuthorityMoves, GuestDrifts
<1>12. CASE UNCHANGED vars
  BY <1>12 DEF vars
<1>13. QED
  BY <1>1, <1>2, <1>3, <1>4, <1>5, <1>6, <1>7, <1>8, <1>9, <1>10, <1>11,
      <1>12
  DEF Next, BackendStep, HelperStep, RunnerStep

\* Every call that is waited for belongs to one waiting invocation.
LEMMA CallerStep == IInv /\ [Next]_vars => CallerInv'
<1> SUFFICES ASSUME IInv, [Next]_vars PROVE CallerInv'
  OBVIOUS
<1> USE DEF IInv, TypeOK, CallerInv
<1>1. ASSUME NEW w \in Invocations,
            StartCycle(w) \/ RevalidateOrRelease(w) \/ EvaluatePlan(w)
            \/ PrepareReturned(w) \/ ArmMutation(w) \/ CompleteMutation(w)
            \/ AbandonInvocation(w)
      PROVE CallerInv'
  BY <1>1 DEF StartCycle, Goto, Continue, RevalidateOrRelease, GateRefuses,
      GateHolds, Stop, EvaluatePlan, PrepareReturned, ArmMutation,
      CompleteMutation, AbandonInvocation
<1>2. ASSUME NEW w \in Invocations, CallTimeout(w)
      PROVE CallerInv'
  BY <1>2 DEF CallTimeout, Fault
<1>3. ASSUME NEW w \in Invocations,
            BeginMutation(w) \/ SubmitIfCurrent(w) \/ BeginSeal(w)
      PROVE CallerInv'
  BY SMTT(40), <1>3 DEF BeginMutation, Send, Goto, Stop, Continue, SubmitIfCurrent,
      BeginSeal
<1>4. ASSUME NEW w \in Invocations,
            SubmissionReturned(w) \/ InspectReturned(w) \/ SealReturned(w)
      PROVE CallerInv'
  BY <1>4 DEF SubmissionReturned, Resolve, Send, Goto, Stop, Continue,
      InspectReturned, SealReturned
<1>5. ASSUME NEW c \in Calls,
            AcquireLease(c) \/ InspectRead(c) \/ InspectProbe(c)
      PROVE CallerInv'
  BY <1>5 DEF AcquireLease, Advance, Finish, InspectRead, InspectProbe
<1>6. ASSUME NEW c \in Calls, Prepare(c) \/ Seal(c)
      PROVE CallerInv'
  BY <1>6 DEF Prepare, Finish, Seal, Journal
<1>7. ASSUME NEW c \in Calls,
            ExecuteIntent(c) \/ ExecutePrepareRunner(c)
            \/ ExecuteJournalSubmitted(c) \/ ExecuteRelease(c)
      PROVE CallerInv'
  BY <1>7 DEF ExecuteIntent, Advance, Finish, Journal, ExecutePrepareRunner,
      ExecuteJournalSubmitted, ExecuteRelease
<1>8. ASSUME NEW c \in Calls, Deliver(c)
      PROVE CallerInv'
  BY <1>8 DEF Deliver
<1>9. ASSUME NEW c \in Calls, HelperDies(c)
      PROVE CallerInv'
  BY <1>9 DEF HelperDies, Fault, Finish
<1>10. CASE RunnerStart \/ RunnerFinish \/ RunnerExit \/ RunnerLost
             \/ HostReboot
  BY <1>10 DEF RunnerStart, RunnerFinish, Journal, RunnerExit, RunnerLost,
      Fault, HostReboot
<1>11. CASE BackendRestart \/ AuthorityMoves \/ GuestDrifts
  BY <1>11 DEF BackendRestart, Fault, AuthorityMoves, GuestDrifts
<1>12. CASE UNCHANGED vars
  BY <1>12 DEF vars
<1>13. QED
  BY <1>1, <1>2, <1>3, <1>4, <1>5, <1>6, <1>7, <1>8, <1>9, <1>10, <1>11,
      <1>12
  DEF Next, InvocationStep, HelperStep, RunnerStep

\* The writer lock spans the host call made under it.
LEMMA WriterStep == IInv /\ [Next]_vars => WriterInv'
<1> SUFFICES ASSUME IInv, [Next]_vars PROVE WriterInv'
  OBVIOUS
<1> USE DEF IInv, TypeOK, WriterInv
<1>1. ASSUME NEW w \in Invocations,
            StartCycle(w) \/ RevalidateOrRelease(w) \/ EvaluatePlan(w)
            \/ PrepareReturned(w) \/ ArmMutation(w) \/ CompleteMutation(w)
            \/ AbandonInvocation(w) \/ CallTimeout(w)
      PROVE WriterInv'
  BY <1>1 DEF StartCycle, Goto, Continue, RevalidateOrRelease, GateRefuses,
      GateHolds, Stop, EvaluatePlan, PrepareReturned, ArmMutation,
      CompleteMutation, AbandonInvocation, CallTimeout, Fault
<1>2. ASSUME NEW w \in Invocations,
            BeginMutation(w) \/ SubmitIfCurrent(w) \/ SubmissionReturned(w)
            \/ InspectReturned(w) \/ BeginSeal(w) \/ SealReturned(w)
      PROVE WriterInv'
  BY <1>2 DEF BeginMutation, Send, Goto, Stop, Continue, SubmitIfCurrent,
      SubmissionReturned, Resolve, InspectReturned, BeginSeal, SealReturned
<1>3. CASE HostStep
  BY <1>3, HostEffect
<1>4. CASE BackendRestart \/ AuthorityMoves \/ GuestDrifts
  BY <1>4 DEF BackendRestart, Fault, AuthorityMoves, GuestDrifts
<1>5. CASE UNCHANGED vars
  BY <1>5 DEF vars
<1>6. QED
  BY <1>1, <1>2, <1>3, <1>4, <1>5
  DEF Next, HostStep, InvocationStep

\* The invariant holds for a job that is not armed.
LEMMA InitIInv == Init => IInv
  BY DEF Init, IInv, TypeOK, LeaseInv, LaunchInv, RunInv, JobInv, AnswerInv,
     CallerInv, WriterInv

-----------------------------------------------------------------------------
(* The theorems.                                                           *)

\* The mutation stage stays within its types.
THEOREM TypeCorrect == Spec => []TypeOK
<1>1. Init => TypeOK
  BY InitIInv DEF IInv
<1>2. QED
  BY <1>1, TypeStep, PTL DEF Spec

\* IInv is an inductive invariant of the mutation stage.
THEOREM Inductive == Spec => []IInv
<1>1. IInv /\ [Next]_vars => IInv'
  BY TypeStep, LeaseStep, LaunchStep, RunStep, JobStep, AnswerStep, CallerStep,
     WriterStep DEF IInv
<1>2. QED
  BY <1>1, InitIInv, PTL DEF Spec

\* One job's package command is started at most once, however many times the
\* backend crashes, calls time out, or the host reboots.
THEOREM AtMostOnce == Spec => []CommandRunsAtMostOnce
<1>1. IInv => CommandRunsAtMostOnce
  BY DEF IInv, RunInv, CommandRunsAtMostOnce
<1>2. QED
  BY <1>1, Inductive, PTL

\* A released job's command never ran and never will, not even by a delayed
\* submission: its seal is in the journal, or nothing was ever sent.
THEOREM ReleaseIsFinal == Spec => []ReleasedJobNeverRuns
<1>1. IInv => ReleasedJobNeverRuns
  BY DEF IInv, TypeOK, RunInv, JobInv, ReleasedJobNeverRuns
<1>2. QED
  BY <1>1, Inductive, PTL

\* The command runs only behind the write-ahead checkpoint and on evidence
\* that matched the frozen plan.
THEOREM WriteAhead == Spec => []CommandIsWriteAheadAndAccepted
<1>1. IInv => CommandIsWriteAheadAndAccepted
  BY DEF IInv, TypeOK, RunInv, JobInv, CommandIsWriteAheadAndAccepted
<1>2. QED
  BY <1>1, Inductive, PTL

\* A completed mutation rests on the proven result of the one run.
THEOREM CompletionProven == Spec => []CompletionIsProven
<1>1. IInv => CompletionIsProven
  BY DEF IInv, RunInv, JobInv, CompletionIsProven
<1>2. QED
  BY <1>1, Inductive, PTL

\* The journal never leaves a final phase and never skips one.
THEOREM JournalAdvances == Spec => JournalOnlyAdvances
<1>1. IInv /\ [Next]_vars => [JournalStep]_vars
  <2> SUFFICES ASSUME IInv, Next PROVE JournalStep
    OBVIOUS
  <2>1. ASSUME NEW w \in Invocations, BackendStep(w) PROVE JournalStep
    BY <2>1, BackendEffect DEF IInv, JournalStep
  <2>2. ASSUME NEW c \in Calls, HelperStep(c) \/ HelperDies(c) PROVE JournalStep
    BY <2>2 DEF IInv, LaunchInv, HelperStep, HelperDies, AcquireLease, Prepare,
       Seal, ExecuteIntent, ExecutePrepareRunner, ExecuteJournalSubmitted,
       ExecuteRelease, InspectRead, InspectProbe, Deliver, Journal,
       JournalStep
  <2>3. CASE RunnerStep
    BY <2>3 DEF IInv, RunInv, RunnerStep, RunnerStart, RunnerFinish, RunnerExit,
       Journal, JournalStep
  <2>4. CASE RunnerLost \/ HostReboot \/ BackendRestart \/ AuthorityMoves
             \/ GuestDrifts
    BY <2>4 DEF RunnerLost, HostReboot, BackendRestart, AuthorityMoves,
       GuestDrifts, JournalStep
  <2>5. QED
    BY <2>1, <2>2, <2>3, <2>4 DEF Next, BackendStep
<1>2. QED
  BY <1>1, Inductive, PTL DEF Spec, JournalOnlyAdvances

\* A submission whose caller waits is journaled under that caller's writer
\* lock and over a current authority.
THEOREM SubmissionUnderAuthority == Spec => SubmitUnderCurrentAuthority
<1>1. IInv => SubmitStep
  BY DEF SubmitStep, IInv, TypeOK, LeaseInv, CallerInv, WriterInv
<1>2. QED
  BY <1>1, Inductive, PTL DEF SubmitUnderCurrentAuthority

-----------------------------------------------------------------------------
(* Refinement: the stage is one host operation.                            *)

\* The abstract stage and effect, case by case.
LEMMA StageCases ==
  ASSUME TypeOK
  PROVE  /\ status # "active" => OperationStage = "closed"
         /\ status = "active" =>
              /\ checkpoint = "mutation_completed" => OperationStage = "confirmed"
              /\ checkpoint = "snapshot_confirmed" => OperationStage = "open"
              /\ checkpoint \notin {"mutation_completed", "snapshot_confirmed"}
                   => OperationStage = "armed"
  BY DEF OperationStage, TypeOK

\* The abstract effect, read from command count and journal.
LEMMA EffectCases ==
  ASSUME TypeOK
  PROVE  /\ runs = 0 => OperationEffect = "none"
         /\ runs = 1 =>
              /\ phase = "terminal_success" /\ post = "proven"
                   => OperationEffect = "achieved"
              /\ phase \in TerminalPhases /\ post # "proven"
                   => OperationEffect = "failed"
              /\ phase \notin TerminalPhases => OperationEffect = "started"
  BY DEF OperationEffect, TypeOK

\* While the command may start or is running, the job is armed.
LEMMA SubmittedIsArmed ==
  ASSUME IInv, phase = "submitted" PROVE OperationStage = "armed"
<1>1. checkpoint \notin {"mutation_completed", "snapshot_confirmed"}
  BY DEF IInv, JobInv, RunInv
<1>2. status = "active"
  BY <1>1 DEF IInv, TypeOK, JobInv
<1>3. QED
  BY <1>1, <1>2, StageCases DEF IInv

\* What a step of the backend may do to the row.
RowStep ==
    \/ UNCHANGED <<status, checkpoint>>
    \/ status # "active" /\ status' # "active" /\ UNCHANGED checkpoint
    \/ /\ status = "active" /\ status' # "active"
       /\ UNCHANGED checkpoint
       /\ checkpoint = "snapshot_confirmed" \/ phase = "sealed_not_submitted"
    \/ /\ status = "active" /\ UNCHANGED status
       /\ checkpoint = "snapshot_confirmed"
       /\ checkpoint' = "mutation_may_have_started"
    \/ /\ status = "active" /\ UNCHANGED status
       /\ checkpoint = "mutation_may_have_started"
       /\ checkpoint' = "mutation_completed"

\* All a backend step may do to the row.
LEMMA BackendRow ==
  ASSUME IInv, NEW w \in Invocations, BackendStep(w) PROVE RowStep
<1> USE DEF RowStep
<1>1. CASE \/ StartCycle(w) \/ EvaluatePlan(w) \/ PrepareReturned(w)
           \/ AbandonInvocation(w) \/ CallTimeout(w) \/ BeginMutation(w)
           \/ SubmitIfCurrent(w) \/ SubmissionReturned(w) \/ InspectReturned(w)
  BY <1>1 DEF StartCycle, EvaluatePlan, PrepareReturned, AbandonInvocation,
     CallTimeout, BeginMutation, SubmitIfCurrent, SubmissionReturned,
     InspectReturned, Resolve, GateRefuses, GateHolds, Send, Goto, Stop, Continue
<1>2. CASE RevalidateOrRelease(w)
  BY <1>2 DEF RevalidateOrRelease, GateRefuses, GateHolds, Goto, Stop, Continue
<1>3. CASE ArmMutation(w)
  BY <1>3 DEF ArmMutation, GateRefuses, GateHolds, Goto, Stop, Continue
<1>4. CASE BeginSeal(w)
  BY <1>4 DEF BeginSeal
<1>5. CASE SealReturned(w)
  BY <1>5 DEF SealReturned, IInv, AnswerInv
<1>6. CASE CompleteMutation(w)
  BY <1>6 DEF CompleteMutation, Goto, Stop, Continue
<1>7. QED
  BY <1>1, <1>2, <1>3, <1>4, <1>5, <1>6 DEF BackendStep, InvocationStep

\* A row step over an untouched host is a step of the abstract operation.
LEMMA RowRefines ==
  ASSUME IInv, IInv', RowStep, UNCHANGED <<journal, runs>>
  PROVE  [Operation!Next]_<<OperationStage, OperationEffect>>
<1>1. OperationEffect' = OperationEffect
  BY DEF OperationEffect
<1>2. CASE UNCHANGED <<status, checkpoint>>
  BY <1>1, <1>2 DEF OperationStage
<1>3. CASE status # "active" /\ status' # "active" /\ UNCHANGED checkpoint
  BY <1>1, <1>3 DEF OperationStage
<1>4. CASE /\ status = "active" /\ status' # "active"
           /\ UNCHANGED checkpoint
           /\ checkpoint = "snapshot_confirmed" \/ phase = "sealed_not_submitted"
  <2>1. phase \in {"absent", "sealed_not_submitted"}
    BY <1>4 DEF IInv, JobInv
  <2>2. OperationEffect = "none"
    BY <2>1, EffectCases DEF IInv, RunInv
  <2>3. checkpoint # "mutation_completed"
    BY <2>1 DEF IInv, JobInv, RunInv
  <2>4. OperationStage \in {"open", "armed"}
    BY <1>4, <2>3, StageCases DEF IInv
  <2>5. OperationStage' = "closed"
    BY <1>4 DEF OperationStage
  <2>6. QED
    BY <1>1, <2>2, <2>4, <2>5 DEF Operation!Next, Operation!Close
<1>5. CASE /\ status = "active" /\ UNCHANGED status
           /\ checkpoint = "snapshot_confirmed"
           /\ checkpoint' = "mutation_may_have_started"
  <2>1. OperationStage = "open" /\ OperationStage' = "armed"
    BY <1>5 DEF OperationStage
  <2>2. QED
    BY <1>1, <2>1 DEF Operation!Next, Operation!Arm
<1>6. CASE /\ status = "active" /\ UNCHANGED status
           /\ checkpoint = "mutation_may_have_started"
           /\ checkpoint' = "mutation_completed"
  <2>1. OperationStage = "armed" /\ OperationStage' = "confirmed"
    BY <1>6 DEF OperationStage
  <2>2. post = "proven" /\ phase = "terminal_success" /\ runs = 1
    BY <1>6 DEF IInv, JobInv, RunInv
  <2>3. OperationEffect = "achieved"
    BY <2>2, EffectCases DEF IInv
  <2>4. QED
    BY <1>1, <2>1, <2>3 DEF Operation!Next, Operation!Conclude
<1>7. QED
  BY <1>2, <1>3, <1>4, <1>5, <1>6 DEF RowStep

\* What a step of the host may do to the journal and the command.
CommandStep ==
    \/ UNCHANGED <<phase, post, runs>>
    \/ UNCHANGED runs /\ runs = 0
    \/ /\ phase = "submitted" /\ runs = 0 /\ runs' = 1
       /\ UNCHANGED <<phase, post>>
    \/ /\ phase = "submitted" /\ runs = 1 /\ phase' \in TerminalPhases
       /\ UNCHANGED runs

\* All a host step may do to the command.
LEMMA HostCommand == ASSUME IInv, HostStep PROVE CommandStep
<1> USE DEF CommandStep
<1>1. ASSUME NEW c \in Calls, HelperStep(c) \/ HelperDies(c) PROVE CommandStep
  <2>1. CASE Seal(c) \/ ExecuteIntent(c)
    BY <2>1 DEF IInv, RunInv, Seal, ExecuteIntent
  <2>2. CASE ExecuteJournalSubmitted(c)
    BY <2>2 DEF IInv, LaunchInv, RunInv, ExecuteJournalSubmitted
  <2>3. CASE \/ AcquireLease(c) \/ Prepare(c) \/ ExecutePrepareRunner(c)
             \/ ExecuteRelease(c) \/ InspectRead(c) \/ InspectProbe(c)
             \/ Deliver(c) \/ HelperDies(c)
    BY <2>3 DEF AcquireLease, Prepare, ExecutePrepareRunner, ExecuteRelease,
       InspectRead, InspectProbe, Deliver, HelperDies
  <2>4. QED
    BY <1>1, <2>1, <2>2, <2>3 DEF HelperStep
<1>2. CASE RunnerStep
  BY <1>2 DEF IInv, RunInv, RunnerStep, RunnerStart, RunnerFinish, RunnerExit,
     Journal
<1>3. CASE RunnerLost \/ HostReboot
  BY <1>3 DEF RunnerLost, HostReboot
<1>4. QED
  BY <1>1, <1>2, <1>3 DEF HostStep

\* A command step under an untouched row is a step of the abstract operation.
LEMMA CommandRefines ==
  ASSUME IInv, IInv', CommandStep, UNCHANGED jobRow
  PROVE  [Operation!Next]_<<OperationStage, OperationEffect>>
<1>1. OperationStage' = OperationStage
  BY DEF OperationStage
<1>2. CASE UNCHANGED <<phase, post, runs>>
  BY <1>1, <1>2 DEF OperationEffect
<1>3. CASE UNCHANGED runs /\ runs = 0
  BY <1>1, <1>3 DEF OperationEffect
<1>4. CASE /\ phase = "submitted" /\ runs = 0 /\ runs' = 1
           /\ UNCHANGED <<phase, post>>
  <2>1. OperationEffect = "none" /\ OperationEffect' = "started"
    BY <1>4 DEF OperationEffect
  <2>2. QED
    BY <1>1, <1>4, <2>1, SubmittedIsArmed DEF Operation!Next, Operation!Start
<1>5. CASE /\ phase = "submitted" /\ runs = 1 /\ phase' \in TerminalPhases
           /\ UNCHANGED runs
  <2>1. OperationEffect = "started"
    BY <1>5 DEF OperationEffect
  <2>2. post' = "proven" => phase' = "terminal_success"
    BY DEF IInv, RunInv
  <2>3. OperationEffect' \in {"achieved", "failed"}
    BY <1>5, <2>2 DEF OperationEffect
  <2>4. QED
    BY <1>1, <1>5, <2>1, <2>3, SubmittedIsArmed
    DEF Operation!Next, Operation!Finish
<1>6. QED
  BY <1>2, <1>3, <1>4, <1>5 DEF CommandStep

\* The mutation stage implements the abstract host operation, for every number
\* of invocations, helpers and faults: armed before the command starts, started
\* once, never for a released job, completed only over a proven outcome.
THEOREM MutationRefines == Spec => ImplementsOperation
<1>1. Init => Operation!Init
  BY DEF Init, Operation!Init, OperationStage, OperationEffect
<1>2. ASSUME IInv, IInv', [Next]_vars
      PROVE  [Operation!Next]_<<OperationStage, OperationEffect>>
  <2>1. ASSUME NEW w \in Invocations, BackendStep(w)
        PROVE  [Operation!Next]_<<OperationStage, OperationEffect>>
    <3>1. UNCHANGED <<journal, runs>>
      BY <1>2, <2>1, BackendEffect DEF IInv
    <3>2. QED
      BY <1>2, <2>1, <3>1, BackendRow, RowRefines
  <2>2. CASE HostStep
    BY <1>2, <2>2, HostEffect, HostCommand, CommandRefines
  <2>3. CASE BackendRestart
    <3>1. RowStep /\ UNCHANGED <<journal, runs>>
      BY <2>3 DEF BackendRestart, RowStep
    <3>2. QED
      BY <1>2, <3>1, RowRefines
  <2>4. CASE AuthorityMoves \/ GuestDrifts \/ UNCHANGED vars
    BY <2>4 DEF AuthorityMoves, GuestDrifts, vars, OperationStage,
       OperationEffect
  <2>5. QED
    BY <1>2, <2>1, <2>2, <2>3, <2>4 DEF Next, BackendStep, HostStep
<1>3. QED
  BY <1>1, <1>2, Inductive, PTL
  DEF Spec, ImplementsOperation, Operation!Spec
=============================================================================
