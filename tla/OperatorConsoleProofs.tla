----------------------- MODULE OperatorConsoleProofs -----------------------
(***************************************************************************)
(* What Home Assistant shows and approves, for every number of resources,  *)
(* operator actions, revisions, failed requests, swaps and sessions.       *)
(***************************************************************************)
EXTENDS OperatorConsole, TLAPS

\* The answers of the two routes.
Snapshots      == UNION {AnswersOn(D, Published) : D \in SUBSET Resources}
Availabilities == UNION {AnswersOn(D, Capability) : D \in SUBSET Resources}

\* A refresh of the coordinator: where it is and what it has read.
Refreshes ==
    [pc : {"idle", "snapshot", "availability", "pair"},
     attempt : 0 .. MAX_COHERENCE_ATTEMPTS, previous : Snapshots \cup {None},
     view : Snapshots \cup {None}, avail : Availabilities \cup {None}]

\* An action of the operator: where it is, what it is about, what it read.
Actions ==
    [kind : {"none", "review", "approve", "done"},
     pc : {"idle", "fetch", "fetched", "sent", "answered"},
     resource : Resources \cup {None}, scan : Nat, review : Nat,
     view : Snapshots \cup {None}, session : Nat]

\* A session ends with a mishap, or after one: the refused token.
SessionInv ==
    /\ session \in Nat /\ mishaps \in 0 .. MaxMishaps
    /\ session <= mishaps
    /\ ~polling => session < mishaps

\* The types of what the module's type invariant leaves open.
TypeInv ==
    /\ TypeOK
    /\ \E D \in SUBSET Resources : res \in [D -> Published]
    /\ data \in Snapshots \cup {None} /\ avail \in Availabilities \cup {None}
    /\ refresh \in [Sessions -> Refreshes] /\ call \in [Calls -> Actions]
    /\ SessionInv
    /\ reviews \in Nat

\* What was read from the backend was published by it: an older revision, or
\* the present one and then exactly the present state.
WasPublished(view) ==
    /\ view # None /\ view.backend = "home"
    /\ view.rev <= rev
    /\ DOMAIN view.resources \subseteq DOMAIN res
    /\ view.rev = rev => view.resources = res

\* The coordinator in charge holds a pair exactly when its entry got past its
\* first refresh; until the platforms are set up it has announced nothing.
EntryInv ==
    /\ data # None <=> entry \in {"forwarding", "loaded"}
    /\ refresh[session].pc # "idle" => entry # "unloaded"
    /\ known = IF data = None THEN {} ELSE DOMAIN data.resources
    /\ entry # "loaded" => \A r \in Resources : entities[r] = 0

\* A refresh in flight, of the session in charge or of one that is over, has
\* read what was published; the one in charge goes on from what is held.
RefreshInv(s) ==
    /\ refresh[s].pc \in {"availability", "pair"} => WasPublished(refresh[s].view)
    /\ refresh[s].pc = "pair" => refresh[s].avail # None
    /\ s > session => refresh[s].pc = "idle"
    /\ s = session /\ refresh[s].pc # "idle" => refresh[s].previous = data
    /\ /\ s = session /\ refresh[s].pc \in {"availability", "pair"} /\ data # None
       => DOMAIN data.resources \subseteq DOMAIN refresh[s].view.resources

\* The refreshes of all sessions.
RefreshesInv == \A s \in Sessions : RefreshInv(s)

\* The pair that is held.
PairInv ==
    data # None =>
        /\ WasPublished(data)
        /\ ValidAvailability(avail, data)
        /\ ~outdated => issues = Blocked(data)

\* An approval names a plan that was shown; an action that waits for a snapshot
\* or has one knows its resource.
CallInv(c) ==
    /\ call[c].kind = "approve" => <<call[c].resource, call[c].scan>> \in shown
    /\ call[c].pc \in {"fetch", "fetched"} =>
          call[c].kind \in {"review", "approve"} /\ call[c].resource \in Resources
    /\ call[c].pc = "fetched" => call[c].view # None

\* Every reference, every approval under way and every one sent names a plan
\* that was shown for that resource.
ShownInv ==
    /\ \A r \in Resources : reviewed[r] # None => <<r, reviewed[r].scan>> \in shown
    /\ \A c \in Calls : CallInv(c)
    /\ \A m \in wire : <<m.resource, m.scan>> \in shown

\* The inductive invariant.
IInv == /\ TypeInv /\ EntryInv /\ RefreshesInv /\ PairInv /\ EntitiesOnce
        /\ ShownInv

-----------------------------------------------------------------------------
(* The answers of the backend.                                             *)

\* What a snapshot says.
LEMMA SnapshotFields ==
    ASSUME NEW v \in Snapshots
    PROVE  /\ v # None
           /\ v.backend \in {"home", "other"} /\ v.rev \in Nat
           /\ DOMAIN v.resources \subseteq Resources
           /\ \A r \in DOMAIN v.resources : v.resources[r] \in Published
BY NoneAssumption DEF Snapshots, AnswersOn

\* What an availability says.
LEMMA AvailabilityFields ==
    ASSUME NEW a \in Availabilities
    PROVE  /\ a # None
           /\ a.backend \in {"home", "other"} /\ a.rev \in Nat
           /\ DOMAIN a.resources \subseteq Resources
           /\ \A r \in DOMAIN a.resources : a.resources[r] \in Capability
BY NoneAssumption DEF Availabilities, AnswersOn

\* A snapshot that is put together from its fields.
LEMMA SnapshotIs ==
    ASSUME NEW b \in {"home", "other"}, NEW n \in Nat,
           NEW D \in SUBSET Resources, NEW f \in [D -> Published]
    PROVE  [backend |-> b, rev |-> n, resources |-> f] \in Snapshots
BY DEF Snapshots, AnswersOn

\* An availability that is put together from its fields.
LEMMA AvailabilityIs ==
    ASSUME NEW b \in {"home", "other"}, NEW n \in Nat,
           NEW D \in SUBSET Resources, NEW f \in [D -> Capability]
    PROVE  [backend |-> b, rev |-> n, resources |-> f] \in Availabilities
BY DEF Availabilities, AnswersOn

\* The routes answer with a snapshot and an availability of the present state.
LEMMA SnapshotIsTyped ==
    ASSUME TypeInv, NEW who \in {"home", "other"}
    PROVE  SnapshotOf(who) \in Snapshots
<1>1. PICK D \in SUBSET Resources : res \in [D -> Published]
  BY DEF TypeInv
<1>2. rev \in Nat
  BY DEF TypeInv, TypeOK
<1>3. CASE who = "home"
  BY <1>1, <1>2, <1>3, SnapshotIs DEF SnapshotOf
<1>4. CASE who # "home"
  <2>1. <<>> \in [{} -> Published]
    OBVIOUS
  <2>2. [backend |-> "other", rev |-> 1, resources |-> <<>>] \in Snapshots
    BY <2>1, SnapshotIs
  <2>3. QED
    BY <1>4, <2>2 DEF SnapshotOf
<1>5. QED
  BY <1>3, <1>4

\* The availability route says something of the resources there are.
LEMMA AvailabilityIsTyped ==
    ASSUME TypeInv, NEW who \in {"home", "other"}
    PROVE  AvailabilityOf(who) \in Availabilities
<1> DEFINE v == SnapshotOf(who)
           f == [r \in DOMAIN v.resources |-> Capabilities(v.resources[r])]
<1>1. v \in Snapshots
  BY SnapshotIsTyped
<1> HIDE DEF v
<1>2. /\ v.backend \in {"home", "other"} /\ v.rev \in Nat
      /\ DOMAIN v.resources \subseteq Resources
      /\ \A r \in DOMAIN v.resources : v.resources[r] \in Published
  BY <1>1, SnapshotFields
<1>3. \A r \in DOMAIN v.resources : Capabilities(v.resources[r]) \in Capability
  <2> SUFFICES ASSUME NEW p \in Published PROVE Capabilities(p) \in Capability
    BY <1>2
  <2>1. fenced \in BOOLEAN
    BY DEF TypeInv, TypeOK
  <2>2. p.approvable \in BOOLEAN
    BY DEF Published
  <2>3. (Approved(p) /\ p.configured /\ ~fenced) \in BOOLEAN
    OBVIOUS
  <2>4. QED
    BY <2>2, <2>3 DEF Capabilities, Capability
<1>4. f \in [DOMAIN v.resources -> Capability]
  BY <1>3
<1>5. AvailabilityOf(who) = [backend |-> v.backend, rev |-> v.rev, resources |-> f]
  BY DEF AvailabilityOf, v
<1> HIDE DEF f
<1>6. QED
  BY <1>2, <1>4, <1>5, AvailabilityIs

\* So does the answer that denies everything (_all_false_operator_availability).
LEMMA AllFalseIsTyped ==
    ASSUME NEW v \in Snapshots
    PROVE  AllFalse(v) \in Availabilities
<1> DEFINE f == [r \in DOMAIN v.resources |-> [approve |-> FALSE, start |-> FALSE]]
<1>1. f \in [DOMAIN v.resources -> Capability]
  BY DEF Capability
<1>2. AllFalse(v) = [backend |-> v.backend, rev |-> v.rev, resources |-> f]
  BY DEF AllFalse
<1> HIDE DEF f
<1>3. QED
  BY <1>1, <1>2, SnapshotFields, AvailabilityIs

-----------------------------------------------------------------------------
(* The backend's state only grows.                                         *)

\* The authority behind the address only publishes more: a new revision for
\* every change, and no resource disappears.
Grows == /\ rev' \in Nat /\ rev <= rev'
         /\ DOMAIN res \subseteq DOMAIN res'
         /\ rev' = rev => res' = res
         /\ \E D \in SUBSET Resources : res' \in [D -> Published]

\* What was published was published.
LEMMA PublishedStays ==
    ASSUME TypeInv, Grows, NEW v \in Snapshots, WasPublished(v)
    PROVE  /\ v # None /\ v.backend = "home" /\ v.rev <= rev'
           /\ DOMAIN v.resources \subseteq DOMAIN res'
           /\ v.rev = rev' => v.resources = res'
<1>1. v.rev \in Nat /\ rev \in Nat /\ rev' \in Nat /\ rev <= rev' /\ v.rev <= rev
  BY SnapshotFields DEF TypeInv, TypeOK, Grows, WasPublished
<1>2. v.rev = rev' => rev = rev' /\ v.rev = rev
  BY <1>1
<1>3. v.rev <= rev'
  BY <1>1
<1>4. QED
  BY <1>2, <1>3 DEF Grows, WasPublished

\* A change of one resource keeps the type.
LEMMA PublishGrows ==
    ASSUME TypeInv, NEW D \in SUBSET Resources, NEW f \in [D -> Published],
           DOMAIN res \subseteq D, Publish(f)
    PROVE  Grows
<1>1. rev \in Nat
  BY DEF TypeInv, TypeOK
<1>2. QED
  BY <1>1 DEF Publish, Grows

\* Every step of the specification.
LEMMA BackendGrows ==
    ASSUME TypeInv, [Next]_vars
    PROVE  Grows
<1> USE DEF Published
<1>1. PICK D \in SUBSET Resources : res \in [D -> Published]
  BY DEF TypeInv
<1>2. rev \in Nat
  BY DEF TypeInv, TypeOK
<1>3. UNCHANGED <<rev, res>> => Grows
  BY <1>1, <1>2 DEF Grows
<1>4. CASE ScanCompletes
  <2>1. PICK r \in DOMAIN res :
           Publish([res EXCEPT ![r].scan = @ + 1, ![r].approvable = TRUE])
    BY <1>4 DEF ScanCompletes
  <2>2. [res EXCEPT ![r].scan = @ + 1, ![r].approvable = TRUE] \in [D -> Published]
    BY <1>1, <2>1
  <2>3. QED
    BY <1>1, <2>1, <2>2, PublishGrows
<1>5. CASE PlanGoesStale
  <2>1. PICK r \in DOMAIN res : Publish([res EXCEPT ![r].approvable = FALSE])
    BY <1>5 DEF PlanGoesStale
  <2>2. [res EXCEPT ![r].approvable = FALSE] \in [D -> Published]
    BY <1>1, <2>1
  <2>3. QED
    BY <1>1, <2>1, <2>2, PublishGrows
<1>6. CASE ContractChanges
  <2>1. PICK r \in DOMAIN res : Publish([res EXCEPT ![r].configured = ~@])
    BY <1>6 DEF ContractChanges
  <2>2. [res EXCEPT ![r].configured = ~@] \in [D -> Published]
    BY <1>1, <2>1
  <2>3. QED
    BY <1>1, <2>1, <2>2, PublishGrows
<1>7. CASE ResourceAppears
  <2> DEFINE New(r) == [s \in DOMAIN res \cup {r} |->
                    IF s = r THEN [scan |-> 1, approvable |-> TRUE,
                                   approval |-> 0, configured |-> TRUE]
                    ELSE res[s]]
  <2>1. PICK r \in Resources \ DOMAIN res : Publish(New(r))
    BY <1>7 DEF ResourceAppears
  <2>2. New(r) \in [D \cup {r} -> Published]
    BY <1>1, <2>1
  <2>3. QED
    BY <1>1, <2>1, <2>2, PublishGrows
<1>8. ASSUME NEW m \in wire, ReceiveApproval(m) PROVE Grows
  <2>1. m.scan \in Nat
    BY DEF TypeInv, TypeOK
  <2>2. CASE UNCHANGED <<res, rev>>
    BY <1>3, <2>2
  <2>3. CASE /\ m.resource \in DOMAIN res
             /\ res' = [res EXCEPT ![m.resource].approval = m.scan]
             /\ rev' = rev + 1
    <3>1. res' \in [D -> Published]
      BY <1>1, <2>1, <2>3
    <3>2. QED
      BY <1>1, <1>2, <2>3, <3>1 DEF Grows
  <2>4. QED
    BY <1>8, <2>2, <2>3 DEF ReceiveApproval
<1>9. CASE FenceChanges \/ AuthorityReset \/ AuthorityRestored
  BY <1>3, <1>9 DEF FenceChanges, AuthorityReset, AuthorityRestored
<1>10. CASE StartRefresh \/ ForwardPlatforms \/ AuthFails
  BY <1>3, <1>10 DEF StartRefresh, ForwardPlatforms, AuthFails, backend
<1>11. CASE Unload \/ Reauthenticate \/ Restart
  BY <1>3, <1>11 DEF Unload, Reauthenticate, Restart, backend
<1>15. ASSUME NEW s, RefreshStep(s) \/ RequestFails(s) PROVE Grows
  BY <1>3, <1>15 DEF RefreshStep, RequestFails, FetchSnapshot,
     FetchAvailability, HandlePair, backend
<1>12. ASSUME NEW c, Operate(c) PROVE Grows
  BY <1>3, <1>12 DEF Operate, PressReview, PressApprove, FetchFresh, FetchFails,
     FinishReview, Revalidate, FinishApprove, ApproveTimesOut, CallStep, backend
<1>13. CASE UNCHANGED vars
  BY <1>3, <1>13 DEF vars, backend
<1>14. QED
  BY <1>4, <1>5, <1>6, <1>7, <1>8, <1>9, <1>10, <1>11, <1>12, <1>13, <1>15
  DEF Next, Backend

-----------------------------------------------------------------------------
(* Types, part by part.                                                    *)

\* The type invariant in parts, one per group of variables.
BackendType == /\ answering \in {"home", "other"} /\ rev \in Nat
               /\ fenced \in BOOLEAN
               /\ \E D \in SUBSET Resources : res \in [D -> Published]
SessionType == SessionInv /\ polling \in BOOLEAN
EntryType   == /\ entry \in {"unloaded", "setup", "forwarding", "loaded"}
               /\ good \in BOOLEAN /\ outdated \in BOOLEAN
PairType    == /\ data \in Snapshots \cup {None}
               /\ avail \in Availabilities \cup {None}
               /\ (data = None) = (avail = None)
ReviewType  == reviewed \in [Resources -> [scan : Nat, review : Nat] \cup {None}]
ShownType   == /\ known \subseteq Resources /\ issues \subseteq Resources
               /\ entities \in [Resources -> Nat]
RefreshType == refresh \in [Sessions -> Refreshes]
CallType    == call \in [Calls -> Actions] /\ reviews \in Nat
WireType    == wire \subseteq [resource : Resources, scan : Nat, call : Calls]

\* The parts are the whole.
LEMMA TypeParts ==
    TypeInv <=> /\ BackendType /\ SessionType /\ EntryType /\ PairType
                /\ ReviewType /\ ShownType /\ RefreshType /\ CallType /\ WireType
<1>1. ASSUME TypeInv
      PROVE  /\ BackendType /\ SessionType /\ EntryType /\ PairType
             /\ ReviewType /\ ShownType /\ RefreshType /\ CallType /\ WireType
  BY <1>1 DEF TypeInv, TypeOK, BackendType, SessionType, EntryType, PairType,
     ReviewType, ShownType, RefreshType, CallType, WireType
<1>2. ASSUME BackendType, SessionType, EntryType, PairType, ReviewType, ShownType,
             RefreshType, CallType, WireType
      PROVE  TypeInv
  <2>1. DOMAIN res \subseteq Resources /\ \A r \in DOMAIN res : res[r] \in Published
    BY <1>2 DEF BackendType
  <2>2. \A s \in Sessions :
          /\ refresh[s].pc \in {"idle", "snapshot", "availability", "pair"}
          /\ refresh[s].attempt \in 0 .. MAX_COHERENCE_ATTEMPTS
    BY <1>2 DEF RefreshType, Refreshes
  <2>3. \A c \in Calls :
          /\ call[c].kind \in {"none", "review", "approve", "done"}
          /\ call[c].pc \in {"idle", "fetch", "fetched", "sent", "answered"}
    BY <1>2 DEF CallType, Actions
  <2>4. session \in Sessions
    BY <1>2, ConsoleAssumption DEF SessionType, SessionInv, Sessions
  <2>5. QED
    BY <1>2, <2>1, <2>2, <2>3, <2>4 DEF TypeInv, TypeOK, BackendType,
       SessionType, EntryType, PairType, ReviewType, ShownType, RefreshType,
       CallType, WireType
<1>3. QED
  BY <1>1, <1>2

\* The steps of the backend leave Home Assistant alone.
LEMMA BackendFrame ==
    ASSUME Backend \/ AuthorityRestored
    PROVE  UNCHANGED <<wire, console, refresh, call, history>>
BY DEF Backend, ScanCompletes, PlanGoesStale, ContractChanges, ResourceAppears,
   FenceChanges, AuthorityReset, AuthorityRestored, Publish

\* The backend keeps its types.
LEMMA BackendTypeStep == TypeInv /\ [Next]_vars => BackendType'
<1> SUFFICES ASSUME TypeInv, [Next]_vars PROVE BackendType'
  OBVIOUS
<1>1. Grows
  BY BackendGrows
<1>2. answering' \in {"home", "other"} /\ fenced' \in BOOLEAN
  BY ZenonT(60) DEF TypeInv, TypeOK, Next, vars, backend, Backend, ScanCompletes,
     PlanGoesStale, ContractChanges, ResourceAppears, FenceChanges,
     AuthorityReset, AuthorityRestored, Publish, ReceiveApproval, RefreshStep,
     StartRefresh, FetchSnapshot, FetchAvailability, HandlePair,
     ForwardPlatforms, RequestFails, AuthFails, Unload, Reauthenticate, Restart,
     Operate, PressReview, PressApprove, FetchFresh, FetchFails, FinishReview,
     Revalidate, FinishApprove, ApproveTimesOut, CallStep
<1>3. QED
  BY <1>1, <1>2 DEF Grows, BackendType

\* Within a session.
LEMMA SessionKept ==
    ASSUME SessionType, UNCHANGED mishaps \/ Mishap, session' = session,
           polling' = polling \/ polling' = TRUE
    PROVE  SessionType'
<1>1. /\ session \in Nat /\ mishaps \in 0 .. MaxMishaps /\ session <= mishaps
      /\ ~polling => session < mishaps
  BY DEF SessionType, SessionInv
<1>2. /\ session' \in Nat /\ mishaps' \in 0 .. MaxMishaps /\ session' <= mishaps'
      /\ session < mishaps => session' < mishaps'
  BY <1>1, ConsoleAssumption DEF Mishap
<1>3. polling' \in BOOLEAN /\ (~polling' => ~polling)
  BY Zenon DEF SessionType
<1>4. QED
  BY Zenon, <1>1, <1>2, <1>3 DEF SessionType, SessionInv

\* Sessions are counted by mishaps.
LEMMA SessionStep == TypeInv /\ [Next]_vars => SessionType'
<1> SUFFICES ASSUME TypeInv, [Next]_vars PROVE SessionType'
  OBVIOUS
<1>0. SessionType
  BY TypeParts
<1>1. CASE Backend \/ AuthorityRestored
  <2>1. session' = session /\ polling' = polling
    BY <1>1, BackendFrame DEF console
  <2>2. UNCHANGED mishaps \/ Mishap
    BY <1>1 DEF Backend, ScanCompletes, PlanGoesStale, ContractChanges,
       ResourceAppears, FenceChanges, AuthorityReset, AuthorityRestored, Publish
  <2>3. QED
    BY <1>0, <2>1, <2>2, SessionKept
<1>2. ASSUME NEW m \in wire, ReceiveApproval(m) PROVE SessionType'
  BY <1>0, <1>2, SessionKept DEF ReceiveApproval, console
<1>3. CASE StartRefresh \/ ForwardPlatforms
  BY <1>0, <1>3, SessionKept DEF StartRefresh, ForwardPlatforms
<1>4. CASE AuthFails
  <2>1. session' = session /\ polling' = FALSE /\ Mishap
    BY <1>4 DEF AuthFails, RefreshFails
  <2>2. /\ session' \in Nat /\ mishaps' \in 0 .. MaxMishaps /\ session' <= mishaps'
        /\ session' < mishaps'
    BY <1>0, <2>1, ConsoleAssumption DEF SessionType, SessionInv, Mishap
  <2>3. QED
    BY Zenon, <2>1, <2>2 DEF SessionType, SessionInv
<1>5. ASSUME NEW s \in Sessions, RefreshStep(s) \/ RequestFails(s) PROVE SessionType'
  <2>1. session' = session /\ (polling' = polling \/ polling' = TRUE)
    BY <1>5 DEF RefreshStep, RequestFails, FetchSnapshot, FetchAvailability,
       HandlePair, RefreshFails, Accept, AcceptLate, console
  <2>2. UNCHANGED mishaps \/ Mishap
    BY <1>5 DEF RefreshStep, RequestFails, FetchSnapshot, FetchAvailability,
       HandlePair
  <2>3. QED
    BY <1>0, <2>1, <2>2, SessionKept
<1>6. CASE Unload \/ Restart
  <2>1. session' = session + 1 /\ polling' = TRUE /\ Mishap
    BY <1>6 DEF Unload, Restart, NewSession
  <2>2. QED
    BY <1>0, <2>1, ConsoleAssumption DEF SessionType, SessionInv, Mishap
<1>7. CASE Reauthenticate
  <2>1. session' = session + 1 /\ polling' = TRUE /\ mishaps' = mishaps /\ ~polling
    BY <1>7 DEF Reauthenticate, NewSession
  <2>2. QED
    BY <1>0, <2>1, ConsoleAssumption DEF SessionType, SessionInv
<1>8. ASSUME NEW c \in Calls, Operate(c) PROVE SessionType'
  <2>1. session' = session /\ polling' = polling
    BY <1>8 DEF Operate, PressReview, PressApprove, FetchFresh, FetchFails,
       FinishReview, Revalidate, FinishApprove, ApproveTimesOut, CallStep
  <2>2. UNCHANGED mishaps \/ Mishap
    BY <1>8 DEF Operate, PressReview, PressApprove, FetchFresh, FetchFails,
       FinishReview, Revalidate, FinishApprove, ApproveTimesOut
  <2>3. QED
    BY <1>0, <2>1, <2>2, SessionKept
<1>9. CASE UNCHANGED vars
  BY <1>0, <1>9, SessionKept DEF vars, console
<1>10. QED
  BY <1>1, <1>2, <1>3, <1>4, <1>5, <1>6, <1>7, <1>8, <1>9 DEF Next

\* Home Assistant's part of the type, apart from the sessions.
HeldType == EntryType /\ PairType /\ ShownType /\ RefreshType /\ ReviewType

\* No refresh.
LEMMA IdleTyped == Idle \in Refreshes
BY DEF Idle, Refreshes, MAX_COHERENCE_ATTEMPTS

\* A refresh ends in failure.
LEMMA FailsTyped ==
    ASSUME TypeInv, NEW s \in Sessions, NEW again, RefreshFails(s, again)
    PROVE  HeldType'
<1>1. RefreshType'
  BY IdleTyped, TypeParts DEF RefreshFails, RefreshType
<1>2. EntryType'
  BY TypeParts DEF RefreshFails, holds, EntryType
<1>3. PairType' /\ ShownType' /\ ReviewType'
  BY TypeParts DEF RefreshFails, holds, PairType, ShownType, ReviewType
<1>4. QED
  BY <1>1, <1>2, <1>3 DEF HeldType

\* A refresh of the session in charge ends in a new pair.
LEMMA AcceptTyped ==
    ASSUME TypeInv, NEW v \in Snapshots, NEW got \in Availabilities, Accept(v, got)
    PROVE  EntryType' /\ PairType' /\ ShownType' /\ ReviewType'
<1>1. DOMAIN v.resources \subseteq Resources
  BY SnapshotFields
<1>2. PairType'
  BY SnapshotFields, AvailabilityFields DEF Accept, PairType
<1>3. ShownType'
  <2>1. known' \subseteq Resources /\ issues' \subseteq Resources
    BY <1>1, TypeParts DEF Accept, PublishInventory, SyncRepairs, Blocked, ShownType
  <2>2. entities' \in [Resources -> Nat]
    BY TypeParts DEF Accept, PublishInventory, ShownType
  <2>3. QED
    BY <2>1, <2>2 DEF ShownType
<1>4. ReviewType'
  BY TypeParts DEF Accept, ReviewType
<1>5. EntryType'
  BY TypeParts DEF Accept, EntryType
<1>6. QED
  BY <1>2, <1>3, <1>4, <1>5

\* A refresh of a session that is over ends in Repairs.
LEMMA AcceptLateTyped ==
    ASSUME TypeInv, NEW v \in Snapshots, AcceptLate(v)
    PROVE  EntryType' /\ PairType' /\ ShownType' /\ ReviewType'
<1>1. DOMAIN v.resources \subseteq Resources
  BY SnapshotFields
<1>2. issues' \subseteq Resources
  BY <1>1 DEF AcceptLate, SyncRepairs, Blocked
<1>3. QED
  BY <1>2, TypeParts DEF AcceptLate, EntryType, PairType, ShownType, ReviewType

\* What a refresh that got to a pair holds.
LEMMA PairHeld ==
    ASSUME IInv, NEW s \in Sessions, refresh[s].pc \in {"availability", "pair"}
    PROVE  /\ refresh[s].view \in Snapshots
           /\ refresh[s].pc = "pair" => refresh[s].avail \in Availabilities
<1>1. RefreshInv(s) /\ refresh[s] \in Refreshes
  BY DEF IInv, RefreshesInv, TypeInv
<1>2. QED
  BY <1>1 DEF RefreshInv, WasPublished, Refreshes

\* A step of a refresh, of whichever session.
LEMMA RefreshTyped ==
    ASSUME IInv, NEW s \in Sessions, RefreshStep(s)
    PROVE  HeldType'
<1>0. TypeInv /\ HeldType
  BY TypeParts DEF IInv, HeldType
<1>r. refresh \in [Sessions -> Refreshes] /\ refresh[s] \in Refreshes
  BY <1>0 DEF HeldType, RefreshType
<1>c. ASSUME UNCHANGED console PROVE EntryType' /\ PairType' /\ ShownType' /\ ReviewType'
  BY <1>0, <1>c DEF console, holds, HeldType, EntryType, PairType, ShownType, ReviewType
<1>1. CASE FetchSnapshot(s)
  <2>1. CASE RefreshFails(s, TRUE)
    BY <1>0, <2>1, FailsTyped
  <2>2. CASE /\ refresh' = [refresh EXCEPT ![s].pc = "availability",
                                           ![s].view = SnapshotOf(answering)]
             /\ UNCHANGED console
    <3>1. SnapshotOf(answering) \in Snapshots
      BY <1>0, SnapshotIsTyped DEF TypeInv, TypeOK
    <3>2. [refresh[s] EXCEPT !.pc = "availability", !.view = SnapshotOf(answering)]
            \in Refreshes
      BY <1>r, <3>1 DEF Refreshes
    <3>3. RefreshType'
      BY <1>r, <2>2, <3>2 DEF RefreshType
    <3>4. QED
      BY <1>c, <2>2, <3>3 DEF HeldType
  <2>3. QED
    BY <1>1, <2>1, <2>2 DEF FetchSnapshot
<1>2. CASE FetchAvailability(s)
  <2>1. PICK got \in {AvailabilityOf(answering)} \cup
                  (IF Predates THEN {AllFalse(refresh[s].view)} ELSE {}) :
           refresh' = [refresh EXCEPT ![s].pc = "pair", ![s].avail = got]
    BY <1>2 DEF FetchAvailability
  <2>2. AvailabilityOf(answering) \in Availabilities
    BY <1>0, AvailabilityIsTyped DEF TypeInv, TypeOK
  <2>3. AllFalse(refresh[s].view) \in Availabilities
    BY <1>2, PairHeld, AllFalseIsTyped DEF FetchAvailability
  <2>4. got \in Availabilities
    BY <2>1, <2>2, <2>3
  <2>5. [refresh[s] EXCEPT !.pc = "pair", !.avail = got] \in Refreshes
    BY <1>r, <2>4 DEF Refreshes
  <2>6. RefreshType'
    BY <1>r, <2>1, <2>5 DEF RefreshType
  <2>7. QED
    BY <1>2, <1>c, <2>6 DEF FetchAvailability, HeldType
<1>3. CASE HandlePair(s)
  <2>1. refresh[s].view \in Snapshots /\ refresh[s].avail \in Availabilities
    BY <1>3, PairHeld DEF HandlePair
  <2>2. CASE /\ MayRetry(s)
             /\ refresh' = [refresh EXCEPT ![s] =
                    [Idle EXCEPT !.pc = "snapshot", !.attempt = refresh[s].attempt + 1,
                                 !.previous = refresh[s].previous]]
             /\ UNCHANGED console
    <3>1. refresh[s].attempt + 1 \in 0 .. MAX_COHERENCE_ATTEMPTS
      BY <1>r, <2>2 DEF MayRetry, Refreshes, MAX_COHERENCE_ATTEMPTS
    <3>2. [Idle EXCEPT !.pc = "snapshot", !.attempt = refresh[s].attempt + 1,
                       !.previous = refresh[s].previous] \in Refreshes
      BY <1>r, <3>1 DEF Idle, Refreshes
    <3>3. RefreshType'
      BY <1>r, <2>2, <3>2 DEF RefreshType
    <3>4. QED
      BY <1>c, <2>2, <3>3 DEF HeldType
  <2>3. CASE /\ refresh' = [refresh EXCEPT ![s] = Idle]
             /\ IF s = session THEN Accept(refresh[s].view, refresh[s].avail)
                ELSE AcceptLate(refresh[s].view)
    <3>1. RefreshType'
      BY <1>r, <2>3, IdleTyped DEF RefreshType
    <3>2. EntryType' /\ PairType' /\ ShownType' /\ ReviewType'
      BY <1>0, <2>1, <2>3, AcceptTyped, AcceptLateTyped
    <3>3. QED
      BY <3>1, <3>2 DEF HeldType
  <2>4. CASE RefreshFails(s, TRUE)
    BY <1>0, <2>4, FailsTyped
  <2>5. QED
    BY <1>3, <2>2, <2>3, <2>4 DEF HandlePair
<1>4. QED
  BY <1>1, <1>2, <1>3 DEF RefreshStep

\* So does what the coordinator holds, announces and remembers of reviews.
LEMMA HeldTypeStep == IInv /\ [Next]_vars => HeldType'
<1> SUFFICES ASSUME IInv, [Next]_vars PROVE HeldType'
  OBVIOUS
<1>0. TypeInv /\ HeldType /\ CallType
  BY TypeParts DEF IInv, HeldType
<1>a. ASSUME UNCHANGED <<entry, good, data, avail, known, entities, issues,
                         outdated, refresh>>,
             ReviewType'
      PROVE  HeldType'
  BY <1>0, <1>a DEF HeldType, EntryType, PairType, ShownType, RefreshType
<1>b. ASSUME UNCHANGED <<console, refresh>> PROVE HeldType'
  BY <1>0, <1>b DEF console, holds, HeldType, EntryType, PairType, ShownType,
     RefreshType, ReviewType
<1>1. CASE Backend \/ AuthorityRestored
  BY <1>1, <1>b, BackendFrame
<1>2. ASSUME NEW m \in wire, ReceiveApproval(m) PROVE HeldType'
  BY <1>2, <1>b DEF ReceiveApproval
<1>3. CASE StartRefresh
  <2>1. [Idle EXCEPT !.pc = "snapshot", !.attempt = 1, !.previous = data] \in Refreshes
    <3>1. 1 \in 0 .. MAX_COHERENCE_ATTEMPTS /\ data \in Snapshots \cup {None}
      BY <1>0 DEF MAX_COHERENCE_ATTEMPTS, HeldType, PairType
    <3>2. QED
      BY IdleTyped, <3>1 DEF Refreshes
  <2>2. RefreshType'
    BY <1>0, <1>3, <2>1 DEF StartRefresh, HeldType, RefreshType
  <2>3. EntryType'
    BY <1>0, <1>3 DEF StartRefresh, holds, HeldType, EntryType
  <2>4. QED
    BY <1>0, <1>3, <2>2, <2>3 DEF StartRefresh, holds, HeldType, PairType,
       ShownType, ReviewType
<1>4. ASSUME NEW s \in Sessions, RefreshStep(s) PROVE HeldType'
  BY <1>4, RefreshTyped
<1>5. ASSUME NEW s \in Sessions, RequestFails(s) PROVE HeldType'
  BY <1>0, <1>5, FailsTyped DEF RequestFails
<1>6. CASE AuthFails
  BY <1>0, <1>6, FailsTyped DEF AuthFails, TypeInv, TypeOK
<1>7. CASE ForwardPlatforms
  <2>1. entities' \in [Resources -> Nat]
    BY <1>0, <1>7 DEF ForwardPlatforms, HeldType, ShownType
  <2>2. QED
    BY <1>0, <1>7, <2>1 DEF ForwardPlatforms, HeldType, EntryType, PairType,
       ShownType, RefreshType, ReviewType
<1>8. ASSUME NewSession, issues' \in {{}, issues}, RefreshType' PROVE HeldType'
  BY <1>0, <1>8 DEF NewSession, HeldType, EntryType, PairType, ShownType,
     ReviewType
<1>9. CASE Unload \/ Reauthenticate
  BY <1>0, <1>8, <1>9 DEF Unload, Reauthenticate, HeldType, RefreshType
<1>10. CASE Restart
  BY <1>8, <1>10, IdleTyped DEF Restart, RefreshType
<1>11. ASSUME NEW c \in Calls, Operate(c) PROVE HeldType'
  <2>1. UNCHANGED <<entry, good, data, avail, known, entities, issues, outdated,
                    refresh>>
    BY <1>11 DEF Operate, PressReview, PressApprove, FetchFresh, FetchFails,
       FinishReview, Revalidate, FinishApprove, ApproveTimesOut, CallStep
  <2>2. ASSUME NEW x \in [scan : Nat, review : Nat] \cup {None}, Remember(c, x)
        PROVE  ReviewType'
    BY <1>0, <2>2 DEF Remember, HeldType, ReviewType
  <2>3. Forget(c) \/ UNCHANGED reviewed => ReviewType'
    BY <1>0, <2>2 DEF Forget, HeldType, ReviewType
  <2>4. CASE FinishReview(c)
    <3> DEFINE r == call[c].resource
               v == call[c].view
    <3>1. CASE UNCHANGED reviewed \/ Forget(c)
      BY <1>a, <2>1, <2>3, <3>1
    <3>2. CASE /\ r \in DOMAIN v.resources
               /\ Remember(c, [scan |-> v.resources[r].scan, review |-> reviews + 1])
      <4>1. v \in Snapshots
        BY <2>4 DEF FinishReview, IInv, ShownInv, CallInv, TypeInv, Actions
      <4>2. v.resources[r].scan \in Nat
        BY <3>2, <4>1, SnapshotFields DEF Published
      <4>3. [scan |-> v.resources[r].scan, review |-> reviews + 1]
               \in [scan : Nat, review : Nat]
        BY <1>0, <4>2 DEF CallType
      <4>4. QED
        BY <1>a, <2>1, <2>2, <3>2, <4>3
    <3>3. QED
      BY <2>4, <3>1, <3>2 DEF FinishReview
  <2>5. QED
    BY <1>11, <1>a, <2>1, <2>3, <2>4 DEF Operate, PressReview, PressApprove,
       FetchFresh, FetchFails, Revalidate, FinishApprove, ApproveTimesOut
<1>12. CASE UNCHANGED vars
  BY <1>12, <1>b DEF vars
<1>13. QED
  BY <1>1, <1>2, <1>3, <1>4, <1>5, <1>6, <1>7, <1>9, <1>10, <1>11, <1>12 DEF Next

\* An action that has not begun, or is over.
LEMMA EndsTyped ==
    ASSUME CallType, NEW c \in Calls, Ends(c)
    PROVE  call' \in [Calls -> Actions]
<1>1. [NoCall EXCEPT !.kind = "done"] =
        [kind |-> "done", pc |-> "idle", resource |-> None, scan |-> 0,
         review |-> 0, view |-> None, session |-> 0]
  BY DEF NoCall
<1>2. [NoCall EXCEPT !.kind = "done"] \in Actions
  BY <1>1 DEF Actions
<1> HIDE DEF NoCall
<1>3. QED
  BY <1>2 DEF Ends, CallType

\* So do the operator's actions and the approvals on the wire.
LEMMA CallTypeStep == IInv /\ [Next]_vars => CallType' /\ WireType'
<1> SUFFICES ASSUME IInv, [Next]_vars PROVE CallType' /\ WireType'
  OBVIOUS
<1>0. TypeInv /\ CallType /\ WireType /\ ReviewType
  BY TypeParts DEF IInv
<1>1. CASE Backend \/ AuthorityRestored
  BY <1>0, <1>1, BackendFrame DEF CallType, WireType, history
<1>2. ASSUME NEW m \in wire, ReceiveApproval(m) PROVE CallType' /\ WireType'
  <2>1. m.call \in Calls
    BY <1>0 DEF WireType
  <2>2. call' = [call EXCEPT ![m.call].pc =
                      IF call[m.call].pc = "sent" THEN "answered" ELSE call[m.call].pc]
    BY <1>2 DEF ReceiveApproval
  <2>3. call' \in [Calls -> Actions]
    BY <1>0, <2>1, <2>2 DEF CallType, Actions
  <2>4. QED
    BY <1>0, <1>2, <2>3 DEF ReceiveApproval, CallType, WireType, history
<1>3. ASSUME NEW s, RefreshStep(s) \/ RequestFails(s) PROVE CallType' /\ WireType'
  BY <1>0, <1>3 DEF RefreshStep, RequestFails, FetchSnapshot, FetchAvailability,
     HandlePair, CallType, WireType, history
<1>12. CASE StartRefresh \/ ForwardPlatforms \/ AuthFails \/ Unload \/ Reauthenticate
  BY <1>0, <1>12 DEF StartRefresh, ForwardPlatforms, AuthFails, Unload,
     Reauthenticate, CallType, WireType, history
<1>4. CASE Restart
  <2>1. [NoCall EXCEPT !.kind = "done"] \in Actions
    <3>1. [NoCall EXCEPT !.kind = "done"] =
            [kind |-> "done", pc |-> "idle", resource |-> None, scan |-> 0,
             review |-> 0, view |-> None, session |-> 0]
      BY DEF NoCall
    <3>2. QED
      BY <3>1 DEF Actions
  <2> HIDE DEF NoCall
  <2>2. call' \in [Calls -> Actions]
    BY <1>0, <1>4, <2>1 DEF Restart, CallType
  <2>3. QED
    BY <1>0, <1>4, <2>2 DEF Restart, CallType, WireType, history
<1>5. ASSUME NEW c \in Calls, NEW r \in Resources, PressReview(c, r) \/ PressApprove(c, r)
      PROVE  CallType' /\ WireType'
  <2>0. NoCall \in Actions
    BY DEF NoCall, Actions
  <2>s. session \in Nat
    BY <1>0 DEF TypeInv, SessionInv
  <2>1. CASE PressReview(c, r)
    <3> DEFINE a == [NoCall EXCEPT !.kind = "review", !.pc = "fetch",
                        !.resource = r, !.session = session]
    <3>1. call' = [call EXCEPT ![c] = a]
      BY <2>1 DEF PressReview
    <3>2. a \in Actions
      BY <2>0, <2>s DEF Actions
    <3> HIDE DEF a
    <3>3. call' \in [Calls -> Actions]
      BY <1>0, <3>1, <3>2 DEF CallType
    <3>4. QED
      BY <1>0, <2>1, <3>3 DEF PressReview, CallType, WireType, history
  <2>2. CASE PressApprove(c, r)
    <3> DEFINE a == [NoCall EXCEPT !.kind = "approve", !.pc = "fetch",
                        !.resource = r, !.scan = reviewed[r].scan,
                        !.review = reviewed[r].review, !.session = session]
    <3>1. call' = [call EXCEPT ![c] = a]
      BY <2>2 DEF PressApprove
    <3>2. reviewed[r].scan \in Nat /\ reviewed[r].review \in Nat
      BY <1>0, <2>2 DEF PressApprove, ReviewType
    <3>3. a \in Actions
      BY <2>0, <2>s, <3>2 DEF Actions
    <3> HIDE DEF a
    <3>4. call' \in [Calls -> Actions]
      BY <1>0, <3>1, <3>3 DEF CallType
    <3>5. QED
      BY <1>0, <2>2, <3>4 DEF PressApprove, CallType, WireType, history
  <2>3. QED
    BY <1>5, <2>1, <2>2
<1>6. ASSUME NEW c \in Calls, FetchFresh(c) PROVE CallType' /\ WireType'
  <2>1. SnapshotOf(answering) \in Snapshots
    BY <1>0, SnapshotIsTyped DEF TypeInv, TypeOK
  <2>2. call' \in [Calls -> Actions]
    BY ZenonT(60), <1>0, <1>6, <2>1 DEF FetchFresh, CallType, Actions
  <2>3. QED
    BY <1>0, <1>6, <2>2 DEF FetchFresh, CallType, WireType, history
<1>7. ASSUME NEW c \in Calls, Ends(c), reviews' \in Nat,
             UNCHANGED wire \/ wire' \subseteq wire
      PROVE  CallType' /\ WireType'
  BY <1>0, <1>7, EndsTyped DEF CallType, WireType
<1>8. ASSUME NEW c \in Calls, \/ FetchFails(c) \/ FinishReview(c)
                              \/ FinishApprove(c) \/ ApproveTimesOut(c)
      PROVE  CallType' /\ WireType'
  <2>1. reviews' \in Nat
    BY <1>0, <1>8 DEF FetchFails, FinishReview, FinishApprove, ApproveTimesOut,
       history, CallType
  <2>2. UNCHANGED wire \/ wire' \subseteq wire
    BY <1>8 DEF FetchFails, FinishReview, FinishApprove, ApproveTimesOut
  <2>3. Ends(c)
    BY <1>8 DEF FetchFails, FinishReview, FinishApprove, ApproveTimesOut
  <2>4. QED
    BY <1>7, <2>1, <2>2, <2>3
<1>9. ASSUME NEW c \in Calls, Revalidate(c) PROVE CallType' /\ WireType'
  <2>1. reviews' \in Nat
    BY <1>0, <1>9 DEF Revalidate, history, CallType
  <2>2. CASE Ends(c) /\ UNCHANGED wire
    BY <1>7, <2>1, <2>2
  <2>3. CASE /\ wire' = wire \cup {ApprovalOf(c)}
             /\ call' = [call EXCEPT ![c].pc = "sent", ![c].view = None]
    <3>1. call' \in [Calls -> Actions]
      BY ZenonT(60), <1>0, <2>3 DEF CallType, Actions
    <3>2. call[c].resource \in Resources /\ call[c].scan \in Nat
      BY <1>0, <1>9 DEF Revalidate, IInv, ShownInv, CallInv, CallType, Actions
    <3>3. ApprovalOf(c) \in [resource : Resources, scan : Nat, call : Calls]
      BY <3>2 DEF ApprovalOf
    <3>4. QED
      BY <1>0, <2>1, <2>3, <3>1, <3>3 DEF CallType, WireType
  <2>4. QED
    BY <1>9, <2>2, <2>3 DEF Revalidate
<1>10. CASE UNCHANGED vars
  BY <1>0, <1>10 DEF vars, CallType, WireType, history
<1>11. QED
  BY <1>1, <1>2, <1>3, <1>4, <1>5, <1>6, <1>8, <1>9, <1>10, <1>12 DEF Next, Operate

\* Together: every step preserves the types.
LEMMA TypeStep == IInv /\ [Next]_vars => TypeInv'
<1> SUFFICES ASSUME IInv, [Next]_vars PROVE TypeInv'
  OBVIOUS
<1>1. /\ BackendType' /\ SessionType' /\ HeldType' /\ CallType' /\ WireType'
  BY BackendTypeStep, SessionStep, HeldTypeStep, CallTypeStep DEF IInv
<1>2. (/\ BackendType /\ SessionType /\ EntryType /\ PairType
       /\ ReviewType /\ ShownType /\ RefreshType /\ CallType /\ WireType)'
  BY <1>1 DEF HeldType
<1>3. QED
  BY <1>2, TypeParts, PTL

-----------------------------------------------------------------------------
(* What the coordinator holds.                                             *)

\* The parts of the invariant about what the coordinator holds.
Held == EntryInv /\ RefreshesInv /\ PairInv /\ EntitiesOnce

\* What the invariant says where a proof only needs the session in charge.
LEMMA InCharge ==
    ASSUME IInv
    PROVE  /\ session \in Sessions /\ session \in Nat /\ Sessions \subseteq Nat
           /\ refresh \in [Sessions -> Refreshes] /\ RefreshInv(session)
BY ConsoleAssumption DEF IInv, TypeInv, TypeOK, Sessions, RefreshesInv

\* A held pair stays a published one, whatever the backend goes on to publish.
LEMMA PairStays ==
    ASSUME IInv, Grows, UNCHANGED <<data, avail>>,
           \/ UNCHANGED <<issues, outdated>>
           \/ outdated' = TRUE
    PROVE  PairInv'
<1>1. ASSUME data # None PROVE WasPublished(data)'
  BY <1>1, PublishedStays DEF IInv, TypeInv, PairInv, WasPublished
<1>2. ASSUME data # None PROVE ValidAvailability(avail, data)'
  BY <1>2 DEF IInv, PairInv, ValidAvailability
<1>3. ASSUME data # None, ~outdated' PROVE (issues = Blocked(data))'
  BY <1>3 DEF IInv, PairInv, Blocked
<1>4. QED
  BY <1>1, <1>2, <1>3 DEF PairInv

\* So does what a refresh has read, if it does nothing or ends.
LEMMA RefreshStays ==
    ASSUME IInv, Grows, NEW s \in Sessions,
           refresh'[s] = refresh[s] \/ refresh'[s].pc = "idle",
           session' = session,
           s = session /\ refresh'[s].pc # "idle" => data' = data
    PROVE  RefreshInv(s)'
<1>1. RefreshInv(s)
  BY DEF IInv, RefreshesInv
<1>2. CASE refresh'[s].pc = "idle"
  BY <1>2 DEF RefreshInv
<1>3. CASE refresh'[s] = refresh[s] /\ refresh'[s].pc # "idle"
  <2>1. ASSUME refresh[s].pc \in {"availability", "pair"}
        PROVE  WasPublished(refresh[s].view)'
    <3>1. refresh[s].view \in Snapshots /\ WasPublished(refresh[s].view)
      BY <1>1, <2>1, PairHeld DEF RefreshInv
    <3>2. QED
      BY <1>3, <3>1, PublishedStays DEF IInv, WasPublished
  <2>2. QED
    BY <1>1, <1>3, <2>1 DEF RefreshInv
<1>4. QED
  BY <1>2, <1>3

\* Steps that leave the coordinator alone.
LEMMA QuietStep ==
    ASSUME IInv, Grows,
           UNCHANGED <<session, entry, data, avail, known, entities, issues,
                       outdated, refresh>>
    PROVE  Held'
<1>1. EntryInv' /\ EntitiesOnce'
  BY DEF IInv, EntryInv, EntitiesOnce
<1>2. RefreshesInv'
  BY RefreshStays DEF RefreshesInv
<1>3. PairInv'
  BY PairStays
<1>4. QED
  BY <1>1, <1>2, <1>3 DEF Held

\* One refresh ends and nothing is shown of it.
LEMMA EndsHeld ==
    ASSUME IInv, Grows, NEW s \in Sessions, refresh[s].pc # "idle",
           refresh' = [refresh EXCEPT ![s] = Idle],
           UNCHANGED <<session, data, avail, known, entities>>,
           \/ UNCHANGED <<issues, outdated>>
           \/ outdated' = TRUE,
           \/ entry' = entry
           \/ s = session /\ entry = "setup" /\ entry' = "unloaded"
    PROVE  Held'
<1>1. /\ refresh'[s].pc = "idle"
      /\ \A q \in Sessions : q # s => refresh'[q] = refresh[q]
  BY InCharge DEF Idle
<1>2. EntryInv'
  BY <1>1, InCharge DEF IInv, EntryInv
<1>3. EntitiesOnce'
  BY DEF IInv, EntitiesOnce
<1>4. RefreshesInv'
  BY <1>1, RefreshStays DEF RefreshesInv
<1>5. PairInv'
  BY PairStays
<1>6. QED
  BY <1>2, <1>3, <1>4, <1>5 DEF Held

\* A refresh that fails gives up a setup, and nothing else.
LEMMA FailsHeld ==
    ASSUME IInv, Grows, NEW s \in Sessions, NEW again, RefreshFails(s, again),
           refresh[s].pc # "idle"
    PROVE  Held'
BY EndsHeld DEF RefreshFails, holds

\* A new pair: the resources it adds are announced once.
LEMMA AcceptHeld ==
    ASSUME IInv, Grows, refresh[session].pc = "pair",
           ValidAvailability(refresh[session].avail, refresh[session].view),
           refresh' = [refresh EXCEPT ![session] = Idle],
           Accept(refresh[session].view, refresh[session].avail)
    PROVE  Held'
<1> DEFINE v == refresh[session].view
<1>0. session \in Sessions /\ RefreshInv(session) /\ refresh \in [Sessions -> Refreshes]
  BY InCharge
<1>1. v \in Snapshots /\ WasPublished(v)
  BY <1>0, PairHeld DEF RefreshInv
<1>2. v # None /\ DOMAIN v.resources \subseteq Resources
  BY <1>1, SnapshotFields
<1>3. /\ data' = v /\ session' = session /\ refresh'[session].pc = "idle"
      /\ \A q \in Sessions : q # session => refresh'[q] = refresh[q]
  BY <1>0 DEF Accept, Idle
<1>4. /\ entry \in {"setup", "forwarding", "loaded"}
      /\ entry' = IF entry = "setup" THEN "forwarding" ELSE entry
  BY DEF IInv, EntryInv, Accept, TypeInv, TypeOK
<1>5. known = IF data = None THEN {} ELSE DOMAIN data.resources
  BY DEF IInv, EntryInv
<1>6. data # None => DOMAIN data.resources \subseteq DOMAIN v.resources
  BY <1>0 DEF RefreshInv
<1>7. EntryInv'
  <2>1. known' = DOMAIN v.resources
    BY <1>5, <1>6 DEF Accept, PublishInventory
  <2>2. entry' # "loaded" => \A r \in Resources : entities'[r] = 0
    BY <1>4 DEF Accept, PublishInventory, IInv, EntryInv
  <2>3. QED
    BY <1>2, <1>3, <1>4, <2>1, <2>2 DEF EntryInv
<1>8. EntitiesOnce'
  <2> SUFFICES ASSUME entry' = "loaded", NEW r \in Resources
               PROVE  entities'[r] = IF r \in DOMAIN v.resources THEN 1 ELSE 0
    BY <1>3 DEF EntitiesOnce
  <2>1. entry = "loaded" /\ data # None
    BY <1>4 DEF IInv, EntryInv
  <2>2. entities[r] = IF r \in DOMAIN data.resources THEN 1 ELSE 0
    BY <2>1 DEF IInv, EntitiesOnce
  <2>3. entities'[r] = IF r \in DOMAIN v.resources \ known
                       THEN entities[r] + 1 ELSE entities[r]
    BY <2>1 DEF Accept, PublishInventory
  <2>4. QED
    BY <1>5, <1>6, <2>1, <2>2, <2>3
<1>9. RefreshesInv'
  BY <1>3, RefreshStays DEF RefreshesInv
<1>10. PairInv'
  <2>1. WasPublished(data)'
    BY <1>1, <1>3, PublishedStays DEF IInv, WasPublished
  <2>2. ValidAvailability(avail, data)' /\ issues' = Blocked(data)'
    BY DEF Accept, SyncRepairs, ValidAvailability, Blocked
  <2>3. QED
    BY <2>1, <2>2 DEF PairInv
<1>11. QED
  BY <1>7, <1>8, <1>9, <1>10 DEF Held

\* A refresh goes on, and has read no more than what was published.
LEMMA GoesOn ==
    ASSUME IInv, Grows, NEW s \in Sessions, NEW x \in Refreshes,
           refresh[s].pc # "idle", refresh' = [refresh EXCEPT ![s] = x],
           UNCHANGED console,
           x.previous = refresh[s].previous,
           x.pc \in {"availability", "pair"} =>
               /\ WasPublished(x.view)
               /\ s = session /\ data # None =>
                     DOMAIN data.resources \subseteq DOMAIN x.view.resources,
           x.pc = "pair" => x.avail # None
    PROVE  Held'
<1>0. /\ RefreshInv(s) /\ refresh \in [Sessions -> Refreshes]
      /\ UNCHANGED <<session, entry, data, avail, known, entities, issues, outdated>>
  BY InCharge DEF IInv, RefreshesInv, console, holds
<1>1. refresh'[s] = x /\ \A q \in Sessions : q # s => refresh'[q] = refresh[q]
  BY <1>0
<1>2. EntryInv' /\ EntitiesOnce'
  BY <1>0, <1>1, InCharge DEF IInv, EntryInv, EntitiesOnce
<1>3. PairInv'
  BY <1>0, PairStays
<1>4. RefreshInv(s)'
  <2>1. ASSUME x.pc \in {"availability", "pair"} PROVE WasPublished(refresh[s].view)'
    <3>1. x.view \in Snapshots /\ WasPublished(x.view)
      BY <2>1 DEF WasPublished, Refreshes
    <3>2. QED
      BY <1>1, <3>1, PublishedStays DEF IInv, WasPublished
  <2>2. ~(s > session) /\ (s = session => x.previous = data)
    BY <1>0 DEF RefreshInv
  <2>3. QED
    BY <1>0, <1>1, <2>1, <2>2 DEF RefreshInv
<1>5. RefreshesInv'
  BY <1>0, <1>1, <1>4, RefreshStays DEF RefreshesInv
<1>6. QED
  BY <1>2, <1>3, <1>5 DEF Held

\* The four parts are preserved by a step of a refresh.
LEMMA RefreshHeld ==
    ASSUME IInv, Grows, NEW s \in Sessions, RefreshStep(s)
    PROVE  Held'
<1>0. /\ RefreshInv(s) /\ refresh \in [Sessions -> Refreshes] /\ TypeInv
      /\ refresh[s] \in Refreshes
  BY InCharge DEF IInv, RefreshesInv
<1>1. CASE FetchSnapshot(s)
  <2> DEFINE v == SnapshotOf(answering)
             x == [refresh[s] EXCEPT !.pc = "availability", !.view = v]
  <2>1. CASE RefreshFails(s, TRUE)
    BY <1>1, <2>1, FailsHeld DEF FetchSnapshot
  <2>2. CASE /\ OwnBackend(v) /\ ValidSuccessor(v, refresh[s].previous)
             /\ refresh' = [refresh EXCEPT ![s].pc = "availability", ![s].view = v]
             /\ UNCHANGED console
    <3>1. v \in Snapshots
      BY <1>0, SnapshotIsTyped DEF TypeInv, TypeOK
    <3>2. v = [backend |-> "home", rev |-> rev, resources |-> res] /\ rev \in Nat
      BY <1>0, <2>2 DEF OwnBackend, SnapshotOf, TypeInv, TypeOK
    <3> HIDE DEF v
    <3>3. WasPublished(v)
      BY <3>1, <3>2, SnapshotFields DEF WasPublished
    <3>4. /\ x \in Refreshes /\ x.pc = "availability" /\ x.view = v
          /\ x.previous = refresh[s].previous
      BY <1>0, <3>1 DEF Refreshes
    <3>5. refresh' = [refresh EXCEPT ![s] = x]
      BY <2>2
    <3>6. s = session /\ data # None => DOMAIN data.resources \subseteq DOMAIN v.resources
      BY <1>0, <1>1, <2>2 DEF FetchSnapshot, RefreshInv, ValidSuccessor
    <3>7. refresh[s].pc # "idle"
      BY <1>1 DEF FetchSnapshot
    <3> HIDE DEF x
    <3>8. QED
      BY <2>2, <3>3, <3>4, <3>5, <3>6, <3>7, GoesOn
  <2>3. QED
    BY <1>1, <2>1, <2>2 DEF FetchSnapshot
<1>2. CASE FetchAvailability(s)
  <2>1. PICK got \in {AvailabilityOf(answering)} \cup
                  (IF Predates THEN {AllFalse(refresh[s].view)} ELSE {}) :
           refresh' = [refresh EXCEPT ![s].pc = "pair", ![s].avail = got]
    BY <1>2 DEF FetchAvailability
  <2> DEFINE x == [refresh[s] EXCEPT !.pc = "pair", !.avail = got]
  <2>2. got \in Availabilities
    <3>1. AvailabilityOf(answering) \in Availabilities
      BY <1>0, AvailabilityIsTyped DEF TypeInv, TypeOK
    <3>2. AllFalse(refresh[s].view) \in Availabilities
      BY <1>2, PairHeld, AllFalseIsTyped DEF FetchAvailability
    <3>3. QED
      BY <2>1, <3>1, <3>2
  <2>3. got # None
    BY <2>2, AvailabilityFields
  <2>4. /\ x \in Refreshes /\ x.pc = "pair" /\ x.view = refresh[s].view
        /\ x.avail = got /\ x.previous = refresh[s].previous
    BY <1>0, <2>2 DEF Refreshes
  <2>5. refresh' = [refresh EXCEPT ![s] = x]
    BY <2>1
  <2>6. /\ WasPublished(refresh[s].view) /\ refresh[s].pc # "idle"
        /\ s = session /\ data # None =>
              DOMAIN data.resources \subseteq DOMAIN refresh[s].view.resources
    BY <1>0, <1>2 DEF FetchAvailability, RefreshInv
  <2>7. UNCHANGED console
    BY <1>2 DEF FetchAvailability
  <2> HIDE DEF x
  <2>8. QED
    BY <2>3, <2>4, <2>5, <2>6, <2>7, GoesOn
<1>3. CASE HandlePair(s)
  <2>1. CASE /\ MayRetry(s)
             /\ refresh' = [refresh EXCEPT ![s] =
                    [Idle EXCEPT !.pc = "snapshot", !.attempt = refresh[s].attempt + 1,
                                 !.previous = refresh[s].previous]]
             /\ UNCHANGED console
    <3> DEFINE x == [Idle EXCEPT !.pc = "snapshot", !.attempt = refresh[s].attempt + 1,
                                 !.previous = refresh[s].previous]
    <3>1. refresh[s].attempt + 1 \in 0 .. MAX_COHERENCE_ATTEMPTS
      BY <1>0, <2>1 DEF MayRetry, Refreshes, MAX_COHERENCE_ATTEMPTS
    <3>2. x \in Refreshes /\ x.pc = "snapshot" /\ x.previous = refresh[s].previous
      BY <1>0, <3>1 DEF Idle, Refreshes
    <3>3. refresh[s].pc # "idle" /\ refresh' = [refresh EXCEPT ![s] = x]
      BY <1>3, <2>1 DEF HandlePair
    <3> HIDE DEF x
    <3>4. QED
      BY <2>1, <3>2, <3>3, GoesOn
  <2>2. CASE /\ ValidAvailability(refresh[s].avail, refresh[s].view)
             /\ refresh' = [refresh EXCEPT ![s] = Idle]
             /\ s = session /\ Accept(refresh[s].view, refresh[s].avail)
    BY <1>3, <2>2, AcceptHeld DEF HandlePair
  <2>3. CASE /\ refresh' = [refresh EXCEPT ![s] = Idle]
             /\ s # session /\ AcceptLate(refresh[s].view)
    BY <1>3, <2>3, EndsHeld DEF HandlePair, AcceptLate
  <2>4. CASE RefreshFails(s, TRUE)
    BY <1>3, <2>4, FailsHeld DEF HandlePair
  <2>5. QED
    BY <1>3, <2>1, <2>2, <2>3, <2>4 DEF HandlePair
<1>4. QED
  BY <1>1, <1>2, <1>3 DEF RefreshStep

\* The entry is set up anew: what the former session has in flight goes on.
LEMMA NewSessionHeld ==
    ASSUME IInv, Grows, NewSession, session' \in Sessions,
           refresh' = refresh \/ refresh' = [s \in Sessions |-> Idle]
    PROVE  Held'
<1>0. /\ session \in Nat /\ session' = session + 1 /\ Sessions \subseteq Nat
      /\ data' = None /\ entry' = "unloaded"
  BY InCharge DEF NewSession
<1>1. \A s \in Sessions : refresh'[s] = refresh[s] \/ refresh'[s].pc = "idle"
  BY DEF Idle
<1>2. \A s \in Sessions : s > session => refresh'[s].pc = "idle"
  BY <1>1 DEF IInv, RefreshesInv, RefreshInv
<1>3. EntryInv' /\ PairInv' /\ EntitiesOnce'
  BY <1>0, <1>2 DEF NewSession, EntryInv, PairInv, EntitiesOnce
<1>4. ASSUME NEW s \in Sessions PROVE RefreshInv(s)'
  <2>1. CASE refresh'[s].pc = "idle"
    BY <2>1 DEF RefreshInv
  <2>2. CASE refresh'[s] = refresh[s] /\ refresh'[s].pc # "idle"
    <3>1. RefreshInv(s) /\ s \in Nat /\ ~(s > session)
      BY <1>0, <1>2, <2>2 DEF IInv, RefreshesInv
    <3>2. s # session' /\ ~(s > session')
      BY <1>0, <3>1
    <3>3. ASSUME refresh[s].pc \in {"availability", "pair"}
          PROVE  WasPublished(refresh[s].view)'
      <4>1. refresh[s].view \in Snapshots /\ WasPublished(refresh[s].view)
        BY <3>1, <3>3, PairHeld DEF RefreshInv
      <4>2. QED
        BY <2>2, <4>1, PublishedStays DEF IInv, WasPublished
    <3>4. QED
      BY <2>2, <3>1, <3>2, <3>3 DEF RefreshInv
  <2>3. QED
    BY <1>1, <2>1, <2>2
<1>5. QED
  BY <1>3, <1>4 DEF Held, RefreshesInv

\* The four parts are preserved.
LEMMA HeldStep == IInv /\ [Next]_vars => Held'
<1> SUFFICES ASSUME IInv, [Next]_vars PROVE Held'
  OBVIOUS
<1>0. Grows /\ TypeInv /\ SessionType'
  BY BackendGrows, SessionStep DEF IInv
<1>1. CASE Backend \/ AuthorityRestored
  BY <1>0, <1>1, BackendFrame, QuietStep DEF console, holds
<1>2. ASSUME NEW m \in wire, ReceiveApproval(m) PROVE Held'
  BY <1>0, <1>2, QuietStep DEF ReceiveApproval, console, holds
<1>3. CASE StartRefresh
  <2>1. /\ session \in Sessions /\ refresh \in [Sessions -> Refreshes]
        /\ session \in Nat
    BY InCharge
  <2>2. UNCHANGED <<session, data, avail, known, entities, issues, outdated>>
    BY <1>3 DEF StartRefresh, holds
  <2>3. /\ refresh'[session].pc = "snapshot" /\ refresh'[session].previous = data
        /\ \A q \in Sessions : q # session => refresh'[q] = refresh[q]
    BY <1>3, <2>1 DEF StartRefresh, Idle
  <2>4. EntryInv' /\ EntitiesOnce'
    BY <1>3, <2>2, <2>3 DEF StartRefresh, IInv, EntryInv, EntitiesOnce
  <2>5. RefreshInv(session)'
    BY <2>1, <2>2, <2>3 DEF RefreshInv
  <2>6. \A q \in Sessions : q # session => RefreshInv(q)'
    BY <1>0, <2>2, <2>3, RefreshStays
  <2>7. RefreshesInv'
    BY <2>2, <2>5, <2>6 DEF RefreshesInv, RefreshInv
  <2>8. PairInv'
    BY <1>0, <2>2, PairStays
  <2>9. QED
    BY <2>4, <2>7, <2>8 DEF Held
<1>4. ASSUME NEW s \in Sessions, RefreshStep(s) PROVE Held'
  BY <1>0, <1>4, RefreshHeld
<1>5. ASSUME NEW s \in Sessions, RequestFails(s) PROVE Held'
  BY <1>0, <1>5, FailsHeld DEF RequestFails
<1>6. CASE AuthFails
  BY <1>0, <1>6, InCharge, FailsHeld DEF AuthFails
<1>7. CASE ForwardPlatforms
  <2>1. data # None /\ \A r \in Resources : entities[r] = 0
    BY <1>0, <1>7 DEF ForwardPlatforms, IInv, EntryInv, TypeInv, TypeOK
  <2>2. UNCHANGED <<session, data, avail, known, issues, outdated, refresh>>
    BY <1>7 DEF ForwardPlatforms
  <2>3. EntryInv'
    BY <1>7, <2>1, <2>2 DEF ForwardPlatforms, IInv, EntryInv
  <2>4. EntitiesOnce'
    BY <1>7, <2>1, <2>2 DEF ForwardPlatforms, EntitiesOnce
  <2>5. RefreshesInv'
    BY <1>0, <2>2, RefreshStays DEF RefreshesInv
  <2>6. PairInv'
    BY <1>0, <2>2, PairStays
  <2>7. QED
    BY <2>3, <2>4, <2>5, <2>6 DEF Held
<1>8. CASE Unload \/ Reauthenticate \/ Restart
  <2>1. session' \in Sessions
    BY <1>0, ConsoleAssumption DEF SessionType, SessionInv, Sessions
  <2>2. NewSession /\ (refresh' = refresh \/ refresh' = [s \in Sessions |-> Idle])
    BY <1>8 DEF Unload, Reauthenticate, Restart
  <2>3. QED
    BY <1>0, <2>1, <2>2, NewSessionHeld
<1>9. ASSUME NEW c \in Calls, Operate(c) PROVE Held'
  <2>1. UNCHANGED <<session, entry, data, avail, known, entities, issues, outdated,
                    refresh>>
    BY <1>9 DEF Operate, PressReview, PressApprove, FetchFresh, FetchFails,
       FinishReview, Revalidate, FinishApprove, ApproveTimesOut, CallStep
  <2>2. QED
    BY <1>0, <2>1, QuietStep
<1>10. CASE UNCHANGED vars
  BY <1>0, <1>10, QuietStep DEF vars, console, holds
<1>11. QED
  BY <1>1, <1>2, <1>3, <1>4, <1>5, <1>6, <1>7, <1>8, <1>9, <1>10 DEF Next

-----------------------------------------------------------------------------
(* What was shown.                                                         *)

\* An action that ends leaves nothing to approve.
LEMMA EndsShown ==
    ASSUME IInv, NEW c \in Calls, Ends(c), shown \subseteq shown',
           wire' \subseteq wire,
           \A r \in Resources : reviewed'[r] # None => <<r, reviewed'[r].scan>> \in shown'
    PROVE  ShownInv'
<1>1. \A d \in Calls : IF d = c THEN call'[d].kind = "done" /\ call'[d].pc = "idle"
                       ELSE call'[d] = call[d]
  BY DEF Ends, NoCall, IInv, TypeInv
<1>2. QED
  BY <1>1 DEF IInv, ShownInv, CallInv

\* Forgetting a review leaves the others.
LEMMA ForgetShown ==
    ASSUME IInv, NEW c, Forget(c) \/ UNCHANGED reviewed, shown \subseteq shown'
    PROVE  \A r \in Resources : reviewed'[r] # None => <<r, reviewed'[r].scan>> \in shown'
<1>1. \A r \in Resources : reviewed'[r] # None => reviewed'[r] = reviewed[r]
  BY DEF Forget, Remember, IInv, TypeInv, TypeOK
<1>2. QED
  BY <1>1 DEF IInv, ShownInv, CallInv

\* Every step preserves that what is reviewed, sent and approved was shown.
LEMMA ShownStep == IInv /\ [Next]_vars => ShownInv'
<1> SUFFICES ASSUME IInv, [Next]_vars PROVE ShownInv'
  OBVIOUS
<1>0. /\ call \in [Calls -> Actions]
      /\ wire \subseteq [resource : Resources, scan : Nat, call : Calls]
      /\ reviewed \in [Resources -> [scan : Nat, review : Nat] \cup {None}]
  BY DEF IInv, TypeInv, TypeOK
<1>1. ASSUME UNCHANGED <<reviewed, call, wire, shown>> PROVE ShownInv'
  BY <1>1 DEF IInv, ShownInv, CallInv
<1>2. CASE Backend \/ AuthorityRestored
  BY <1>1, <1>2, BackendFrame DEF console, holds, history
<1>3. ASSUME NEW m \in wire, ReceiveApproval(m) PROVE ShownInv'
  <2>1. \A d \in Calls :
          /\ call'[d].kind = call[d].kind /\ call'[d].resource = call[d].resource
          /\ call'[d].scan = call[d].scan /\ call'[d].view = call[d].view
          /\ call'[d].pc \in {"fetch", "fetched"} => call'[d].pc = call[d].pc
    BY <1>0, <1>3 DEF ReceiveApproval, Actions
  <2>2. wire' \subseteq wire /\ UNCHANGED <<reviewed, shown>>
    BY <1>3 DEF ReceiveApproval, console, holds, history
  <2>3. QED
    BY <2>1, <2>2 DEF IInv, ShownInv, CallInv
<1>4. ASSUME NEW s, HandlePair(s) PROVE ShownInv'
  <2>1. UNCHANGED <<call, wire, shown>>
    BY <1>4 DEF HandlePair, history
  <2>2. \A r \in Resources : reviewed'[r] # None => reviewed'[r] = reviewed[r]
    BY <1>4 DEF HandlePair, Accept, AcceptLate, RefreshFails, console, holds
  <2>3. QED
    BY <2>1, <2>2 DEF IInv, ShownInv, CallInv
<1>5. CASE StartRefresh \/ ForwardPlatforms \/ AuthFails
  BY <1>1, <1>5 DEF StartRefresh, ForwardPlatforms, AuthFails, RefreshFails,
     holds, history
<1>16. ASSUME NEW s, FetchSnapshot(s) \/ FetchAvailability(s) \/ RequestFails(s)
       PROVE  ShownInv'
  BY <1>1, <1>16 DEF FetchSnapshot, FetchAvailability, RequestFails,
     RefreshFails, console, holds, history
<1>17. CASE Unload \/ Reauthenticate
  <2>1. UNCHANGED <<call, wire, shown>> /\ \A r \in Resources : reviewed'[r] = None
    BY <1>17 DEF Unload, Reauthenticate, NewSession, history
  <2>2. QED
    BY <2>1 DEF IInv, ShownInv, CallInv
<1>6. CASE Restart
  <2>1. \A d \in Calls : call'[d] = IF call[d].pc = "idle" THEN call[d]
                                     ELSE [NoCall EXCEPT !.kind = "done"]
    BY <1>6 DEF Restart
  <2>2. /\ [NoCall EXCEPT !.kind = "done"].kind = "done"
        /\ [NoCall EXCEPT !.kind = "done"].pc = "idle"
    BY DEF NoCall
  <2>3. UNCHANGED <<wire, shown>> /\ \A r \in Resources : reviewed'[r] = None
    BY <1>6 DEF Restart, NewSession, history
  <2>4. QED
    BY <2>1, <2>2, <2>3 DEF IInv, ShownInv, CallInv
<1>7. ASSUME NEW c \in Calls, NEW r \in Resources, PressReview(c, r) PROVE ShownInv'
  <2>1. UNCHANGED <<reviewed, wire, shown>>
    BY <1>7 DEF PressReview, history
  <2>2. \A d \in Calls : IF d = c THEN /\ call'[d].kind = "review"
                                      /\ call'[d].pc = "fetch"
                                      /\ call'[d].resource = r
                         ELSE call'[d] = call[d]
    BY <1>0, <1>7 DEF PressReview, NoCall
  <2>3. QED
    BY <2>1, <2>2 DEF IInv, ShownInv, CallInv
<1>8. ASSUME NEW c \in Calls, NEW r \in Resources, PressApprove(c, r) PROVE ShownInv'
  <2>1. UNCHANGED <<reviewed, wire, shown>>
    BY <1>8 DEF PressApprove, history
  <2>2. \A d \in Calls : IF d = c THEN /\ call'[d].kind = "approve"
                                      /\ call'[d].pc = "fetch"
                                      /\ call'[d].resource = r
                                      /\ call'[d].scan = reviewed[r].scan
                         ELSE call'[d] = call[d]
    BY <1>0, <1>8 DEF PressApprove, NoCall
  <2>3. <<r, reviewed[r].scan>> \in shown
    BY <1>8 DEF PressApprove, IInv, ShownInv, CallInv
  <2>4. QED
    BY <2>1, <2>2, <2>3 DEF IInv, ShownInv, CallInv
<1>9. ASSUME NEW c \in Calls, FetchFresh(c) PROVE ShownInv'
  <2>1. UNCHANGED <<reviewed, wire, shown>>
    BY <1>9 DEF FetchFresh, history
  <2>2. SnapshotOf(answering) # None
    BY SnapshotIsTyped, SnapshotFields DEF IInv, TypeInv, TypeOK
  <2>3. \A d \in Calls : IF d = c THEN /\ call'[d].kind = call[d].kind
                                      /\ call'[d].pc = "fetched"
                                      /\ call'[d].resource = call[d].resource
                                      /\ call'[d].scan = call[d].scan
                                      /\ call'[d].view = SnapshotOf(answering)
                         ELSE call'[d] = call[d]
    BY <1>0, <1>9 DEF FetchFresh, Actions
  <2>4. ASSUME NEW d \in Calls PROVE CallInv(d)'
    <3>1. CallInv(d) /\ (d = c => call[d].pc = "fetch")
      BY <1>9 DEF FetchFresh, IInv, ShownInv
    <3>2. CASE d = c
      BY <2>1, <2>2, <2>3, <3>1, <3>2 DEF CallInv
    <3>3. CASE d # c
      BY <2>1, <2>3, <3>1, <3>3 DEF CallInv
    <3>4. QED
      BY <3>2, <3>3
  <2>5. QED
    BY <2>1, <2>4 DEF IInv, ShownInv
<1>10. ASSUME NEW c \in Calls, FetchFails(c) PROVE ShownInv'
  BY <1>10, EndsShown, ForgetShown DEF FetchFails, history
<1>11. ASSUME NEW c \in Calls, FinishApprove(c) \/ ApproveTimesOut(c) PROVE ShownInv'
  BY <1>11, EndsShown, ForgetShown DEF FinishApprove, ApproveTimesOut, history
<1>12. ASSUME NEW c \in Calls, FinishReview(c) PROVE ShownInv'
  <2> DEFINE r == call[c].resource
             v == call[c].view
             n == v.resources[r].scan
  <2>1. Ends(c) /\ wire' = wire
    BY <1>12 DEF FinishReview
  <2>2. CASE (Forget(c) \/ UNCHANGED reviewed) /\ UNCHANGED history
    BY <2>1, <2>2, EndsShown, ForgetShown DEF history
  <2>3. CASE /\ Remember(c, [scan |-> n, review |-> reviews + 1])
             /\ shown' = shown \cup {<<r, n>>}
    <3>1. \A q \in Resources : reviewed'[q] # None => <<q, reviewed'[q].scan>> \in shown'
      <4> SUFFICES ASSUME NEW q \in Resources, reviewed'[q] # None
                   PROVE  <<q, reviewed'[q].scan>> \in shown'
        OBVIOUS
      <4>0. \/ reviewed' = reviewed
            \/ reviewed' = [reviewed EXCEPT ![r] = [scan |-> n, review |-> reviews + 1]]
        BY <2>3 DEF Remember
      <4> HIDE DEF r, n
      <4>1. CASE q = r
        BY <1>0, <2>3, <4>0, <4>1 DEF IInv, ShownInv
      <4>2. CASE q # r
        BY <1>0, <2>3, <4>0, <4>2 DEF IInv, ShownInv
      <4>3. QED
        BY <4>1, <4>2
    <3>2. QED
      BY <2>1, <2>3, <3>1, EndsShown
  <2>4. QED
    BY <1>12, <2>2, <2>3 DEF FinishReview
<1>13. ASSUME NEW c \in Calls, Revalidate(c) PROVE ShownInv'
  <2>1. UNCHANGED shown
    BY <1>13 DEF Revalidate, history
  <2>2. CASE Ends(c) /\ UNCHANGED wire
    BY <1>13, <2>1, <2>2, EndsShown, ForgetShown DEF Revalidate
  <2>3. CASE /\ wire' = wire \cup {ApprovalOf(c)}
             /\ call' = [call EXCEPT ![c].pc = "sent", ![c].view = None]
    <3>1. \A d \in Calls : IF d = c THEN /\ call'[d].kind = call[d].kind
                                        /\ call'[d].pc = "sent"
                                        /\ call'[d].resource = call[d].resource
                                        /\ call'[d].scan = call[d].scan
                           ELSE call'[d] = call[d]
      BY <1>0, <2>3 DEF Actions
    <3>2. <<ApprovalOf(c).resource, ApprovalOf(c).scan>> \in shown
      BY <1>13 DEF Revalidate, ApprovalOf, IInv, ShownInv, CallInv
    <3>3. \A r \in Resources : reviewed'[r] # None => <<r, reviewed'[r].scan>> \in shown'
      BY <1>13, <2>1, ForgetShown DEF Revalidate
    <3>4. ASSUME NEW d \in Calls PROVE CallInv(d)'
      <4>1. CallInv(d)
        BY DEF IInv, ShownInv
      <4>2. QED
        BY <2>1, <3>1, <4>1 DEF CallInv
    <3>5. \A m \in wire' : <<m.resource, m.scan>> \in shown'
      BY <2>1, <2>3, <3>2 DEF IInv, ShownInv
    <3>6. QED
      BY <3>3, <3>4, <3>5 DEF ShownInv
  <2>4. QED
    BY <1>13, <2>2, <2>3 DEF Revalidate
<1>14. CASE UNCHANGED vars
  BY <1>1, <1>14 DEF vars, console, holds, history
<1>15. QED
  BY <1>2, <1>3, <1>4, <1>5, <1>6, <1>7, <1>8, <1>9, <1>10, <1>11, <1>12,
     <1>13, <1>14, <1>16, <1>17
  DEF Next, RefreshStep, Operate

-----------------------------------------------------------------------------
(* The theorems.                                                           *)

\* The invariant holds before Home Assistant has asked for anything.
LEMMA InitHolds == Init => IInv
<1> SUFFICES ASSUME Init PROVE IInv
  OBVIOUS
<1>1. BackendType
  <2>1. res \in [Managed -> Published]
    BY DEF Init, Published
  <2>2. QED
    BY <2>1, ConsoleAssumption DEF Init, BackendType
<1>2. Idle \in Refreshes /\ NoCall \in Actions
  BY DEF Idle, Refreshes, MAX_COHERENCE_ATTEMPTS, NoCall, Actions
<1>3. TypeInv
  <2>1. EntryType /\ PairType /\ ReviewType /\ ShownType /\ WireType
    BY DEF Init, EntryType, PairType, ReviewType, ShownType, WireType
  <2>2. RefreshType /\ CallType
    BY <1>2 DEF Init, RefreshType, CallType
  <2>3. SessionType
    BY ConsoleAssumption DEF Init, SessionType, SessionInv
  <2>4. QED
    BY <1>1, <2>1, <2>2, <2>3, TypeParts
<1>4. EntryInv /\ PairInv /\ EntitiesOnce
  <2>1. 0 \in Sessions
    BY ConsoleAssumption DEF Sessions
  <2>2. QED
    BY <2>1 DEF Init, Idle, EntryInv, PairInv, EntitiesOnce
<1>7. RefreshesInv
  BY DEF Init, Idle, RefreshesInv, RefreshInv
<1>5. ShownInv
  BY DEF Init, NoCall, ShownInv, CallInv
<1>6. QED
  BY <1>3, <1>4, <1>5, <1>7 DEF IInv

\* The account of what the coordinator holds, of the refreshes in flight and of
\* what was shown to the operator holds in every reachable state.
THEOREM Inductive == Spec => []IInv
<1>1. IInv /\ [Next]_vars => IInv'
  BY TypeStep, HeldStep, ShownStep DEF IInv, Held
<1>2. QED
  BY <1>1, InitHolds, PTL DEF Spec

\* What the entities, the buttons and the Repairs rest on is one published
\* state of the bound backend, each entity there once (ConsoleIsCoherent),
\* however refreshes, the setup of platforms, publications, unloads that leave a
\* refresh running, restarts, refused tokens and another authority interleave.
THEOREM ConsoleCoherent == Spec => []ConsoleIsCoherent
<1>1. IInv => ConsoleIsCoherent
  <2> SUFFICES ASSUME IInv PROVE ConsoleIsCoherent
    OBVIOUS
  <2>1. CoherentPair
    BY DEF IInv, PairInv, WasPublished, ValidAvailability, CoherentPair
  <2>2. RepairsAreCurrent
    BY DEF IInv, PairInv, RepairsAreCurrent
  <2>3. QED
    BY <2>1, <2>2 DEF IInv, TypeInv, ConsoleIsCoherent
<1>2. QED
  BY <1>1, Inductive, PTL

\* The backend records no approval of a plan that the operator was not shown,
\* nor of one that is not the current one (ApprovedWasShown), though approvals
\* arrive late and scans complete in between.
THEOREM PlansWereShown == Spec => ApprovedWasShown
<1> DEFINE Step == \A r \in DOMAIN res : res'[r].approval # res[r].approval
                     => /\ res'[r].approval = res[r].scan
                        /\ <<r, res'[r].approval>> \in shown
<1>1. IInv /\ [Next]_vars => [Step]_vars
  <2> SUFFICES ASSUME IInv, [Next]_vars PROVE Step
    OBVIOUS
  <2>0. \A r \in DOMAIN res : res[r] \in Published
    BY DEF IInv, TypeInv, TypeOK
  <2>1. CASE UNCHANGED res
    BY <2>1
  <2>2. CASE ScanCompletes \/ PlanGoesStale \/ ContractChanges \/ ResourceAppears
    <3>1. \A r \in DOMAIN res : res'[r].approval = res[r].approval
      <4>1. CASE ScanCompletes
        BY <2>0, <4>1 DEF ScanCompletes, Publish, Published
      <4>2. CASE PlanGoesStale
        BY <2>0, <4>2 DEF PlanGoesStale, Publish, Published
      <4>3. CASE ContractChanges
        BY <2>0, <4>3 DEF ContractChanges, Publish, Published
      <4>4. CASE ResourceAppears
        BY <2>0, <4>4 DEF ResourceAppears, Publish
      <4>5. QED
        BY <2>2, <4>1, <4>2, <4>3, <4>4
    <3>2. QED
      BY <3>1
  <2>3. ASSUME NEW m \in wire, ReceiveApproval(m) PROVE Step
    <3>1. CASE UNCHANGED res
      BY <3>1
    <3>2. CASE /\ m.resource \in DOMAIN res /\ res[m.resource].scan = m.scan
               /\ res' = [res EXCEPT ![m.resource].approval = m.scan]
      <4>1. <<m.resource, m.scan>> \in shown
        BY DEF IInv, ShownInv, CallInv
      <4>2. \A r \in DOMAIN res : IF r = m.resource THEN res'[r].approval = m.scan
                                  ELSE res'[r] = res[r]
        BY <2>0, <3>2 DEF Published
      <4>3. QED
        BY <3>2, <4>1, <4>2
    <3>3. QED
      BY <2>3, <3>1, <3>2 DEF ReceiveApproval
  <2>4. CASE FenceChanges \/ AuthorityReset \/ AuthorityRestored
    BY <2>1, <2>4 DEF FenceChanges, AuthorityReset, AuthorityRestored
  <2>5. ASSUME NEW s, RefreshStep(s) \/ RequestFails(s) PROVE Step
    BY <2>1, <2>5 DEF RefreshStep, RequestFails, FetchSnapshot,
       FetchAvailability, HandlePair, backend
  <2>6. CASE \/ StartRefresh \/ ForwardPlatforms \/ AuthFails
             \/ Unload \/ Reauthenticate \/ Restart
    BY <2>1, <2>6 DEF StartRefresh, ForwardPlatforms, AuthFails, Unload,
       Reauthenticate, Restart, backend
  <2>7. ASSUME NEW c, Operate(c) PROVE Step
    BY <2>1, <2>7 DEF Operate, PressReview, PressApprove, FetchFresh, FetchFails,
       FinishReview, Revalidate, FinishApprove, ApproveTimesOut, CallStep, backend
  <2>8. CASE UNCHANGED vars
    BY <2>1, <2>8 DEF vars, backend
  <2>9. QED
    BY <2>2, <2>3, <2>4, <2>5, <2>6, <2>7, <2>8 DEF Next, Backend
<1>2. QED
  BY <1>1, Inductive, PTL DEF Spec, ApprovedWasShown
=============================================================================
