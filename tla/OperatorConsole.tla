-------------------------- MODULE OperatorConsole --------------------------
(***************************************************************************)
(* The Home Assistant integration as an asynchronous client of the backend.*)
(* The coordinator refreshes with two requests, a snapshot and the operator*)
(* availability, that must describe one published revision; the operator's *)
(* actions read, remember and approve plans in tasks of their own.  Every  *)
(* await lets the other tasks and the backend go on, any request may fail, *)
(* and an approval may be lost, delayed, or applied and its answer lost.   *)
(*                                                                         *)
(* The backend is what publication and approve_package_plan make of it:    *)
(* every published change moves the revision, the product-update fence     *)
(* moves availability alone.  A failed product update may put another      *)
(* authority behind the same address and later bring the first one back.   *)
(* A scan number stands for a scan run and the fingerprint of its plan.    *)
(*                                                                         *)
(* Every time the entry is set up there is a new coordinator, numbered by  *)
(* "session".  Home Assistant's update coordinator serializes the refreshes*)
(* of one session and begins none once its entry is unloaded, but nothing  *)
(* cancels the refresh, or the operator's actions, then in flight.  After a*)
(* refused token it schedules no other until there is a new token.         *)
(***************************************************************************)
EXTENDS Naturals, FiniteSets

CONSTANTS
    Resources,      \* resources of the backend, LXC all of them
    Managed,        \* those managed from the start, their first scan published
    Calls,          \* operator actions ever started
    Predates,       \* the backend may have no availability route
    MaxRev,         \* bound: revisions published by scans, discovery, settings
    MaxMishaps,     \* bound: failed requests, refused tokens, changes of the
                    \* product-update fence, times another authority answers,
                    \* unloads and restarts of Home Assistant, taken together
    None            \* "nothing" of any kind

MAX_COHERENCE_ATTEMPTS == 2

ASSUME ConsoleAssumption ==
    /\ Managed \subseteq Resources
    /\ MaxRev \in Nat /\ MaxMishaps \in Nat /\ Predates \in BOOLEAN

\* An unload, a restart and a refused token lead to one more session each.
Sessions == 0 .. MaxMishaps

VARIABLES
    answering, rev, res, fenced,    \* the backend
    wire,                           \* approvals sent and not yet dealt with
    session, entry,                 \* the coordinator in charge, its entry
    good, polling,                  \* last refresh succeeded, a next is due
    data, avail,                    \* the coordinator's last pair
    reviewed,                       \* reviewed_update_plans
    known, entities,                \* known_resources, buttons
    issues,                         \* the registry's Repairs of the entry
    outdated,                       \* history: a former coordinator wrote them
    refresh,                        \* the refresh in flight of each session
    call,                           \* the operator's actions
    shown, reviews, lost,           \* history, see below
    mishaps

backend == <<answering, rev, res, fenced>>
holds   == <<data, avail, reviewed, known, entities, issues, outdated>>
console == <<session, entry, good, polling, holds>>
history == <<shown, reviews, lost>>
vars    == <<backend, wire, console, refresh, call, history, mishaps>>

-----------------------------------------------------------------------------

Published == [scan : Nat, approvable : BOOLEAN, approval : Nat,
              configured : BOOLEAN]

Capability == [approve : BOOLEAN, start : BOOLEAN]

\* An answer of a route that says something of the resources in D.
AnswersOn(D, Said) ==
    [backend : {"home", "other"}, rev : Nat, resources : [D -> Said]]

ASSUME NoneAssumption ==
    \A D \in SUBSET Resources :
        None \notin AnswersOn(D, Published) \cup AnswersOn(D, Capability)

Approved(p) == p.approvable /\ p.approval # 0 /\ p.approval = p.scan

\* What the two routes answer, each from one transaction.
SnapshotOf(who) ==
    IF who = "home" THEN [backend |-> "home", rev |-> rev, resources |-> res]
    ELSE [backend |-> "other", rev |-> 1, resources |-> <<>>]

Capabilities(p) ==
    [approve |-> p.approvable,
     start   |-> Approved(p) /\ p.configured /\ ~fenced]

AvailabilityOf(who) ==
    LET view == SnapshotOf(who)
    IN [backend |-> view.backend, rev |-> view.rev,
        resources |-> [r \in DOMAIN view.resources |->
                          Capabilities(view.resources[r])]]

\* An operator's action; "review" is the review its reference comes from.
NoCall == [kind |-> "none", pc |-> "idle", resource |-> None, scan |-> 0,
           review |-> 0, view |-> None, session |-> 0]

\* A refresh; "previous" is what its coordinator held when it began.
Idle == [pc |-> "idle", attempt |-> 0, previous |-> None, view |-> None,
         avail |-> None]

TypeOK ==
    /\ answering \in {"home", "other"} /\ rev \in Nat /\ fenced \in BOOLEAN
    /\ DOMAIN res \subseteq Resources
    /\ \A r \in DOMAIN res : res[r] \in Published
    /\ entry \in {"unloaded", "setup", "forwarding", "loaded"}
    /\ session \in Sessions /\ good \in BOOLEAN /\ polling \in BOOLEAN
    /\ (data = None) = (avail = None) /\ outdated \in BOOLEAN
    /\ reviewed \in [Resources -> [scan : Nat, review : Nat] \cup {None}]
    /\ known \subseteq Resources /\ issues \subseteq Resources
    /\ entities \in [Resources -> Nat]
    /\ \A s \in Sessions :
         /\ refresh[s].pc \in {"idle", "snapshot", "availability", "pair"}
         /\ refresh[s].attempt \in 0 .. MAX_COHERENCE_ATTEMPTS
    /\ \A c \in Calls :
         /\ call[c].kind \in {"none", "review", "approve", "done"}
         /\ call[c].pc \in {"idle", "fetch", "fetched", "sent", "answered"}
    /\ wire \subseteq [resource : Resources, scan : Nat, call : Calls]

\* Nothing is set up in Home Assistant, whose registry may still hold Repairs
\* of an earlier session.
Init ==
    /\ answering = "home" /\ rev = 1 /\ fenced = FALSE
    /\ res = [r \in Managed |-> [scan |-> 1, approvable |-> TRUE, approval |-> 0,
                                configured |-> TRUE]]
    /\ wire = {}
    /\ session = 0 /\ entry = "unloaded" /\ good = FALSE /\ polling = TRUE
    /\ data = None /\ avail = None
    /\ reviewed = [r \in Resources |-> None]
    /\ known = {} /\ entities = [r \in Resources |-> 0]
    /\ issues \in SUBSET Resources /\ outdated = FALSE
    /\ refresh = [s \in Sessions |-> Idle]
    /\ call = [c \in Calls |-> NoCall]
    /\ shown = {} /\ reviews = 0 /\ lost = {}
    /\ mishaps = 0

-----------------------------------------------------------------------------
(* The backend.                                                            *)

Mishap == mishaps < MaxMishaps /\ mishaps' = mishaps + 1

Publish(newRes) ==
    /\ rev < MaxRev
    /\ rev' = rev + 1 /\ res' = newRes
    /\ UNCHANGED <<answering, fenced, wire, console, refresh, call, history,
                   mishaps>>

ScanCompletes ==
    \E r \in DOMAIN res :
        Publish([res EXCEPT ![r].scan = @ + 1, ![r].approvable = TRUE])

\* The inventory behind the plan expires, or a newer scan is running.
PlanGoesStale ==
    \E r \in DOMAIN res :
        res[r].approvable /\ Publish([res EXCEPT ![r].approvable = FALSE])

ContractChanges ==
    \E r \in DOMAIN res : Publish([res EXCEPT ![r].configured = ~@])

ResourceAppears ==
    \E r \in Resources \ DOMAIN res :
        Publish([s \in DOMAIN res \cup {r} |->
                    IF s = r THEN [scan |-> 1, approvable |-> TRUE,
                                   approval |-> 0, configured |-> TRUE]
                    ELSE res[s]])

FenceChanges ==
    /\ Mishap
    /\ fenced' = ~fenced
    /\ UNCHANGED <<answering, rev, res, wire, console, refresh, call, history>>

\* A product update resets the authority; its rollback restores the old one.
AuthorityReset ==
    /\ Mishap
    /\ answering = "home" /\ answering' = "other"
    /\ UNCHANGED <<rev, res, fenced, wire, console, refresh, call, history>>

AuthorityRestored ==
    /\ answering = "other"
    /\ answering' = "home"
    /\ UNCHANGED <<rev, res, fenced, wire, console, refresh, call, history,
                   mishaps>>

\* approve_package_plan: only the exact current plan, and once.
ReceiveApproval(m) ==
    LET fits == /\ answering = "home" /\ m.resource \in DOMAIN res
                /\ res[m.resource].approvable
                /\ res[m.resource].scan = m.scan
    IN /\ wire' = wire \ {m}
       /\ IF fits /\ res[m.resource].approval # m.scan
          THEN /\ res' = [res EXCEPT ![m.resource].approval = m.scan]
               /\ rev' = rev + 1
          ELSE UNCHANGED <<res, rev>>
       /\ call' = [call EXCEPT ![m.call].pc =
                      IF @ = "sent" THEN "answered" ELSE @]
       /\ UNCHANGED <<answering, fenced, console, refresh, history, mishaps>>

-----------------------------------------------------------------------------
(* The coordinator's refresh.                                              *)

\* The refresh of session s ends in failure; "again": another is scheduled.
RefreshFails(s, again) ==
    /\ refresh' = [refresh EXCEPT ![s] = Idle]
    /\ IF s = session
       THEN /\ good' = FALSE /\ polling' = again
            /\ entry' = IF entry = "setup" THEN "unloaded" ELSE entry
       ELSE UNCHANGED <<good, polling, entry>>
    /\ UNCHANGED <<session, holds>>

\* Setup begins with a refresh, and its first listener starts the interval;
\* in a loaded entry the operator's actions ask for one at any time.
StartRefresh ==
    /\ refresh[session].pc = "idle"
    /\ entry # "setup"
    /\ polling \/ entry = "loaded"
    /\ entry' = IF entry = "unloaded" THEN "setup" ELSE entry
    /\ refresh' = [refresh EXCEPT ![session] =
           [Idle EXCEPT !.pc = "snapshot", !.attempt = 1, !.previous = data]]
    /\ UNCHANGED <<backend, wire, session, good, polling, holds, call, history,
                   mishaps>>

\* Mutant: the identity of the backend is not compared.
OwnBackend_Any(view) == TRUE

\* The config entry is bound to one backend instance.
OwnBackend(view) == view.backend = "home"

\* Mutant: a successor must be newer.
ValidSuccessor_Strict(view, previous) ==
    previous # None => view.rev > previous.rev

\* validate_revision_successor: InventoryReader has the whole of it.
ValidSuccessor(view, previous) ==
    previous # None =>
        /\ view.rev >= previous.rev
        /\ view.rev = previous.rev => view = previous
        /\ DOMAIN previous.resources \subseteq DOMAIN view.resources

FetchSnapshot(s) ==
    /\ refresh[s].pc = "snapshot"
    /\ LET view == SnapshotOf(answering)
       IN IF OwnBackend(view) /\ ValidSuccessor(view, refresh[s].previous)
          THEN /\ refresh' = [refresh EXCEPT ![s].pc = "availability",
                                             ![s].view = view]
               /\ UNCHANGED console
          ELSE RefreshFails(s, TRUE)
    /\ UNCHANGED <<backend, wire, call, history, mishaps>>

AllFalse(view) ==
    [backend |-> view.backend, rev |-> view.rev,
     resources |-> [r \in DOMAIN view.resources |->
                       [approve |-> FALSE, start |-> FALSE]]]

FetchAvailability(s) ==
    /\ refresh[s].pc = "availability"
    /\ \E got \in {AvailabilityOf(answering)} \cup
                  (IF Predates THEN {AllFalse(refresh[s].view)} ELSE {}) :
         refresh' = [refresh EXCEPT ![s].pc = "pair", ![s].avail = got]
    /\ UNCHANGED <<backend, wire, console, call, history, mishaps>>

RaceCandidate(got, view) == got.backend = view.backend /\ got.rev # view.rev

ValidAvailability(got, view) ==
    /\ got.backend = view.backend
    /\ got.rev = view.rev
    /\ DOMAIN got.resources = DOMAIN view.resources
    /\ \A r \in DOMAIN got.resources :
         /\ got.resources[r].approve => view.resources[r].approvable
         /\ got.resources[r].start =>
              Approved(view.resources[r]) /\ view.resources[r].configured

\* Mutant: a review stands until its plan changes.
StillReviewed_Plan(r, view, got) ==
    view.resources[r].scan = reviewed[r].scan

\* _invalidate_stale_plan_reviews keeps what the new pair does not contradict.
StillReviewed(r, view, got) ==
    /\ got.resources[r].approve
    /\ view.resources[r].scan = reviewed[r].scan

Blocked(view) ==
    {r \in DOMAIN view.resources : Approved(view.resources[r])
                                    /\ ~view.resources[r].configured}

\* Mutant: only what this session raised is cleared.
SyncRepairs_Session(view) ==
    issues' = (issues \ (IF data = None THEN {} ELSE Blocked(data)))
                  \cup Blocked(view)

\* async_sync_health_contract_repairs, against the persisted registry.
SyncRepairs(view) == issues' = Blocked(view)

\* Mutant: a platform listens to announcements before it lists what there is.
PublishInventory_Early(view) ==
    /\ known' = known \cup DOMAIN view.resources
    /\ entities' = [r \in Resources |->
           IF entry \in {"forwarding", "loaded"} /\ r \in DOMAIN view.resources \ known
           THEN entities[r] + 1 ELSE entities[r]]

\* New resources are announced to the platforms that are set up.
PublishInventory(view) ==
    /\ known' = known \cup DOMAIN view.resources
    /\ entities' = [r \in Resources |->
           IF entry = "loaded" /\ r \in DOMAIN view.resources \ known
           THEN entities[r] + 1 ELSE entities[r]]

Accept(view, got) ==
    /\ data' = view /\ avail' = got /\ good' = TRUE /\ polling' = TRUE
    /\ reviewed' = [r \in Resources |->
           IF /\ reviewed[r] # None /\ r \in DOMAIN view.resources
              /\ StillReviewed(r, view, got)
           THEN reviewed[r] ELSE None]
    /\ PublishInventory(view)
    /\ SyncRepairs(view) /\ outdated' = FALSE
    /\ entry' = IF entry = "setup" THEN "forwarding" ELSE entry
    /\ UNCHANGED session

\* A coordinator whose entry was unloaded has no platform left to tell, but
\* the Repairs it synchronizes are the entry's.
AcceptLate(view) ==
    /\ SyncRepairs(view) /\ outdated' = TRUE
    /\ UNCHANGED <<session, entry, good, polling, data, avail, reviewed, known,
                   entities>>

MayRetry(s) == refresh[s].attempt < MAX_COHERENCE_ATTEMPTS

HandlePair(s) ==
    /\ refresh[s].pc = "pair"
    /\ LET view == refresh[s].view
           got  == refresh[s].avail
       IN \/ /\ RaceCandidate(got, view)
             /\ MayRetry(s)
             /\ refresh' = [refresh EXCEPT ![s] =
                    [Idle EXCEPT !.pc = "snapshot", !.attempt = refresh[s].attempt + 1,
                                 !.previous = refresh[s].previous]]
             /\ UNCHANGED console
          \/ /\ ~RaceCandidate(got, view) /\ ValidAvailability(got, view)
             /\ refresh' = [refresh EXCEPT ![s] = Idle]
             /\ IF s = session THEN Accept(view, got) ELSE AcceptLate(view)
          \/ /\ IF RaceCandidate(got, view)
                THEN ~MayRetry(s)
                ELSE ~ValidAvailability(got, view)
             /\ RefreshFails(s, TRUE)
    /\ UNCHANGED <<backend, wire, call, history, mishaps>>

\* A request of a refresh gets no answer, or a malformed body.
RequestFails(s) ==
    /\ refresh[s].pc \in {"snapshot", "availability"}
    /\ Mishap
    /\ RefreshFails(s, TRUE)
    /\ UNCHANGED <<backend, wire, call, history>>

\* The token is refused (ConfigEntryAuthFailed): the operator is asked for
\* another, and until then neither a refresh nor a setup is scheduled.
AuthFails ==
    /\ refresh[session].pc \in {"snapshot", "availability"}
    /\ Mishap
    /\ RefreshFails(session, FALSE)
    /\ UNCHANGED <<backend, wire, call, history>>

\* The platforms are set up with what the coordinator holds by then.
ForwardPlatforms ==
    /\ entry = "forwarding"
    /\ entry' = "loaded"
    /\ entities' = [r \in Resources |->
           IF r \in DOMAIN data.resources THEN entities[r] + 1 ELSE entities[r]]
    /\ UNCHANGED <<backend, wire, session, good, polling, data, avail, reviewed,
                   known, issues, outdated, refresh, call, history, mishaps>>

\* What the coordinator in charge held is gone; the next setup makes another.
NewSession ==
    /\ session' = session + 1
    /\ entry' = "unloaded" /\ good' = FALSE /\ polling' = TRUE
    /\ data' = None /\ avail' = None
    /\ reviewed' = [r \in Resources |-> None]
    /\ known' = {} /\ entities' = [r \in Resources |-> 0]
    /\ UNCHANGED outdated

\* The Repairs are cleared; what is in flight goes on.
Unload ==
    /\ entry = "loaded" /\ Mishap
    /\ NewSession
    /\ issues' = {}
    /\ UNCHANGED <<backend, wire, refresh, call, history>>

\* A new token, accepted by the bound backend, reloads the entry.
Reauthenticate ==
    /\ ~polling /\ entry \in {"unloaded", "loaded"}
    /\ OwnBackend(SnapshotOf(answering))
    /\ NewSession
    /\ issues' = IF entry = "loaded" THEN {} ELSE issues
    /\ UNCHANGED <<backend, wire, refresh, call, history, mishaps>>

\* Home Assistant restarts: what is in flight goes, the Repairs stay.
Restart ==
    /\ Mishap
    /\ NewSession
    /\ refresh' = [s \in Sessions |-> Idle]
    /\ call' = [c \in Calls |->
           IF call[c].pc = "idle" THEN call[c] ELSE [NoCall EXCEPT !.kind = "done"]]
    /\ UNCHANGED <<backend, wire, issues, history>>

-----------------------------------------------------------------------------
(* The operator's actions.                                                 *)

Ends(c) == call' = [call EXCEPT ![c] = [NoCall EXCEPT !.kind = "done"]]

\* Only the references change, and what was shown.
CallStep ==
    UNCHANGED <<backend, session, entry, good, polling, data, avail, known,
                entities, issues, outdated, refresh>>

\* view_update_plan, or the review button.
PressReview(c, r) ==
    /\ entry = "loaded" /\ call[c].kind = "none"
    /\ r \in DOMAIN data.resources
    /\ call' = [call EXCEPT ![c] = [NoCall EXCEPT !.kind = "review",
                                    !.pc = "fetch", !.resource = r,
                                    !.session = session]]
    /\ CallStep /\ UNCHANGED <<reviewed, wire, history, mishaps>>

\* approve_update_plan, or the approve button: the reference is read now.
PressApprove(c, r) ==
    /\ entry = "loaded" /\ call[c].kind = "none"
    /\ r \in DOMAIN data.resources /\ reviewed[r] # None
    /\ call' = [call EXCEPT ![c] = [NoCall EXCEPT !.kind = "approve",
                    !.pc = "fetch", !.resource = r, !.scan = reviewed[r].scan,
                    !.review = reviewed[r].review, !.session = session]]
    /\ CallStep /\ UNCHANGED <<reviewed, wire, history, mishaps>>

\* The backend answers; the task goes on later.
FetchFresh(c) ==
    /\ call[c].pc = "fetch"
    /\ call' = [call EXCEPT ![c].pc = "fetched",
                            ![c].view = SnapshotOf(answering)]
    /\ CallStep /\ UNCHANGED <<reviewed, wire, history, mishaps>>

\* An action remembers and forgets reviews of the coordinator it began with.
Remember(c, review) ==
    reviewed' = IF call[c].session = session
                THEN [reviewed EXCEPT ![call[c].resource] = review]
                ELSE reviewed

Forget(c) == Remember(c, None)

\* A failed revalidation forgets the review, a failed review does not.
FetchFails(c) ==
    /\ call[c].pc = "fetch"
    /\ Mishap
    /\ IF call[c].kind = "approve" THEN Forget(c)
                                   ELSE UNCHANGED reviewed
    /\ Ends(c)
    /\ CallStep /\ UNCHANGED <<wire, history>>

\* The plan is shown to the operator and remembered in one step.
FinishReview(c) ==
    LET r == call[c].resource
        v == call[c].view
    IN /\ call[c].pc = "fetched" /\ call[c].kind = "review"
       /\ IF OwnBackend(v) /\ r \in DOMAIN v.resources
          THEN IF v.resources[r].approvable
               THEN /\ reviews' = reviews + 1
                    /\ Remember(c, [scan   |-> v.resources[r].scan,
                                    review |-> reviews + 1])
                    /\ shown' = shown \cup {<<r, v.resources[r].scan>>}
                    /\ UNCHANGED lost
               ELSE Forget(c) /\ UNCHANGED history
          ELSE UNCHANGED <<reviewed, history>>
       /\ Ends(c)
       /\ CallStep /\ UNCHANGED <<wire, mishaps>>

\* The fresh plan is the reviewed one, of the same backend, and approvable.
StillTheReviewed(c) ==
    /\ OwnBackend(call[c].view)
    /\ call[c].resource \in DOMAIN call[c].view.resources
    /\ call[c].view.resources[call[c].resource].approvable
    /\ call[c].view.resources[call[c].resource].scan = call[c].scan

\* The approval names the reviewed plan, never the one just read.
ApprovalOf(c) ==
    [resource |-> call[c].resource, scan |-> call[c].scan, call |-> c]

\* Mutant: whatever plan was just read is approved.
Revalidate_Current(c) ==
    LET r    == call[c].resource
        view == call[c].view
    IN /\ call[c].pc = "fetched" /\ call[c].kind = "approve"
       /\ Forget(c)
       /\ IF OwnBackend(view) /\ r \in DOMAIN view.resources
          THEN /\ wire' = wire \cup {[ApprovalOf(c) EXCEPT !.scan =
                                         view.resources[r].scan]}
               /\ call' = [call EXCEPT ![c].pc = "sent", ![c].view = None]
          ELSE Ends(c) /\ UNCHANGED wire
       /\ CallStep /\ UNCHANGED <<history, mishaps>>

\* The reference is consumed before the request is sent.
Revalidate(c) ==
    /\ call[c].pc = "fetched" /\ call[c].kind = "approve"
    /\ Forget(c)
    /\ IF StillTheReviewed(c)
       THEN /\ wire' = wire \cup {ApprovalOf(c)}
            /\ call' = [call EXCEPT ![c].pc = "sent", ![c].view = None]
       ELSE Ends(c) /\ UNCHANGED wire
    /\ CallStep /\ UNCHANGED <<history, mishaps>>

\* The refresh it asks for is one that StartRefresh begins.
FinishApprove(c) ==
    /\ call[c].pc = "answered"
    /\ Ends(c)
    /\ CallStep /\ UNCHANGED <<reviewed, wire, history, mishaps>>

\* No answer in time: the request was lost, or is late, or its answer is.
ApproveTimesOut(c) ==
    /\ call[c].pc \in {"sent", "answered"}
    /\ Mishap
    /\ lost' = lost \cup {call[c].review}
    /\ \/ UNCHANGED wire
       \/ wire' = {m \in wire : m.call # c}
    /\ Ends(c)
    /\ CallStep /\ UNCHANGED <<reviewed, shown, reviews>>

-----------------------------------------------------------------------------

Backend ==
    \/ ScanCompletes \/ PlanGoesStale \/ ContractChanges \/ ResourceAppears
    \/ FenceChanges \/ AuthorityReset

RefreshStep(s) == FetchSnapshot(s) \/ FetchAvailability(s) \/ HandlePair(s)

Operate(c) ==
    \/ \E r \in Resources : PressReview(c, r) \/ PressApprove(c, r)
    \/ FetchFresh(c) \/ FetchFails(c) \/ FinishReview(c) \/ Revalidate(c)
    \/ FinishApprove(c) \/ ApproveTimesOut(c)

Next ==
    \/ Backend \/ AuthorityRestored
    \/ StartRefresh \/ ForwardPlatforms \/ AuthFails
    \/ \E s \in Sessions : RefreshStep(s) \/ RequestFails(s)
    \/ Unload \/ Reauthenticate \/ Restart
    \/ \E m \in wire : ReceiveApproval(m)
    \/ \E c \in Calls : Operate(c)

Spec == Init /\ [][Next]_vars

\* Home Assistant refreshes on an interval and retries a failed setup as long
\* as one is scheduled, every request has a timeout, platforms are set up, and
\* the product updater ends what it began.
FairSpec ==
    /\ Spec
    /\ WF_vars((polling /\ StartRefresh) \/ RefreshStep(session))
    /\ WF_vars(\E s \in Sessions \ {session} : RefreshStep(s))
    /\ WF_vars(ForwardPlatforms)
    /\ WF_vars(AuthorityRestored)

\* The operator answers Home Assistant's request for a new token.  A premise of
\* the properties that need it: no code does it for the operator.
OperatorReauthenticates == WF_vars(Reauthenticate)

-----------------------------------------------------------------------------
(* Properties.                                                             *)

\* The pair behind the entities is one published state of the bound backend:
\* no button is offered that the shown snapshot contradicts, and every shown
\* resource has its capabilities, though the backend published between the
\* two requests or another authority answered one of them
\* (_fetch_coherent_pair, validate_operator_availability).
CoherentPair ==
    data # None =>
        /\ data.backend = "home"
        /\ avail.rev = data.rev
        /\ DOMAIN avail.resources = DOMAIN data.resources
        /\ \A r \in DOMAIN data.resources :
             /\ avail.resources[r].approve => data.resources[r].approvable
             /\ avail.resources[r].start
                  => Approved(data.resources[r]) /\ data.resources[r].configured
        /\ data.rev = rev => data.resources = res

\* The backend never records an approval of a plan the operator was not shown,
\* nor of one that is no longer current, whatever scans completed meanwhile
\* (async_approve_reviewed_update_plan, approve_package_plan).
ApprovedWasShown ==
    [][\A r \in DOMAIN res : res'[r].approval # res[r].approval
         => /\ res'[r].approval = res[r].scan
            /\ <<r, res'[r].approval>> \in shown]_vars

\* The persisted Repairs are those of the shown snapshot, across restarts that
\* forget which of them were raised (async_sync_health_contract_repairs), unless
\* a refresh that outlived an unload wrote them since (async_unload_entry).
RepairsAreCurrent == data # None /\ ~outdated => issues = Blocked(data)

\* A loaded entry has the buttons of every shown resource, each once, however
\* refreshes and the setup of the platforms interleave
\* (_async_publish_inventory, async_setup_entry).
EntitiesOnce ==
    entry = "loaded" =>
        \A r \in Resources :
            entities[r] = IF r \in DOMAIN data.resources THEN 1 ELSE 0

\* What the entities, the buttons and the Repairs rest on, after any step.
ConsoleIsCoherent ==
    TypeOK /\ CoherentPair /\ EntitiesOnce /\ RepairsAreCurrent

\* "A timeout must never turn a second press into an automatic replay of an
\* approval whose result HA could not observe" (services.py): once the answer
\* to an approval was lost, no approval from the same review is sent.
NoBlindReplay ==
    [][\A c \in Calls : call[c].pc = "fetched" /\ call'[c].pc = "sent"
         => call[c].review \notin lost]_vars

\* Once the backend stops publishing and answers, Home Assistant shows its
\* current state and the Repairs of that state, and keeps showing them, after
\* any race, outage or reload, and though a former coordinator wrote Repairs of
\* its own; if the operator gives a new token when one was refused.
Converges ==
    OperatorReauthenticates =>
        <>[](/\ good /\ data.rev = rev /\ data.resources = res
             /\ issues = Blocked(data))

\* The plan reviewed for r is not the one the backend would let be approved.
StaleReview(r) ==
    /\ reviewed[r] # None
    /\ \/ ~res[r].approvable
       \/ res[r].scan # reviewed[r].scan

\* A review of a plan that is gone does not stay with Home Assistant, also when
\* the review ends after a refresh that already had a newer view, or the plan
\* went stale between the two (_invalidate_stale_plan_reviews); if the operator
\* gives a new token when one was refused.
StaleReviewsGo ==
    OperatorReauthenticates =>
        ((\E r \in Resources : StaleReview(r))
            ~> \A r \in Resources : ~StaleReview(r))

\* "a removed or reloaded config entry must not leave a stale Repairs entry"
\* (coordinator.py): with no entry set up, no Repairs are raised.
NoRepairsWhileUnloaded == [][data' = None => issues' \subseteq issues]_vars
=============================================================================
