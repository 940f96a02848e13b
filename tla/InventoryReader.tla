-------------------------- MODULE InventoryReader --------------------------
(***************************************************************************)
(* Home Assistant as a reader of what discovery publishes.  It polls when  *)
(* it likes, so it skips any number of published views, and it checks every*)
(* view twice: alone (validate_snapshot and the validators below it) and   *)
(* as a successor of the view it holds (validate_transition).  A view that *)
(* fails is refused and every entity goes unavailable, so the question is  *)
(* whether the authority and its reader, written apart, agree.             *)
(*                                                                         *)
(* A resource is named <<vmid, generation>>; its active binding likewise.  *)
(* Names, facts, packages, plans and jobs are left out of the view here.   *)
(***************************************************************************)
EXTENDS Discovery

VARIABLES
    held,       \* coordinator.data: the last accepted view
    refused     \* some view was refused

readerVars == <<vars, held, refused>>

-----------------------------------------------------------------------------
(* Publication: one transaction that first makes a due expiry durable.     *)

OutcomeOf(r) == IF r = 0 THEN None ELSE life[r]

SourceView ==
    IF source = None THEN None
    ELSE [health |-> health, freshness |-> fresh, origin |-> origin,
          issued |-> issued, latest |-> latest,
          latestOutcome |-> OutcomeOf(latest), lastHealth |-> lastHealth,
          healthOutcome |-> OutcomeOf(lastHealth), committed |-> committed,
          reference |-> ref, validUntil |-> until,
          current |-> ctx, committedContext |-> hctx]

\* What may be published of a source.
SourceViews ==
    [health : {"not_yet_observed", "healthy", "source_unavailable",
               "configuration_error", "degraded"},
     freshness : {"not_yet_observed", "fresh", "stale"},
     origin : {"initial", "discovery_run", "time_expiry",
               "controlled_context_transition"},
     issued : Nat, latest : Nat, lastHealth : Nat, committed : Nat,
     latestOutcome : Live \cup Done \cup {"none", "abandoned", None},
     healthOutcome : Live \cup Done \cup {"none", "abandoned", None},
     reference : Nat, validUntil : Nat,
     current : Contexts, committedContext : Contexts \cup {None}]

\* "Nothing" is no context, no resource and no source.
ASSUME ReaderAssumption ==
    None \notin Contexts \cup (Vmids \X Nat) \cup SourceViews

\* Mutant: a guest that is there is shown as trusted.
CurrentResource_Present(v) ==
    LET s == slot[v]
    IN [type |-> s.type, binding |-> <<v, s.gen>>, revision |-> s.rev,
        presence   |-> IF s.present THEN "present" ELSE "missing",
        lifecycle  |-> IF s.present THEN "active" ELSE "quarantined",
        continuity |-> IF s.present THEN "consistent" ELSE "uncertain",
        node |-> s.node, last |-> s.last, successor |-> None]

CurrentResource(v) ==
    LET s == slot[v]
    IN [type |-> s.type, binding |-> <<v, s.gen>>, revision |-> s.rev,
        presence   |-> IF s.present THEN "present" ELSE "missing",
        lifecycle  |-> s.lifecycle,
        continuity |-> IF s.lifecycle = "active" THEN "consistent"
                       ELSE "uncertain",
        node |-> s.node, last |-> s.last, successor |-> None]

RetiredResource(v, g) ==
    LET t == retired[v][g]
    IN [type |-> t.type, binding |-> None, revision |-> t.rev,
        presence |-> "not_current", lifecycle |-> "retired",
        continuity |-> "replaced", node |-> None, last |-> t.last,
        successor |-> <<v, g + 1>>]

Incarnations ==
    {<<v, slot[v].gen>> : v \in {u \in Vmids : slot[u] # None}}
        \cup UNION {{v} \X DOMAIN retired[v] : v \in Vmids}

\* _read_views: what one read publishes.
View ==
    [inventoryRevision |-> invRev, publishedRevision |-> pubRev,
     source    |-> SourceView,
     nodes     |-> [n \in {m \in Nodes : nodeRow[m] # "none"} |-> nodeRow[n]],
     resources |-> [id \in Incarnations |->
                       IF id[2] \in DOMAIN retired[id[1]]
                       THEN RetiredResource(id[1], id[2])
                       ELSE CurrentResource(id[1])]]

-----------------------------------------------------------------------------
(* One view on its own.                                                    *)

Terminal(r) == r.presence = "not_current"

ValidSource(s) ==
    /\ s.committed <= s.lastHealth /\ s.lastHealth <= s.latest
    /\ s.latest <= s.issued
    /\ s.healthOutcome = "success" => s.lastHealth = s.committed
    /\ s.latestOutcome = "success" => s.latest = s.committed
    /\ s.committed # 0 =>
         /\ s.lastHealth = s.committed => s.healthOutcome = "success"
         /\ s.latest = s.committed => s.latestOutcome = "success"
    /\ (s.committed # 0) = (s.committedContext # None)
    /\ s.committedContext # None =>
         /\ s.current.cfg >= s.committedContext.cfg
         /\ s.current.trust >= s.committedContext.trust
         /\ s.current.canon >= s.committedContext.canon
         /\ s.current.canon > s.committedContext.canon
              => s.current.cfg > s.committedContext.cfg
    /\ s.origin = "initial" =>
         /\ s.health = "not_yet_observed" /\ s.freshness = "not_yet_observed"
         /\ s.lastHealth = 0 /\ s.committed = 0
    /\ s.origin # "initial" => s.freshness # "not_yet_observed"
    /\ s.origin = "discovery_run" => s.lastHealth # 0
    /\ s.origin = "time_expiry" =>
         /\ s.committed # 0 /\ s.freshness = "stale"
         /\ s.current = s.committedContext /\ s.lastHealth = s.committed
    /\ s.origin = "controlled_context_transition" => s.freshness = "stale"
    /\ s.freshness = "fresh" =>
         /\ s.health = "healthy" /\ s.origin = "discovery_run"
         /\ s.committed # 0 /\ s.current = s.committedContext
         /\ s.lastHealth = s.committed
    /\ s.health \notin {"healthy", "not_yet_observed"} => s.freshness = "stale"

StateMatrix ==
    {<<"present", "active", "consistent">>,
     <<"present", "quarantined", "uncertain">>,
     <<"missing", "quarantined", "uncertain">>,
     <<"not_current", "retired", "replaced">>}

ValidResource(view, id) ==
    LET r == view.resources[id]
    IN /\ r.revision > 0
       /\ (r.binding = None) = Terminal(r)
       /\ <<r.presence, r.lifecycle, r.continuity>> \in StateMatrix
       /\ r.presence # "present" => r.node = None
       /\ r.node # None => r.last = None
       /\ {r.node, r.last} \ {None} \subseteq DOMAIN view.nodes
       /\ Terminal(r) => /\ r.successor \in DOMAIN view.resources
                         /\ r.successor = <<id[1], id[2] + 1>>
       /\ ~Terminal(r) => r.successor = None

\* The generations of one locator are consecutive, and only the last of them
\* may be current.
ValidLocator(view, v) ==
    LET own == {id \in DOMAIN view.resources : id[1] = v}
    IN \A id \in own :
         /\ (\E later \in own : later[2] > id[2]) => <<v, id[2] + 1>> \in own
         /\ view.resources[id].binding # None
              => \A other \in own : other[2] <= id[2]

ValidSnapshot(view) ==
    /\ view.publishedRevision > 0
    /\ view.source # None => ValidSource(view.source)
    /\ view.source = None \/ view.source.committed = 0
         => DOMAIN view.nodes = {} /\ DOMAIN view.resources = {}
    /\ \A id \in DOMAIN view.resources : ValidResource(view, id)
    /\ \A v \in Vmids : ValidLocator(view, v)

-----------------------------------------------------------------------------
(* One view as the successor of another.                                   *)

InventoryProjection(view) == <<view.nodes, view.resources>>

\* What only a committed run may change.
ReconciliationProjection(view) ==
    <<view.nodes,
      [id \in DOMAIN view.resources |->
          LET r == view.resources[id]
          IN <<r.binding, r.type, r.node, r.last, r.presence,
               r.successor>>]>>

NewCommit(old, new) == new.committed > old.committed

\* A sequence, once set, is neither cleared nor moved back.
Advances(old, new) == old # 0 => new >= old

ValidContextStep(old, new) ==
    /\ new.cfg >= old.cfg /\ new.trust >= old.trust /\ new.canon >= old.canon
    /\ new.canon # old.canon => new.cfg > old.cfg

ValidSourceStep(old, new, prev, view) ==
    /\ old.freshness = "stale" /\ new.freshness = "fresh"
         => NewCommit(old, new)
    /\ ValidContextStep(old.current, new.current)
    /\ old.committedContext # None /\ new.committedContext # None
         => ValidContextStep(old.committedContext, new.committedContext)
    /\ new.issued >= old.issued
    /\ Advances(old.latest, new.latest)
    /\ Advances(old.lastHealth, new.lastHealth)
    /\ Advances(old.committed, new.committed)
    /\ NewCommit(old, new) =>
         /\ new.committed > old.latest
         /\ view.inventoryRevision > prev.inventoryRevision
    /\ new.latest = old.latest => new.latestOutcome = old.latestOutcome
    /\ new.lastHealth = old.lastHealth
         => new.healthOutcome = old.healthOutcome
    /\ new.committed = old.committed =>
         /\ new.reference = old.reference
         /\ new.validUntil = old.validUntil
         /\ new.committedContext = old.committedContext
    /\ ReconciliationProjection(view) # ReconciliationProjection(prev)
         => NewCommit(old, new)

SecurityRelevant(old, new) ==
    \/ new.continuity # old.continuity
    \/ (new.lifecycle = "quarantined") # (old.lifecycle = "quarantined")
    \/ Terminal(new) /\ ~Terminal(old)

ValidResourceStep(old, new) ==
    /\ new.type = old.type
    /\ new.revision >= old.revision
    /\ Terminal(old) => /\ Terminal(new)
                        /\ new.successor = old.successor
    /\ ~Terminal(old) /\ ~Terminal(new) => new.binding = old.binding
    /\ SecurityRelevant(old, new) => new.revision > old.revision

ValidTransition(prev, view) ==
    /\ view.inventoryRevision >= prev.inventoryRevision
    /\ view.publishedRevision >= prev.publishedRevision
    /\ view.publishedRevision = prev.publishedRevision => view = prev
    /\ prev.source # None => view.source # None
    /\ DOMAIN prev.nodes \subseteq DOMAIN view.nodes
    /\ DOMAIN prev.resources \subseteq DOMAIN view.resources
    /\ \A id \in DOMAIN view.resources \ DOMAIN prev.resources :
         \A was \in DOMAIN prev.resources : was[1] = id[1] => id[2] > was[2]
    /\ InventoryProjection(view) # InventoryProjection(prev)
         => view.inventoryRevision > prev.inventoryRevision
    /\ prev.source # None
         => ValidSourceStep(prev.source, view.source, prev, view)
    /\ \A id \in DOMAIN prev.resources :
         ValidResourceStep(prev.resources[id], view.resources[id])

-----------------------------------------------------------------------------

\* One refresh: the authority publishes, the reader checks and keeps the view.
Poll ==
    /\ proc = "up" /\ ~refused
    /\ MaterializeExpiry
    /\ UNCHANGED <<config, sourceV, owner, stock, work, clock, world, log,
                   granted, steady, counts>>
    /\ IF ValidSnapshot(View') /\ (held # None => ValidTransition(held, View'))
       THEN held' = View' /\ UNCHANGED refused
       ELSE refused' = TRUE /\ UNCHANGED held

ReaderInit == Init /\ held = None /\ refused = FALSE

ReaderNext == (Next /\ UNCHANGED <<held, refused>>) \/ Poll

ReaderSpec == ReaderInit /\ [][ReaderNext]_readerVars

\* Whatever was published meanwhile and however many views the reader skipped,
\* the next view is one it accepts: no discovery run, restart, configuration
\* edit or expiry ever leaves Home Assistant refusing its own backend
\* (_fetch_snapshot, validate_snapshot, validate_transition).  The instance with
\* restart, edit and expiry is InventoryReaderClock.cfg; NeverRefused is general.
ReaderAccepts == ~refused

\* A guest that was gone in some baseline is never shown as if it had been
\* there all along, though the reader saw neither the gap nor the run: what is
\* active in two views it accepted was sighted, with its type, in every
\* baseline committed between them (reconcile's quarantine, _fetch_snapshot).
NoGapHidden ==
    [][held # None /\ held' # held =>
         \A id \in DOMAIN held.resources :
             held.resources[id].lifecycle = "active"
               /\ held'.resources[id].lifecycle = "active"
             => \A i \in DOMAIN log :
                  log[i].run > held.source.committed
                    => /\ Sighted(id[1], i)
                       /\ KindAt(id[1], i) = held.resources[id].type]_readerVars
=============================================================================
