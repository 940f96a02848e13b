----------------------------- MODULE Discovery -----------------------------
(***************************************************************************)
(* How the authority learns what exists.  The scheduler issues a discovery *)
(* run, reads the Proxmox API under it request by request, and finalizes   *)
(* it: a complete baseline is reconciled into the inventory, anything else *)
(* only moves the source's health.  The process may die and start again at *)
(* any step, with an edited configuration; the clock may be set back; the  *)
(* guests, the nodes and the credential's permissions change between reads.*)
(*                                                                         *)
(* A database transaction is one step.  A worker is one execution of       *)
(* run_discovery_cycle: the runtime starts one, and the module lets        *)
(* several compete, because single flight is the authority's promise and   *)
(* not the scheduler's.  The scheduler's in-process lock is left out.      *)
(***************************************************************************)
EXTENDS Integers, Sequences, FiniteSets

CONSTANTS
    Workers,            \* executions of run_discovery_cycle
    Vmids,              \* guest locators of the source
    Nodes,              \* Proxmox nodes
    Standalone,         \* one node, two guest lists; else a cluster, one list
    InitialGuests,      \* what may stand on the host before the first start
    MayLinger,          \* a cycle may outlive the process that started it
    MaxRuns,            \* bound: runs ever issued
    MaxTime,            \* bound: clock
    MaxEdits,           \* bound: edits of the configuration, context changes
    MaxMoves,           \* bound: changes of guests and nodes
    MaxAclChanges,      \* bound: changes of the credential's permissions
    MaxSetBacks,        \* bound: clock set back
    MaxCrashes,         \* bound: process ends
    MaxDbErrors,        \* bound: transactions the database fails
    None                \* "nothing" of any kind

Runs  == 1 .. MaxRuns
Times == 0 .. MaxTime

ASSUME DiscoveryAssumption ==
    /\ MaxRuns \in Nat /\ MaxTime \in Nat /\ MaxEdits \in Nat
    /\ MaxMoves \in Nat /\ MaxAclChanges \in Nat /\ MaxSetBacks \in Nat
    /\ MaxCrashes \in Nat /\ MaxDbErrors \in Nat
    /\ Standalone \in BOOLEAN /\ MayLinger \in BOOLEAN
    /\ Standalone => \E n \in Nodes : Nodes = {n}
    /\ InitialGuests \subseteq
         [Vmids -> [type : {"lxc", "qemu"}, node : Nodes] \cup {None}]

VARIABLES
    file, proc, loaded, seen,         \* configuration file, process, startup
    source, ctx,                      \* inventory_sources, source_endpoints
    issued, active, committed,        \* its run sequences and the owner
    life, runCtx,                     \* discovery_runs
    health, fresh, origin, ref, until, hctx, lastHealth, latest, \* health
    slot, retired, nodeRow, contracts,\* incarnations, bindings, nodes
    invRev, pubRev,                   \* backend_instance revisions
    pc, mine, rd,                     \* workers: step, run, what was read
    clock, guests, nodes, acl,        \* the world
    log, expired, granted, steady,    \* history, see below
    edits, moves, cuts, setBacks, crashes, dbErrors

config  == <<file, proc, loaded, seen>>
sourceV == <<source, ctx>>
owner   == <<issued, active, committed, life, runCtx>>
healthV == <<health, fresh, origin, ref, until, hctx, lastHealth, latest>>
stock   == <<slot, retired, nodeRow, contracts>>
revs    == <<invRev, pubRev>>
work    == <<pc, mine, rd>>
world   == <<guests, nodes, acl>>
history == <<log, expired, granted, steady>>
counts  == <<edits, moves, cuts, setBacks, crashes, dbErrors>>
vars    == <<config, sourceV, owner, healthV, stock, revs, work, clock, world,
             history, counts>>

-----------------------------------------------------------------------------

Types == {"lxc", "qemu"}
Guest == [type : Types, node : Nodes]

\* What one run saw, per locator: a guest of some type on some node, or none.
Sights == [Vmids -> Guest \cup {None}]

\* Permissions of the credential: two different grants that cover what a
\* baseline needs, and one that does not.
Acls   == {"full", "regranted", "cut"}

\* The effective permissions: whether the required paths are all covered.
Covers(a) == a # "cut"

NodeStates == {"online", "offline", "gone"}

Configs  == [cred : {1, 2}, dur : {1, 2}, endpoint : {"home", "elsewhere"}]
Contexts == [cfg : Nat, trust : Nat, canon : Nat]

Live   == {"issued", "running"}
Failed == {"source_unavailable", "configuration_error", "invalid"}
Done   == Failed \cup {"success"}

Reading == {"topology", "permissions", "status", "nodes", "guests", "qemu",
            "lxc", "topology2", "permissions2"}
Steps   == Reading \cup {"idle", "begin", "commit", "fail", "abandon"}

Busy(w) == pc[w] # "idle"

\* What a worker holds of its reads.  "at" is the moment of its first read
\* of guests, kept for the properties only.
Reads == [cred : {1, 2}, observed : Times, stamp : Times, at : Times,
          topology : Acls, permissions : BOOLEAN, scope : SUBSET Nodes,
          nodes : [Nodes -> NodeStates], guests : Sights,
          outcome : Done]

Slots == [type : Types, gen : Nat, present : BOOLEAN, lifecycle :
          {"active", "quarantined"}, rev : Nat, node : Nodes \cup {None},
          last : Nodes \cup {None}, since : Nat]

ASSUME NoneAssumption == None \notin Configs \cup Guest \cup Slots \cup Nodes

TypeOK ==
    /\ file \in Configs /\ loaded \in Configs /\ seen \in 0 .. MaxRuns
    /\ proc \in {"down", "starting", "recovered", "up"}
    /\ source \in Configs \cup {None} /\ ctx \in Contexts
    /\ issued \in 0 .. MaxRuns /\ active \in 0 .. MaxRuns
    /\ committed \in 0 .. MaxRuns
    /\ life \in [Runs -> Live \cup Done \cup {"none", "abandoned"}]
    /\ runCtx \in [Runs -> Contexts]
    /\ health \in {"not_yet_observed", "healthy", "source_unavailable",
                   "configuration_error", "degraded"}
    /\ fresh \in {"not_yet_observed", "fresh", "stale"}
    /\ origin \in {"initial", "discovery_run", "time_expiry",
                   "controlled_context_transition"}
    /\ ref \in Nat /\ until \in Nat /\ hctx \in Contexts \cup {None}
    /\ lastHealth \in 0 .. MaxRuns /\ latest \in 0 .. MaxRuns
    /\ slot \in [Vmids -> Slots \cup {None}]
    /\ retired \in [Vmids -> Seq([type : Types, rev : Nat,
                                  last : Nodes \cup {None}])]
    /\ nodeRow \in [Nodes -> {"none", "available", "unavailable"}]
    /\ contracts \subseteq Vmids \X Nat
    /\ invRev \in Nat /\ pubRev \in Nat
    /\ pc \in [Workers -> Steps] /\ mine \in [Workers -> 0 .. MaxRuns]
    /\ rd \in [Workers -> Reads]
    /\ clock \in Times /\ guests \in Sights
    /\ nodes \in [Nodes -> NodeStates] /\ acl \in Acls
    /\ granted \in 0 .. MaxRuns /\ expired \subseteq Runs
    /\ steady \in [Workers -> SUBSET Vmids]

NoReads ==
    [cred |-> 1, observed |-> 0, stamp |-> 0, at |-> 0, topology |-> "full",
     permissions |-> TRUE, scope |-> {},
     nodes |-> [n \in Nodes |-> "gone"], guests |-> [v \in Vmids |-> None],
     outcome |-> "success"]

\* A host with an installed, never started backend: no source yet.
Init ==
    /\ file = [cred |-> 1, dur |-> 2, endpoint |-> "home"]
    /\ loaded = file /\ proc = "down" /\ seen = 0
    /\ source = None /\ ctx = [cfg |-> 0, trust |-> 0, canon |-> 0]
    /\ issued = 0 /\ active = 0 /\ committed = 0
    /\ life = [r \in Runs |-> "none"] /\ runCtx = [r \in Runs |-> ctx]
    /\ health = "not_yet_observed" /\ fresh = "not_yet_observed"
    /\ origin = "initial"
    /\ ref = 0 /\ until = 0 /\ hctx = None /\ lastHealth = 0 /\ latest = 0
    /\ slot = [v \in Vmids |-> None] /\ retired = [v \in Vmids |-> <<>>]
    /\ nodeRow = [n \in Nodes |-> "none"] /\ contracts = {}
    /\ invRev = 0 /\ pubRev = 1
    /\ pc = [w \in Workers |-> "idle"] /\ mine = [w \in Workers |-> 0]
    /\ rd = [w \in Workers |-> NoReads]
    /\ clock = 0 /\ guests \in InitialGuests
    /\ nodes = [n \in Nodes |-> "online"] /\ acl = "full"
    /\ log = <<>> /\ expired = {} /\ granted = 0
    /\ steady = [w \in Workers |-> {}]
    /\ edits = 0 /\ moves = 0 /\ cuts = 0 /\ setBacks = 0 /\ crashes = 0
    /\ dbErrors = 0

-----------------------------------------------------------------------------
(* The world.                                                              *)

Tick ==
    /\ clock < MaxTime
    /\ clock' = clock + 1
    /\ UNCHANGED <<config, sourceV, owner, healthV, stock, revs, work, world,
                   history, counts>>

SetBack ==
    /\ setBacks < MaxSetBacks
    /\ \E t \in Times : t < clock /\ clock' = t
    /\ setBacks' = setBacks + 1
    /\ UNCHANGED <<config, sourceV, owner, healthV, stock, revs, work, world,
                   history, edits, moves, cuts, crashes, dbErrors>>

SameGuest(g, h) == (g = None) = (h = None) /\ (g # None => g.type = h.type)

\* A guest is created, destroyed, migrated, or destroyed and created anew
\* under its locator.
GuestChanges ==
    /\ moves < MaxMoves
    /\ \E v \in Vmids, g \in Guest \cup {None} :
         /\ g # guests[v]
         /\ g # None => nodes[g.node] # "gone"
         /\ guests' = [guests EXCEPT ![v] = g]
         /\ steady' = [w \in Workers |->
                IF SameGuest(g, guests[v]) THEN steady[w]
                                           ELSE steady[w] \ {v}]
    /\ moves' = moves + 1
    /\ UNCHANGED <<config, sourceV, owner, healthV, stock, revs, work, clock,
                   nodes, acl, log, expired, granted, edits, cuts, setBacks,
                   crashes, dbErrors>>

\* A cluster node goes down or comes back, or an empty one leaves or joins.
NodeChanges ==
    /\ ~Standalone /\ moves < MaxMoves
    /\ \E n \in Nodes, s \in NodeStates :
         /\ s # nodes[n]
         /\ s = "gone" => /\ \A v \in Vmids : guests[v] # None
                                                => guests[v].node # n
                          /\ \E m \in Nodes \ {n} : nodes[m] # "gone"
         /\ nodes' = [nodes EXCEPT ![n] = s]
    /\ moves' = moves + 1
    /\ UNCHANGED <<config, sourceV, owner, healthV, stock, revs, work, clock,
                   guests, acl, history, edits, cuts, setBacks, crashes,
                   dbErrors>>

AclChanges ==
    /\ cuts < MaxAclChanges
    /\ \E a \in Acls \ {acl} : acl' = a
    /\ cuts' = cuts + 1
    /\ UNCHANGED <<config, sourceV, owner, healthV, stock, revs, work, clock,
                   guests, nodes, history, edits, moves, setBacks, crashes,
                   dbErrors>>

EditConfig ==
    /\ edits < MaxEdits
    /\ \E c \in Configs :
         /\ file' = c
         /\ \E f \in DOMAIN file :
              c[f] # file[f] /\ \A g \in DOMAIN file \ {f} : c[g] = file[g]
    /\ edits' = edits + 1
    /\ UNCHANGED <<proc, loaded, seen, sourceV, owner, healthV, stock, revs,
                   work, clock, world, history, moves, cuts, setBacks, crashes,
                   dbErrors>>

-----------------------------------------------------------------------------
(* What every transaction of the authority is made of.                     *)

PublishOnly  == pubRev' = pubRev + 1 /\ UNCHANGED invRev

\* Mutant: the inventory revision stays.
PublishStock_Same == pubRev' = pubRev + 1 /\ UNCHANGED invRev

PublishStock == pubRev' = pubRev + 1 /\ invRev' = invRev + 1

\* The exact run still owns the source and is not terminal.
OwnsSource(r) == active = r /\ life[r] \in Live

ContextIsCurrent(r) == runCtx[r] = ctx

\* Mutant: ownership is released and the run left as it was.
AbandonRun_KeepsLife(r) ==
    /\ active' = 0
    /\ PublishOnly
    /\ UNCHANGED <<issued, committed, life, runCtx>>

AbandonRun(r) ==
    /\ active' = 0
    /\ life' = [life EXCEPT ![r] = "abandoned"]
    /\ PublishOnly
    /\ UNCHANGED <<issued, committed, runCtx>>

\* Mutant: a transition does not wait for the active run.
ContextTransition_Anytime(newSource, newCtx) ==
    /\ source' = newSource /\ ctx' = newCtx
    /\ fresh' = "stale" /\ origin' = "controlled_context_transition"
    /\ PublishOnly
    /\ UNCHANGED <<health, ref, until, hctx, lastHealth, latest>>

\* Mutant: a transition keeps the source fresh.
ContextTransition_KeepsFresh(newSource, newCtx) ==
    /\ active = 0
    /\ source' = newSource /\ ctx' = newCtx
    /\ PublishOnly
    /\ UNCHANGED healthV

\* A configuration transition leaves the inventory but not its freshness.
ContextTransition(newSource, newCtx) ==
    /\ active = 0
    /\ source' = newSource /\ ctx' = newCtx
    /\ fresh' = "stale" /\ origin' = "controlled_context_transition"
    /\ PublishOnly
    /\ UNCHANGED <<health, ref, until, hctx, lastHealth, latest>>

-----------------------------------------------------------------------------
(* The process: startup recovery, then the configuration, then scheduling. *)

\* The configuration is loaded once, and the owner of the source is read
\* before the transaction that abandons it.
StartProcess ==
    /\ proc = "down"
    /\ proc' = "starting"
    /\ loaded' = file
    /\ seen' = active
    /\ UNCHANGED <<file, sourceV, owner, healthV, stock, revs, work, clock,
                   world, history, counts>>

\* Mutant: startup does not look for a run the last process left.
RecoverRun_Skips ==
    /\ proc = "starting"
    /\ proc' = "recovered"
    /\ UNCHANGED <<file, loaded, seen, sourceV, owner, healthV, stock, revs,
                   work, clock, world, history, counts>>

\* A run that a lingering cycle ends meanwhile is either found terminal, or
\* refuses to be abandoned; the refusal is not caught and ends the startup.
RecoverRun ==
    /\ proc = "starting"
    /\ IF seen # 0 /\ OwnsSource(seen)
       THEN proc' = "recovered" /\ AbandonRun(seen)
       ELSE /\ \/ proc' = "recovered"
               \/ seen # 0 /\ proc' = "down"
            /\ UNCHANGED <<owner, revs>>
    /\ UNCHANGED <<file, loaded, seen, sourceV, healthV, stock, work, clock,
                   world, history, counts>>

CreateSource ==
    /\ proc = "recovered" /\ source = None
    /\ source' = loaded
    /\ ctx' = [cfg |-> 1, trust |-> 1, canon |-> 1]
    /\ PublishStock
    /\ UNCHANGED <<config, owner, healthV, stock, work, clock, world, history,
                   counts>>

\* An endpoint, provider or name that differs is never adopted.
RefuseDrift ==
    /\ proc = "recovered" /\ source # None
    /\ loaded.endpoint # source.endpoint
    /\ proc' = "down"
    /\ UNCHANGED <<file, loaded, seen, sourceV, owner, healthV, stock, revs,
                   work, clock, world, history, counts>>

MayAdopt ==
    /\ proc = "recovered" /\ source # None
    /\ loaded.endpoint = source.endpoint

RotateCredential ==
    /\ MayAdopt /\ loaded.cred # source.cred
    /\ ContextTransition([source EXCEPT !.cred = loaded.cred],
                         [ctx EXCEPT !.cfg = @ + 1])
    /\ UNCHANGED <<config, owner, stock, work, clock, world, history, counts>>

ConfigureFreshness ==
    /\ MayAdopt /\ loaded.cred = source.cred /\ loaded.dur # source.dur
    /\ ContextTransition([source EXCEPT !.dur = loaded.dur],
                         [ctx EXCEPT !.cfg = @ + 1])
    /\ UNCHANGED <<config, owner, stock, work, clock, world, history, counts>>

StartScheduler ==
    /\ MayAdopt /\ loaded = source
    /\ proc' = "up"
    /\ UNCHANGED <<file, loaded, seen, sourceV, owner, healthV, stock, revs,
                   work, clock, world, history, counts>>

\* The two transitions the runtime has no caller for.
RotateTransportTrust ==
    /\ edits < MaxEdits /\ source # None
    /\ ContextTransition(source, [ctx EXCEPT !.cfg = @ + 1, !.trust = @ + 1])
    /\ edits' = edits + 1
    /\ UNCHANGED <<config, owner, stock, work, clock, world, history, moves,
                   cuts, setBacks, crashes, dbErrors>>

MigrateCanonicalization ==
    /\ edits < MaxEdits /\ source # None
    /\ ContextTransition(source, [ctx EXCEPT !.cfg = @ + 1, !.canon = @ + 1])
    /\ edits' = edits + 1
    /\ UNCHANGED <<config, owner, stock, work, clock, world, history, moves,
                   cuts, setBacks, crashes, dbErrors>>

\* The process ends, at any step of its startup too.  stop() waits a while
\* for a cycle in flight and then only expects the process to exit, so a
\* cycle may go on.
ProcessEnds ==
    /\ proc # "down" /\ crashes < MaxCrashes
    /\ proc' = "down"
    /\ \E L \in SUBSET {w \in Workers : Busy(w)} :
         /\ L # {} => MayLinger
         /\ pc' = [w \in Workers |-> IF w \in L THEN pc[w] ELSE "idle"]
         /\ mine' = [w \in Workers |-> IF w \in L THEN mine[w] ELSE 0]
         /\ rd' = [w \in Workers |-> IF w \in L THEN rd[w] ELSE NoReads]
    /\ crashes' = crashes + 1
    /\ UNCHANGED <<file, loaded, seen, sourceV, owner, healthV, stock, revs,
                   clock, world, history, edits, moves, cuts, setBacks,
                   dbErrors>>

-----------------------------------------------------------------------------
(* One discovery cycle.                                                    *)

Claim ==
    /\ issued' = issued + 1
    /\ active' = issued + 1
    /\ life' = [life EXCEPT ![issued + 1] = "issued"]
    /\ runCtx' = [runCtx EXCEPT ![issued + 1] = ctx]
    /\ PublishOnly
    /\ UNCHANGED committed

MayIssue(w) ==
    /\ proc = "up" /\ pc[w] = "idle" /\ issued < MaxRuns
    /\ source # None /\ active = 0

\* The observation time is read before any request is sent.
ObservedAt(w) == clock

Issue(w) ==
    /\ MayIssue(w)
    /\ Claim
    /\ pc' = [pc EXCEPT ![w] = "begin"]
    /\ mine' = [mine EXCEPT ![w] = issued + 1]
    /\ rd' = [rd EXCEPT ![w] = [NoReads EXCEPT !.observed = ObservedAt(w),
                                               !.cred = loaded.cred]]
    /\ steady' = [steady EXCEPT ![w] = Vmids]
    /\ UNCHANGED <<config, sourceV, healthV, stock, clock, world, log, expired,
                   granted, counts>>

\* The run is claimed, and reading it back fails: the cycle has no handle on
\* the run yet and no safety net around the call.
IssueThenError(w) ==
    /\ MayIssue(w) /\ dbErrors < MaxDbErrors
    /\ Claim
    /\ dbErrors' = dbErrors + 1
    /\ UNCHANGED <<config, sourceV, healthV, stock, work, clock, world,
                   history, edits, moves, cuts, setBacks, crashes>>

GoesTo(w, step) == pc' = [pc EXCEPT ![w] = step] /\ UNCHANGED <<mine, rd>>

\* The cycle returns, and with it everything it held.
Returns(w) ==
    /\ pc' = [pc EXCEPT ![w] = "idle"]
    /\ mine' = [mine EXCEPT ![w] = 0]
    /\ rd' = [rd EXCEPT ![w] = NoReads]

Begin(w) ==
    /\ pc[w] = "begin"
    /\ IF active = mine[w] /\ life[mine[w]] = "issued"
       THEN /\ life' = [life EXCEPT ![mine[w]] = "running"]
            /\ PublishOnly
            /\ GoesTo(w, "topology")
       ELSE GoesTo(w, "abandon") /\ UNCHANGED <<life, revs>>
    /\ UNCHANGED <<config, sourceV, issued, active, committed, runCtx, healthV,
                   stock, clock, world, history, counts>>

\* One GET: the step after it, and what the worker then holds.
Got(w, step, reads) ==
    /\ pc' = [pc EXCEPT ![w] = step]
    /\ rd' = [rd EXCEPT ![w] = reads]
    /\ UNCHANGED <<config, sourceV, owner, healthV, stock, revs, mine, clock,
                   world, history, counts>>

\* A refused read is a failed run; its completion time is read at once.
Refused(w, outcome) ==
    Got(w, "fail", [rd[w] EXCEPT !.outcome = outcome, !.stamp = clock])

ReadTopology(w) ==
    /\ pc[w] = "topology"
    /\ Got(w, "status", [rd[w] EXCEPT !.topology = acl])

ReadStatus(w) ==
    /\ pc[w] = "status"
    /\ Got(w, "permissions",
           [rd[w] EXCEPT !.scope = {n \in Nodes : nodes[n] # "gone"}])

ReadPermissions(w) ==
    /\ pc[w] = "permissions"
    /\ Got(w, "nodes", [rd[w] EXCEPT !.permissions = Covers(acl)])

ReadNodes(w) ==
    /\ pc[w] = "nodes"
    /\ IF {n \in Nodes : nodes[n] # "gone"} = rd[w].scope
       THEN Got(w, IF Standalone THEN "qemu" ELSE "guests",
                [rd[w] EXCEPT !.nodes = nodes])
       ELSE Refused(w, "invalid")

\* Proxmox lists the guests the credential may see.
Listed(kinds) ==
    {s \in [Vmids -> Guest \cup {None}] :
        \A v \in Vmids :
            IF guests[v] = None \/ guests[v].type \notin kinds
            THEN s[v] = None
            ELSE s[v] = guests[v] \/ (~Covers(acl) /\ s[v] = None)}

ReadGuests(w) ==
    /\ pc[w] = "guests"
    /\ \E s \in Listed(Types) :
         Got(w, "topology2", [rd[w] EXCEPT !.guests = s, !.at = clock])

ReadQemu(w) ==
    /\ pc[w] = "qemu"
    /\ \E s \in Listed({"qemu"}) :
         Got(w, "lxc", [rd[w] EXCEPT !.guests = s, !.at = clock])

\* A locator in both lists is ambiguous.
ReadLxc(w) ==
    /\ pc[w] = "lxc"
    /\ \E s \in Listed({"lxc"}) :
         IF \E v \in Vmids : s[v] # None /\ rd[w].guests[v] # None
         THEN Refused(w, "invalid")
         ELSE Got(w, "topology2", [rd[w] EXCEPT !.guests =
                [v \in Vmids |-> IF s[v] # None THEN s[v]
                                 ELSE rd[w].guests[v]]])

RereadTopology(w) ==
    /\ pc[w] = "topology2"
    /\ IF acl = rd[w].topology
       THEN Got(w, "permissions2", rd[w])
       ELSE Got(w, "permissions2", [rd[w] EXCEPT !.outcome = "invalid"])

\* Mutant: the reads after the baseline are not compared.
Boundary_TrustsFirst(w) ==
    IF rd[w].permissions THEN "success" ELSE "configuration_error"

\* classify_boundary: what changed while it was read is invalid, what the
\* credential does not cover is a configuration error.
Boundary(w) ==
    IF rd[w].outcome = "invalid" \/ Covers(acl) # rd[w].permissions
    THEN "invalid"
    ELSE IF Covers(acl) THEN "success" ELSE "configuration_error"

\* A guest on a node that was not listed does not normalize: an unexpected
\* error, which the safety net turns into an abandoned run.
Normalizes(w) ==
    \A v \in Vmids : rd[w].guests[v] # None
                       => rd[w].guests[v].node \in rd[w].scope

RereadPermissions(w) ==
    /\ pc[w] = "permissions2"
    /\ LET result == [rd[w] EXCEPT !.outcome = Boundary(w), !.stamp = clock]
       IN  IF Boundary(w) # "success" THEN Got(w, "fail", result)
           ELSE IF Normalizes(w) THEN Got(w, "commit", result)
           ELSE Got(w, "abandon", rd[w])

\* Any request may fail: no answer, a refused credential, a malformed body.
ReadFails(w) ==
    /\ pc[w] \in Reading
    /\ \E outcome \in Failed : Refused(w, outcome)

-----------------------------------------------------------------------------
(* Reconciliation: one complete baseline applied to the stored inventory.  *)

NewSlot(g, gen, r) ==
    [type |-> g.type, gen |-> gen, present |-> TRUE, lifecycle |-> "active",
     rev |-> 1, node |-> g.node, last |-> None, since |-> r]

\* The same incarnation seen again.  After a gap it is quarantined for good.
SeenAgain(old, g) ==
    [old EXCEPT !.present = TRUE, !.node = g.node, !.last = None,
                !.lifecycle = IF old.present THEN @ ELSE "quarantined",
                !.rev = IF old.present THEN @ ELSE @ + 1]

LastNode(old) == IF old.node # None THEN old.node ELSE old.last

\* Mutant: the gap is not counted.
NotSeen_Uncounted(old) ==
    IF ~old.present THEN old
    ELSE [old EXCEPT !.present = FALSE, !.lifecycle = "quarantined",
                     !.node = None, !.last = LastNode(old)]

NotSeen(old) ==
    IF ~old.present THEN old
    ELSE [old EXCEPT !.present = FALSE, !.lifecycle = "quarantined",
                     !.rev = @ + 1, !.node = None, !.last = LastNode(old)]

Replaced(v, g) == slot[v] # None /\ g # None /\ slot[v].type # g.type

ReconcileSlot(v, g, r) ==
    CASE slot[v] = None /\ g = None -> None
      [] slot[v] = None /\ g # None -> NewSlot(g, 1, r)
      [] slot[v] # None /\ g = None -> NotSeen(slot[v])
      [] Replaced(v, g)             -> NewSlot(g, slot[v].gen + 1, r)
      [] OTHER                      -> SeenAgain(slot[v], g)

ReconcileNode(n, state) ==
    CASE state = "online"  -> "available"
      [] state = "offline" -> "unavailable"
      [] state = "gone"    -> IF nodeRow[n] = "none" THEN "none"
                              ELSE "unavailable"

PackageTarget(s) ==
    s # None /\ s.type = "lxc" /\ s.present /\ s.lifecycle = "active"
             /\ s.node # None

Reconcile(obs, r) ==
    /\ slot' = [v \in Vmids |-> ReconcileSlot(v, obs.guests[v], r)]
    /\ retired' = [v \in Vmids |->
           IF Replaced(v, obs.guests[v])
           THEN Append(retired[v], [type |-> slot[v].type,
                                    rev |-> slot[v].rev + 1,
                                    last |-> LastNode(slot[v])])
           ELSE retired[v]]
    /\ nodeRow' = [n \in Nodes |-> ReconcileNode(n, obs.nodes[n])]
    /\ contracts' = contracts \cup
           {<<v, slot'[v].gen>> : v \in {u \in Vmids : PackageTarget(slot'[u])}}

-----------------------------------------------------------------------------
(* Finalization.                                                           *)

\* A clock behind the observation, or past the deadline, is not fresh.
JudgeFresh(now, from, to) == IF from <= now /\ now < to THEN "fresh" ELSE "stale"

JudgeOrigin(now, from, to) ==
    IF from <= now /\ now >= to THEN "time_expiry" ELSE "discovery_run"

Release(r, outcome) ==
    /\ active' = 0
    /\ life' = [life EXCEPT ![r] = outcome]
    /\ UNCHANGED <<issued, runCtx>>

\* Mutant: only the first completion is noted.
Provenance_Once(r) == latest' = IF latest = 0 THEN r ELSE latest

Provenance(r) == latest' = IF latest < r THEN r ELSE latest

\* Mutant: freshness counts from the end of the run.
FreshnessReference_Late(w) == rd[w].stamp

\* The oldest observation of the baseline: all carry the run's own.
FreshnessReference(w) == rd[w].observed

Commit(w) ==
    LET r    == mine[w]
        from == FreshnessReference(w)
        to   == from + source.dur
    IN /\ Reconcile(rd[w], r)
       /\ fresh' = JudgeFresh(rd[w].stamp, from, to)
       /\ origin' = JudgeOrigin(rd[w].stamp, from, to)
       /\ health' = "healthy" /\ ref' = from /\ until' = to
       /\ hctx' = ctx /\ lastHealth' = r /\ latest' = r
       /\ committed' = r
       /\ Release(r, "success")
       /\ PublishStock
       /\ log' = Append(log, [run |-> r, at |-> rd[w].at,
                              guests |-> rd[w].guests, nodes |-> rd[w].nodes])

\* The baseline of a run whose context changed is audited and not applied.
AuditOnly(w) ==
    /\ Release(mine[w], "invalid")
    /\ Provenance(mine[w])
    /\ PublishOnly
    /\ UNCHANGED <<committed, stock, log, health, fresh, origin, ref, until,
                   hctx, lastHealth>>

\* Mutant: a baseline is applied without asking who owns the source.
FinalizeSuccess_Late(w) ==
    /\ pc[w] = "commit"
    /\ Commit(w) /\ Returns(w)
    /\ UNCHANGED <<config, sourceV, clock, world, expired, granted, steady,
                   counts>>

\* A conflict, from here or from the authority, ends in the safety net.
FinalizeSuccess(w) ==
    /\ pc[w] = "commit"
    /\ IF OwnsSource(mine[w])
       THEN IF ContextIsCurrent(mine[w])
            THEN IF committed < mine[w] /\ lastHealth < mine[w]
                 THEN Commit(w) /\ Returns(w)
                 ELSE /\ GoesTo(w, "abandon")
                      /\ UNCHANGED <<owner, healthV, stock, revs, log>>
            ELSE AuditOnly(w) /\ GoesTo(w, "abandon")
       ELSE /\ GoesTo(w, "abandon")
            /\ UNCHANGED <<owner, healthV, stock, revs, log>>
    /\ UNCHANGED <<config, sourceV, clock, world, expired, granted, steady,
                   counts>>

HealthOf(outcome) == IF outcome = "invalid" THEN "degraded" ELSE outcome

FinalizeFailed(w) ==
    /\ pc[w] = "fail"
    /\ IF OwnsSource(mine[w])
       THEN /\ Release(mine[w], rd[w].outcome)
            /\ IF ContextIsCurrent(mine[w]) /\ lastHealth < mine[w]
               THEN /\ health' = HealthOf(rd[w].outcome) /\ fresh' = "stale"
                    /\ origin' = "discovery_run" /\ lastHealth' = mine[w]
               ELSE UNCHANGED <<health, fresh, origin, lastHealth>>
            /\ Provenance(mine[w])
            /\ PublishOnly
            /\ UNCHANGED <<committed, ref, until, hctx>>
            /\ Returns(w)
       ELSE GoesTo(w, "abandon") /\ UNCHANGED <<owner, healthV, revs>>
    /\ UNCHANGED <<config, sourceV, stock, clock, world, history, counts>>

\* The safety net: a run that is no longer the owner's is already settled.
Abandon(w) ==
    /\ pc[w] = "abandon"
    /\ Returns(w)
    /\ IF OwnsSource(mine[w]) THEN AbandonRun(mine[w])
                              ELSE UNCHANGED <<owner, revs>>
    /\ UNCHANGED <<config, sourceV, healthV, stock, clock, world, history,
                   counts>>

\* A transaction of the cycle fails in the database and is rolled back; the
\* safety net's own failure leaves the cycle.
DbError(w) ==
    /\ dbErrors < MaxDbErrors
    /\ pc[w] \in {"begin", "commit", "fail", "abandon"}
    /\ IF pc[w] = "abandon" THEN Returns(w) ELSE GoesTo(w, "abandon")
    /\ dbErrors' = dbErrors + 1
    /\ UNCHANGED <<config, sourceV, owner, healthV, stock, revs, clock, world,
                   history, edits, moves, cuts, setBacks, crashes>>

-----------------------------------------------------------------------------
(* Expiry, and the guard that mutations and scans ask.                     *)

\* Mutant: a clock behind the observation goes unnoticed.
Due_OnlyForward == fresh = "fresh" /\ hctx = ctx /\ clock >= until

Due == fresh = "fresh" /\ hctx = ctx /\ (clock < ref \/ clock >= until)

\* Every reader first makes a due expiry durable, in its own transaction.
MaterializeExpiry ==
    IF Due
    THEN /\ fresh' = "stale" /\ origin' = "time_expiry" /\ PublishOnly
         /\ expired' = expired \cup {committed}
         /\ UNCHANGED <<health, ref, until, hctx, lastHealth, latest>>
    ELSE UNCHANGED <<healthV, revs, expired>>

HasCurrentAuthority == health = "healthy" /\ fresh' = "fresh" /\ hctx = ctx

\* "granted" is the committed run the last positive answer rests on.
AskFreshness ==
    /\ source # None
    /\ MaterializeExpiry
    /\ granted' = IF HasCurrentAuthority THEN committed ELSE 0
    /\ UNCHANGED <<config, sourceV, owner, stock, work, clock, world, log,
                   steady, counts>>

-----------------------------------------------------------------------------

Read(w) ==
    \/ ReadTopology(w) \/ ReadStatus(w) \/ ReadPermissions(w) \/ ReadNodes(w)
    \/ ReadGuests(w) \/ ReadQemu(w) \/ ReadLxc(w) \/ RereadTopology(w)
    \/ RereadPermissions(w)

Cycle(w) ==
    \/ Begin(w) \/ Read(w) \/ FinalizeSuccess(w) \/ FinalizeFailed(w)
    \/ Abandon(w)

Startup ==
    \/ StartProcess \/ RecoverRun \/ CreateSource \/ RefuseDrift
    \/ RotateCredential \/ ConfigureFreshness \/ StartScheduler

World == Tick \/ SetBack \/ GuestChanges \/ NodeChanges \/ AclChanges \/ EditConfig

Next ==
    \/ World \/ Startup \/ ProcessEnds \/ AskFreshness
    \/ RotateTransportTrust \/ MigrateCanonicalization
    \/ \E w \in Workers : \/ Issue(w) \/ IssueThenError(w) \/ Cycle(w)
                          \/ ReadFails(w) \/ DbError(w)

Spec == Init /\ [][Next]_vars

\* A cycle in flight goes on: every request has a timeout, every transaction
\* a busy timeout.  A service that is down is started again.
FairSpec ==
    /\ Spec
    /\ \A w \in Workers : WF_vars(Cycle(w))
    /\ WF_vars(Startup)

-----------------------------------------------------------------------------
(* Properties.                                                             *)

\* Single flight (issue_discovery_run, _release_run, abandon_discovery_run):
\* the source's owner is a live run, and no other run is live, whatever
\* workers compete, die, linger or fail.
OwnerIsLive ==
    /\ active # 0 => life[active] \in Live
    /\ \A r \in Runs : life[r] \in Live => r = active

\* A cycle owns what it claimed until it ends it: while the process is up, an
\* owned source has a cycle at work on it (run_discovery_cycle's safety net).
NoStrandedRun ==
    proc = "up" /\ active # 0 => \E w \in Workers : Busy(w) /\ mine[w] = active

\* The context a run was issued under cannot change while it owns the source,
\* and it reads with the credential that context names, though the process
\* restarts under another configuration and the old cycle lingers.
OwnerIsCurrent ==
    active # 0 =>
        /\ runCtx[active] = ctx
        /\ \A w \in Workers : Busy(w) /\ mine[w] = active
                                  => rd[w].cred = source.cred

\* A baseline is applied by the run that owns the source, once, and in the
\* order of issue; a run that was abandoned or replaced meanwhile stays so,
\* and its late result touches nothing (finalize_successful_discovery_run).
OnlyTheOwnerIsApplied ==
    [][/\ <<log, stock, committed>>' # <<log, stock, committed>>
            => /\ active # 0 /\ life[active] = "running"
               /\ committed < active /\ committed' = active
               /\ Len(log') = Len(log) + 1
       /\ \A r \in Runs : life[r] \in Done \cup {"abandoned"}
                            => life'[r] = life[r]]_vars

\* What the stored row of locator v must be, from the committed baselines.
Sighted(v, i) == log[i].guests[v] # None
Sightings(v)  == {i \in DOMAIN log : Sighted(v, i)}
LastSighting(v) == CHOOSE i \in Sightings(v) : \A j \in Sightings(v) : j <= i
KindAt(v, i)  == log[i].guests[v].type

\* The first baseline of the incarnation that was sighted last.
Birth(v) ==
    CHOOSE i \in Sightings(v) :
        /\ \A j \in Sightings(v) : j >= i => KindAt(v, j) = KindAt(v, i)
        /\ \A k \in Sightings(v) :
             k < i => \E j \in Sightings(v) : /\ j >= k
                                             /\ KindAt(v, j) # KindAt(v, i)

\* Sightings that show another type than the sighting before them.
Rebirths(v) ==
    {i \in Sightings(v) :
        \E k \in Sightings(v) :
            /\ k < i /\ KindAt(v, k) # KindAt(v, i)
            /\ \A j \in Sightings(v) : ~(k < j /\ j < i)}

SlotOfHistory(v) ==
    LET b == Birth(v)
        e == Len(log)
    IN [type      |-> KindAt(v, b),
        gen       |-> 1 + Cardinality(Rebirths(v)),
        present   |-> Sighted(v, e),
        lifecycle |-> IF \A i \in b .. e : Sighted(v, i) THEN "active"
                      ELSE "quarantined",
        rev       |-> 1 + Cardinality({i \in b + 1 .. e :
                                         Sighted(v, i) # Sighted(v, i - 1)}),
        node      |-> IF Sighted(v, e) THEN log[e].guests[v].node ELSE None,
        last      |-> IF Sighted(v, e) THEN None
                      ELSE log[LastSighting(v)].guests[v].node,
        since     |-> log[b].run]

\* The inventory is what the committed baselines say, and nothing else moves
\* it: a locator is active only if its guest was in every baseline since it
\* first appeared, every gap is remembered for good and counted, a change of
\* type starts a new incarnation and retires the old one (reconcile).
InventoryIsItsHistory ==
    /\ \A v \in Vmids :
         IF Sightings(v) = {} THEN slot[v] = None /\ retired[v] = <<>>
         ELSE /\ slot[v] = SlotOfHistory(v)
              /\ Len(retired[v]) = slot[v].gen - 1
              /\ PackageTarget(slot[v]) => <<v, slot[v].gen>> \in contracts
    /\ \A n \in Nodes : log # <<>> =>
         nodeRow[n] = CASE log[Len(log)].nodes[n] = "online"  -> "available"
                        [] log[Len(log)].nodes[n] = "offline" -> "unavailable"
                        [] OTHER -> IF \E i \in DOMAIN log :
                                         log[i].nodes[n] # "gone"
                                    THEN "unavailable" ELSE "none"

\* A baseline about to be reconciled tells the truth about every guest that
\* was not created, destroyed or replaced while it was read: the reads of
\* permissions around it (collect_boundary_baseline, classify_boundary) rule
\* out a guest that was only hidden.  It is about one change of permissions;
\* two that cancel out between the reads are not seen.
CompleteIsTruthful ==
    \A w \in Workers : pc[w] = "commit" =>
        \A v \in steady[w] : SameGuest(rd[w].guests[v], guests[v])

\* A fresh source rests on the newest run that had a say: its health is that
\* run's, it was committed under the present context and its deadline is that
\* of the configured duration (finalization, _change_source_configuration).
FreshIsEarned ==
    fresh = "fresh" =>
        /\ health = "healthy" /\ committed # 0
        /\ lastHealth = committed /\ latest = committed
        /\ hctx = ctx
        /\ until = ref + source.dur

\* The recorded health is that of the newest completed run, across failures,
\* abandoned runs and configuration changes.
HealthIsNewest ==
    LET done == {r \in Runs : life[r] \in Done}
    IN IF done = {} THEN health = "not_yet_observed" /\ latest = 0
       ELSE /\ latest \in done /\ \A r \in done : r <= latest
            /\ health = IF life[latest] = "success" THEN "healthy"
                        ELSE HealthOf(life[latest])

\* What the authority's run bookkeeping keeps true of one source, between any
\* two transactions of competing, dying and restarting processes.
SourceIsConsistent == TypeOK /\ OwnerIsLive /\ OwnerIsCurrent /\ HealthIsNewest

\* An answer "fresh" is given inside the interval, and an inventory once found
\* expired never gets it again, though the clock be set back: only a newer
\* committed run does (_materialize_due_expiry_in_transaction).
GrantedInTime ==
    [][granted' # 0 /\ AskFreshness =>
         /\ ref <= clock /\ clock < until
         /\ granted' = committed /\ granted' \notin expired']_vars

\* With a clock that is never set back, no answer "fresh" rests on guests that
\* were read longer ago than the configured duration, though the run took any
\* time and waited any time for its transaction.
GrantedOnRecentReads ==
    [][granted' # 0 /\ AskFreshness /\ setBacks = 0
         => clock - log[Len(log)].at < source.dur]_vars

\* A run that owns the source gives it back, through crashes and restarts.
OwnerLetsGo == active # 0 ~> active = 0
=============================================================================
