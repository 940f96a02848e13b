---------------------------- MODULE ProductUpdate ----------------------------
(***************************************************************************)
(* The in-place product updater (deploy/update-proxmox-0.5.sh and          *)
(* deploy/lib/update-*.sh): one run replaces the installation's artifacts  *)
(* one by one between two proofs that the service runs, and every failure, *)
(* kill and power loss in between must end in exactly the old or exactly   *)
(* the new installation.                                                   *)
(*                                                                         *)
(* A path's present state and the states a power loss may leave it in are  *)
(* kept apart: a rename or a write adds a possible state, and only         *)
(* `sync -f' of the file system that holds the path reduces the possible   *)
(* states to the present one.                                              *)
(***************************************************************************)
EXTENDS Integers, Sequences, FiniteSets

CONSTANTS
    Plans,          \* what update_plan_classify may answer: [changed, reset]
    Installations,  \* what may be installed: [marker, route], see below
    ClientMayDie,   \* the fence client may be interrupted while it waits
    MaxRuns,        \* bound: fresh run ids (an invocation without a journal)
    MaxFaults       \* bound: failed commands, kills and power losses

\* The rollback-managed artifacts and the database in activation order; "access"
\* is a boundary that did not exist (helper, key and authorization), and the
\* marker comes after the target was accepted.
Order == <<"app", "venv", "req", "unit", "helper", "boundary", "access", "config",
           "db", "marker">>
Artifacts == {"app", "venv", "req", "unit", "helper", "boundary", "access", "config",
              "marker"}

ASSUME PlansAssumption ==
    \A p \in Plans : p.changed \subseteq Artifacts /\ p.reset \in BOOLEAN
                     /\ "app" \in p.changed /\ "marker" \notin p.changed
                     /\ ("req" \in p.changed <=> "venv" \in p.changed)
ASSUME FlagsAssumption ==
    /\ Installations \subseteq [marker : BOOLEAN, route : BOOLEAN]
    /\ ClientMayDie \in BOOLEAN
    /\ MaxRuns \in Nat /\ MaxFaults \in Nat

VARIABLES
    install,    \* the old installation, never changed
    pc,         \* where the updater process is; "off" when none runs
    left,       \* the artifacts it has still to work on
    art,        \* the artifact in hand
    todo,       \* and the operations on it that are still to do
    ledger,     \* BOOTSTRAP_LEDGER, lost with the process
    journal,    \* the durable interrupted-update journal of the VMID
    plan,       \* the classified plan of the newest run
    now,        \* per artifact: the live path and its rollback-<run> path
    may,        \* per artifact: the states a power loss may leave
    enable,     \* hubinet-ops is enabled for boot activation
    mayEnable,
    db,         \* the authority database
    mayDb,
    backup,     \* the validated backup of the run
    fence,      \* holder named by the maintenance fence file, 0 if absent
    mayFence,
    loaded,     \* generation of the unit definition systemd holds in memory
    ran,        \* what the running service runs: "none", "old", "new", "mixed"
    req,        \* fence request being served by the backend (a run id, or 0)
    ans,        \* its answer, not yet read by the updater
    job,        \* a workload package-update job is active
    runs,       \* run ids handed out
    faults,     \* faults so far
    reenabled   \* the newest run has restored boot activation

disk == <<now, may, enable, mayEnable, db, mayDb, backup>>
work == <<left, art, todo>>
vars == <<install, pc, work, ledger, journal, plan, disk, fence, mayFence,
          loaded, ran, req, ans, job, runs, faults, reenabled>>

\* The installation has an installed-source marker, and its backend serves the
\* maintenance-fence route: an older one has neither.
MarkerExisted == install.marker
OldHasRoute   == install.route

NoJournal == [state |-> "none", run |-> 0, armed |-> FALSE, ledger |-> {}]
NoPlan    == [changed |-> {}, reset |-> FALSE]

\* What an artifact's live path holds in the old installation.
OldLive(a) == IF a = "access" \/ (a = "marker" /\ ~MarkerExisted) THEN "none" ELSE "old"
OldState(a) == [live |-> OldLive(a), rb |-> "none"]

\* The file system that holds an artifact.  /opt, /etc and /var are kept apart
\* inside the container, as the updater's barriers do; the host is one.
FsOf(a) == CASE a \in {"app", "venv", "req", "marker"} -> "opt"
             [] a \in {"unit", "config"}               -> "etc"
             [] a = "db"                               -> "var"
             [] OTHER                                  -> "host"

\* The ledger marker that arms the rollback of an artifact.
MarkerOf(a) == IF a = "req" THEN "venv" ELSE a

Markers == Artifacts \cup {"autostart", "stop", "db", "restored", "fenceheld",
                           "marker-exists", "marker-absent"}

Pcs == {"off", "done", "begun", "planned", "fencewait", "disable", "disabling", "disabled",
        "stop", "stopping", "swap", "start", "mark", "enable", "enabled",
        "completing", "release1", "cleanup1", "cleanup2", "release2", "clear", "trap",
        "untouched", "rbstop", "rb", "rbsync", "rbstart", "rbdone"}

Init ==
    /\ install \in Installations
    /\ pc = "off" /\ left = {} /\ art = "app" /\ todo = <<>> /\ ledger = {}
    /\ journal = NoJournal /\ plan = NoPlan
    /\ now = [a \in Artifacts |-> OldState(a)]
    /\ may = [a \in Artifacts |-> {OldState(a)}]
    /\ enable = TRUE /\ mayEnable = {TRUE}
    /\ db = "old" /\ mayDb = {"old"} /\ backup = FALSE
    /\ fence = 0 /\ mayFence = {0}
    /\ loaded = "old" /\ ran = "old"
    /\ req = 0 /\ ans = "none" /\ job \in {FALSE, OldHasRoute}
    /\ runs = 0 /\ faults = 0 /\ reenabled = FALSE

----------------------------------------------------------------------------
(* Operations on the disks.                                                *)

Write(a, v) ==
    /\ now' = [now EXCEPT ![a] = v]
    /\ may' = [may EXCEPT ![a] = @ \cup {v}]
    /\ UNCHANGED <<enable, mayEnable, db, mayDb, backup>>

WriteEnable(v) ==
    /\ enable' = v /\ mayEnable' = mayEnable \cup {v}
    /\ UNCHANGED <<now, may, db, mayDb, backup>>

WriteDb(v) ==
    /\ db' = v /\ mayDb' = mayDb \cup {v}
    /\ UNCHANGED <<now, may, enable, mayEnable, backup>>

\* cmd_backup: the validated copy is durable before it counts.
BackupDb ==
    /\ backup' = TRUE /\ mayDb' = {db}
    /\ UNCHANGED <<now, may, enable, mayEnable, db>>

\* cmd_remove: the database and its sidecars are proven absent, durably.
ErasedDb ==
    /\ db' = "none" /\ mayDb' = {"none"}
    /\ UNCHANGED <<now, may, enable, mayEnable, backup>>

\* The database is the pre-update authority, by its identity and not by its
\* content (_update_prove_restored_authority_lineage).
LineageOld == db \in {"old", "oldw"}

\* sync -f of every file system in fss.
Sync(fss) ==
    /\ may' = [a \in Artifacts |-> IF FsOf(a) \in fss THEN {now[a]} ELSE may[a]]
    /\ mayEnable' = IF "etc" \in fss THEN {enable} ELSE mayEnable
    /\ mayDb' = IF "var" \in fss THEN {db} ELSE mayDb
    /\ UNCHANGED <<now, enable, db, backup>>

\* update_journal_checkpoint: temporary file, sync, rename, sync of the state
\* directory; the syncs flush the host's file system.
Checkpoint(j) == journal' = j /\ Sync({"host"})

\* update_journal_record: the ledger first, then an active checkpoint.
Record(ms, arm) ==
    /\ ledger' = ledger \cup ms
    /\ Checkpoint([journal EXCEPT !.state = "active", !.armed = @ \/ arm,
                                  !.ledger = ledger \cup ms])

----------------------------------------------------------------------------
(* What the service runs when it is started from the disk.                 *)

Usable(n, a) == n[a].live \in {"old", "new"}

\* The unit definition in effect, the artifacts and the database, taken
\* together; a missing or half-built program does not start at all.  The old
\* program uses neither the marker nor a boundary its configuration lacks.
Started(n, d, unit) ==
    IF ~(\A a \in {"app", "venv", "unit"} : Usable(n, a)) THEN "none"
    ELSE IF /\ \A a \in Artifacts \ {"marker", "access"} : n[a].live = "old"
            /\ unit = "old" /\ d \in {"old", "oldw"}
         THEN "old"
    ELSE IF /\ \A a \in plan.changed : n[a].live = "new"
            /\ unit = n["unit"].live
            /\ d \in IF plan.reset THEN {"none", "new"} ELSE {"old", "oldw"}
         THEN "new"
    ELSE "mixed"

\* A service started without a database creates a fresh authority.
DbAfterStart(r, d) == IF r # "none" /\ d = "none" THEN "new" ELSE d

\* systemctl start hubinet-ops
StartService ==
    /\ ran' = Started(now, db, loaded)
    /\ db' = DbAfterStart(ran', db)
    /\ mayDb' = IF db' = db THEN mayDb ELSE mayDb \cup {db'}
    /\ UNCHANGED <<now, may, enable, mayEnable, backup>>

\* The proof that the installation is in service: enabled, active, healthy.
InService == enable /\ ran # "none"

----------------------------------------------------------------------------
(* The updater: invocation, plan and fence.                                *)

\* Mutant: the client's timeout is shorter than the backend's busy timeout.
ClientGone_ShortTimeout == TRUE

\* The fence client gives up.  Its timeout exceeds the time the backend may
\* take before it answers, so it finds the request served; an interrupted
\* client leaves the request behind.  The client inherits the run's lock, so
\* no other invocation starts before it is gone.
ClientGone == ClientMayDie \/ req = 0

\* An invocation that finds no journal: a new run id and the first checkpoint.
BeginRun ==
    /\ pc = "off" /\ journal = NoJournal /\ runs < MaxRuns /\ ClientGone
    /\ runs' = runs + 1
    /\ ledger' = {}
    /\ plan' = NoPlan
    /\ journal' = [NoJournal EXCEPT !.state = "active", !.run = runs + 1]
    /\ reenabled' = FALSE /\ backup' = FALSE
    /\ db' = "old" /\ mayDb' = {"old"}       \* the baseline of the new run
    /\ pc' = "begun"
    /\ UNCHANGED <<work, now, may, enable, mayEnable, fence, mayFence, loaded, ran,
                   req, ans, job, faults>>

\* update_plan_classify and staging, after _update_pre_probe: the product is in
\* service, and an active workload job refuses the plan early (a courtesy: the
\* exclusion is the fence's).
Classify ==
    /\ pc = "begun"
    /\ IF InService /\ ~job THEN pc' = "planned" /\ plan' \in Plans
       ELSE pc' = "trap" /\ UNCHANGED plan
    /\ UNCHANGED <<work, ledger, journal, disk, fence, mayFence, loaded, ran, req,
                   ans, job, runs, faults, reenabled>>

\* --dry-run: nothing will change, a completed checkpoint, the journal goes.
DryRun ==
    /\ pc = "planned" /\ pc' = "clear" /\ plan' = NoPlan
    /\ Checkpoint([journal EXCEPT !.state = "completed"])
    /\ UNCHANGED <<work, ledger, fence, mayFence, loaded, ran, req, ans, job, runs,
                   faults, reenabled>>

\* update_startup_recovery_gate: a journal is resolved before anything else.
RecoveryGate ==
    /\ pc = "off" /\ journal # NoJournal /\ ClientGone
    /\ ledger' = journal.ledger
    /\ pc' = IF journal.state = "active"
             THEN IF journal.armed THEN "rbstop" ELSE "untouched"
             ELSE IF InService THEN "cleanup2" ELSE "off"
    /\ UNCHANGED <<work, journal, plan, disk, fence, mayFence, loaded, ran, req,
                   ans, job, runs, faults, reenabled>>

\* acquire_pre_activation: the client writes the same file itself, durably,
\* unless another run holds it.
PreActivationFence ==
    /\ fence \in {0, journal.run}
    /\ fence' = journal.run /\ mayFence' = {journal.run}
    /\ ans' = "ok" /\ pc' = "fencewait"
    /\ UNCHANGED req

\* The client posts its request and waits; an old backend without the route
\* answers 404.
AcquireFence ==
    /\ pc = "planned"
    /\ \/ /\ OldHasRoute /\ ran # "none"
          /\ req' = journal.run /\ ans' = "none" /\ pc' = "fencewait"
          /\ UNCHANGED <<fence, mayFence>>
       \/ ~OldHasRoute /\ PreActivationFence
       \/ /\ IF OldHasRoute THEN ran = "none" ELSE fence \notin {0, journal.run}
          /\ pc' = "trap"
          /\ UNCHANGED <<req, ans, fence, mayFence>>
    /\ UNCHANGED <<work, ledger, journal, plan, disk, loaded, ran, job, runs,
                   faults, reenabled>>

\* Mutant: an active workload job does not refuse the fence.
ServeFence_IgnoresJob ==
    /\ req # 0 /\ ran # "none"
    /\ IF fence \in {0, req}
       THEN fence' = req /\ mayFence' = {req} /\ ans' = "ok"
       ELSE ans' = "refused" /\ UNCHANGED <<fence, mayFence>>
    /\ req' = 0
    /\ UNCHANGED <<pc, work, ledger, journal, plan, disk, loaded, ran, job, runs,
                   faults, reenabled>>

\* acquire_product_update_maintenance_fence: one writer transaction refuses an
\* active job or another holder, or makes the fence durable.
ServeFence ==
    /\ req # 0 /\ ran # "none"
    /\ IF ~job /\ fence \in {0, req}
       THEN fence' = req /\ mayFence' = {req} /\ ans' = "ok"
       ELSE ans' = "refused" /\ UNCHANGED <<fence, mayFence>>
    /\ req' = 0
    /\ UNCHANGED <<pc, work, ledger, journal, plan, disk, loaded, ran, job, runs,
                   faults, reenabled>>

FenceAnswer ==
    /\ pc = "fencewait" /\ req = 0 /\ ans # "none"
    /\ IF ans = "ok" THEN Record({"fenceheld"}, FALSE) /\ pc' = "disable"
       ELSE pc' = "trap" /\ UNCHANGED <<ledger, journal, disk>>
    /\ ans' = "none"
    /\ UNCHANGED <<work, plan, fence, mayFence, loaded, ran, req, job, runs, faults,
                   reenabled>>

FenceAbandon ==
    /\ pc = "fencewait" /\ faults < MaxFaults /\ ClientGone
    /\ pc' = "trap" /\ ans' = "none" /\ faults' = faults + 1
    /\ UNCHANGED <<work, ledger, journal, plan, disk, fence, mayFence, loaded, ran,
                   req, job, runs, reenabled>>

----------------------------------------------------------------------------
(* The mutation window.                                                    *)

\* _update_disable_service_autostart: recovery is armed before the request,
\* and the disabled state is durable before the window goes on.
DisableAutostart ==
    /\ \/ pc = "disable"   /\ pc' = "disabling" /\ Record({"autostart"}, TRUE)
       \/ pc = "disabling" /\ pc' = "disabled"  /\ WriteEnable(FALSE)
                           /\ UNCHANGED <<ledger, journal>>
       \/ pc = "disabled"  /\ pc' = "stop"      /\ Sync({"etc"})
                           /\ UNCHANGED <<ledger, journal>>
    /\ UNCHANGED <<work, plan, fence, mayFence, loaded, ran, req, ans, job, runs,
                   faults, reenabled>>

\* What the plan replaces before the target is started.
ToSwap == plan.changed \cup (IF plan.reset THEN {"db"} ELSE {})

StopService ==
    /\ \/ /\ pc = "stop" /\ pc' = "stopping" /\ Record({"stop"}, TRUE)
          /\ UNCHANGED <<work, ran>>
       \/ /\ pc = "stopping" /\ pc' = "swap" /\ ran' = "none" /\ left' = ToSwap
          /\ UNCHANGED <<art, todo, ledger, journal, disk>>
    /\ UNCHANGED <<plan, fence, mayFence, loaded, req, ans, job, runs, faults, reenabled>>

\* The operations that activate an artifact, in the order of the code: the
\* attempted-marker precedes the first destructive operation, and preserved
\* material is durable before the live path is replaced.
PayloadOps == <<"record", "aside", "sync", "activate">>
VenvOps    == <<"record", "aside", "sync", "build", "activate">>
UnitOps    == <<"preserve", "sync", "record", "activate", "reload">>
HelperOps  == <<"preserve", "sync", "record", "activate">>
AccessOps  == <<"record", "activate", "sync">>
ConfigOps  == <<"preserve", "sync", "record", "build", "activate", "sync">>
ResetOps   == <<"backup", "record", "erase", "erased">>
MarkerOps  == IF MarkerExisted THEN PayloadOps ELSE <<"record", "activate">>

SwapOps(a) ==
    CASE a = "app"    -> PayloadOps
      [] a = "venv"   -> VenvOps
      [] a = "req"    -> Tail(PayloadOps)
      [] a = "unit"   -> UnitOps
      [] a = "access" -> AccessOps
      [] a = "config" -> ConfigOps
      [] a = "db"     -> ResetOps
      [] a = "marker" -> MarkerOps
      [] OTHER        -> HelperOps

\* The markers a record operation journals; the installed-source marker's
\* precondition is journaled with it.
SwapMarkers(a) ==
    IF a # "marker" THEN {MarkerOf(a)}
    ELSE {"marker", IF MarkerExisted THEN "marker-exists" ELSE "marker-absent"}

\* How an artifact is undone, chosen by inspection of its two paths: a
\* preserved original replaces the live path, and its absence means that it
\* is already back.
Preserved(a) == now[a].rb # "none"

\* Mutant: a restored payload is not flushed.
UndoApp_NoBarrier(a) == IF Preserved(a) THEN <<"remove", "restore">> ELSE <<>>

\* _update_rollback_app
UndoApp(a) == IF Preserved(a) THEN <<"remove", "restore", "sync">> ELSE <<"sync">>

\* _update_rollback_venv_and_requirements, for each of the two.
UndoVenv(a) == IF Preserved(a) THEN <<"remove", "restore", "sync">> ELSE <<"sync">>

\* Mutant: a unit found already restored is not loaded again.
UndoUnit_NoReload(a) ==
    IF Preserved(a) THEN <<"remove", "restore", "sync", "reload">> ELSE <<"sync">>

\* _update_rollback_unit: systemd may still hold the target's definition, so
\* it is reloaded whatever is found.
UndoUnit(a) ==
    IF Preserved(a) THEN <<"remove", "restore", "sync", "reload">> ELSE <<"sync", "reload">>

\* _update_rollback_host_helper: a copy replaces the live file, and the
\* preserved one stays until the cleanup.
UndoHelper(a) == IF Preserved(a) THEN <<"replace", "sync">> ELSE <<"sync">>

\* update_boundaries_rollback: a created boundary is taken away, a replaced
\* helper comes back, the configuration is copied back in place.
UndoBoundary(a) ==
    CASE a = "access" -> <<"remove">>
      [] a = "config" -> <<"build", "replace", "sync">>
      [] OTHER        -> IF Preserved(a) THEN <<"replace", "sync">> ELSE <<"sync">>

\* _update_rollback_marker: by the precondition journaled with the attempt.
UndoMarker(a) ==
    IF "marker-absent" \in ledger THEN <<"remove", "sync">>
    ELSE IF Preserved(a) THEN <<"remove", "restore", "sync">> ELSE <<"sync">>

RestoreDbOps == <<"erase", "erased", "copy", "copied", "sync", "lineage", "restored">>

\* Mutant: a replayed rollback restores the database backup again.
UndoDb_Twice == RestoreDbOps

\* _update_rollback_authority: the backup is applied at most once.
UndoDb == IF "restored" \in ledger THEN <<"lineage">> ELSE RestoreDbOps

UndoOps(a) ==
    CASE a = "app"            -> UndoApp(a)
      [] a \in {"venv", "req"} -> UndoVenv(a)
      [] a = "unit"           -> UndoUnit(a)
      [] a = "helper"         -> UndoHelper(a)
      [] a = "marker"         -> UndoMarker(a)
      [] a = "db"             -> UndoDb
      [] OTHER                -> UndoBoundary(a)

\* One operation on the artifact in hand.
Op(o, a) ==
    /\ CASE o = "record"   -> Record(SwapMarkers(a), FALSE)
         [] o = "restored" -> Record({"restored"}, FALSE)
         [] OTHER          -> UNCHANGED <<ledger, journal>>
    /\ CASE o = "aside"    -> Write(a, [live |-> "none", rb |-> now[a].live])
         [] o = "preserve" -> Write(a, [now[a] EXCEPT !.rb = now[a].live])
         [] o = "build"    -> Write(a, [now[a] EXCEPT !.live = "part"])
         [] o = "activate" -> Write(a, [now[a] EXCEPT !.live = "new"])
         [] o = "remove"   -> Write(a, [now[a] EXCEPT !.live = "none"])
         [] o = "restore"  -> Write(a, [live |-> now[a].rb, rb |-> "none"])
         [] o = "replace"  -> Write(a, [now[a] EXCEPT !.live = now[a].rb])
         [] o = "backup"   -> BackupDb
         [] o \in {"erase", "copy"} -> WriteDb("part")
         [] o = "erased"   -> ErasedDb
         [] o = "copied"   -> WriteDb("old")
         [] o = "sync"     -> Sync({FsOf(a)})
         [] o \in {"reload", "lineage"} -> UNCHANGED disk
         [] OTHER          -> TRUE        \* the journal's own barrier, above
    /\ loaded' = IF o = "reload" THEN now["unit"].live ELSE loaded

\* Mutant: an absent rollback path is taken for corruption.
Stuck_NeedsPreserved(a) == a \in Artifacts \ {"access", "marker"} /\ now[a].rb = "none"

\* What the code cannot undo by inspection: nothing preserved and nothing
\* live that could be kept, or a database that is not the old one.
Stuck(a) ==
    \/ a \in Artifacts \ {"access", "marker"} /\ now[a].rb = "none"
       /\ (a = "config" \/ ~Usable(now, a))
    \/ a = "marker" /\ "marker-exists" \in ledger /\ now[a].rb = "none" /\ ~Usable(now, a)
    \/ a = "db" /\ (~backup \/ ("restored" \in ledger /\ ~LineageOld))

\* The order in which a rollback undoes what was attempted.
RbOrder == <<"marker", "db", "helper", "config", "boundary", "access", "unit",
             "venv", "req", "app">>

\* Of what is left, a comes first in the given order.
IsNext(a, order) ==
    \E i \in DOMAIN order : order[i] = a /\ \A j \in 1..(i - 1) : order[j] \notin left

\* The process turns to the next artifact: forwards it knows what to do,
\* backwards it inspects what it finds.
Take ==
    /\ pc \in {"swap", "mark", "rb"} /\ todo = <<>>
    /\ \E a \in left : IsNext(a, IF pc = "rb" THEN RbOrder ELSE Order) /\ art' = a
    /\ left' = left \ {art'}
    /\ IF pc = "rb" /\ Stuck(art') THEN pc' = "off" /\ todo' = <<>>
       ELSE /\ todo' = IF pc = "rb" THEN UndoOps(art') ELSE SwapOps(art')
            /\ UNCHANGED pc
    /\ UNCHANGED <<ledger, journal, plan, disk, fence, mayFence, loaded, ran, req,
                   ans, job, runs, faults, reenabled>>

Do ==
    /\ pc \in {"swap", "mark", "rb"} /\ todo # <<>>
    /\ Op(Head(todo), art) /\ todo' = Tail(todo)
    /\ UNCHANGED <<pc, left, art, plan, fence, mayFence, ran, req, ans, job, runs,
                   faults, reenabled>>

\* The target is started and accepted, then its marker is written.
StartTarget ==
    /\ \/ /\ pc = "swap" /\ todo = <<>> /\ left = {} /\ pc' = "start"
          /\ UNCHANGED <<disk, ran, left>>
       \/ /\ pc = "start" /\ StartService /\ ran' # "none"
          /\ pc' = "mark" /\ left' = {"marker"}
    /\ UNCHANGED <<art, todo, ledger, journal, plan, fence, mayFence, loaded, req,
                   ans, job, runs, faults, reenabled>>

\* Mutant: the fresh authority is not flushed.
FinalBarriers_NoVar ==
    {"opt"} \cup (IF "unit" \in plan.changed THEN {"etc"} ELSE {})
            \cup (IF "helper" \in plan.changed THEN {"host"} ELSE {})

\* The final barriers, each only for what the run changed.
FinalBarriers ==
    {"opt"} \cup (IF "unit" \in plan.changed THEN {"etc"} ELSE {})
            \cup (IF plan.reset THEN {"var"} ELSE {})
            \cup (IF "helper" \in plan.changed THEN {"host"} ELSE {})

\* Everything activated is durable, then boot activation is restored and made
\* durable, and only then is the run recorded as completed.
FinishTarget ==
    /\ \/ /\ pc = "mark" /\ todo = <<>> /\ left = {} /\ pc' = "enable"
          /\ Sync(FinalBarriers) /\ UNCHANGED <<journal, reenabled>>
       \/ /\ pc = "enable" /\ pc' = "enabled" /\ WriteEnable(TRUE)
          /\ reenabled' = TRUE /\ UNCHANGED journal
       \/ /\ pc = "enabled" /\ pc' = "completing" /\ Sync({"etc"})
          /\ UNCHANGED <<journal, reenabled>>
       \/ /\ pc = "completing" /\ pc' = "release1"
          /\ Checkpoint([journal EXCEPT !.state = "completed"])
          /\ UNCHANGED reenabled
    /\ UNCHANGED <<work, ledger, plan, fence, mayFence, loaded, ran, req, ans, job,
                   runs, faults>>

----------------------------------------------------------------------------
(* Terminal work, shared by success, rollback and startup recovery.        *)

\* _update_release_maintenance_fence: remove the file if this run holds it;
\* success needs the barrier, also when the file is already absent.
ReleaseFence ==
    /\ pc \in {"release1", "release2"}
    /\ \/ /\ fence = journal.run
          /\ fence' = 0 /\ mayFence' = mayFence \cup {0}
          /\ UNCHANGED <<pc, disk>>
       \/ /\ fence # journal.run
          /\ IF fence = 0 THEN mayFence' = {0} /\ Sync({"var"})
             ELSE UNCHANGED <<mayFence, disk>>
          /\ pc' = IF pc = "release1" THEN "cleanup1" ELSE "clear"
          /\ UNCHANGED fence
    /\ UNCHANGED <<work, ledger, journal, plan, loaded, ran, req, ans, job, runs,
                   faults, reenabled>>

\* _update_cleanup_recovered_run_artifacts: the run's rollback paths go.
Dropped(s) == [s EXCEPT !.rb = "none"]

Cleanup ==
    /\ pc \in {"cleanup1", "cleanup2"}
    /\ now' = [a \in Artifacts |-> Dropped(now[a])]
    /\ may' = [a \in Artifacts |-> may[a] \cup {Dropped(s) : s \in may[a]}]
    /\ pc' = IF pc = "cleanup1" THEN "clear" ELSE "release2"
    /\ UNCHANGED <<work, ledger, journal, plan, enable, mayEnable, db, mayDb,
                   backup, fence, mayFence, loaded, ran, req, ans, job, runs,
                   faults, reenabled>>

\* _update_journal_clear.  The paths of a resolved run id are never looked at
\* again, and a run whose target was accepted is the last one.
ClearJournal ==
    /\ pc = "clear"
    /\ pc' = IF journal.state = "completed" /\ plan # NoPlan THEN "done" ELSE "off"
    /\ journal' = NoJournal /\ ledger' = {}
    /\ now' = [a \in Artifacts |-> Dropped(now[a])]
    /\ may' = [a \in Artifacts |-> {Dropped(s) : s \in may[a]}]
    /\ UNCHANGED <<work, plan, enable, mayEnable, db, mayDb, backup, fence,
                   mayFence, loaded, ran, req, ans, job, runs, faults, reenabled>>

\* The journal is active and no rollback is armed: the untouched service is
\* proven and the run recorded as recovered, or the journal is kept.
Untouched ==
    /\ pc = "untouched"
    /\ IF InService
       THEN /\ Checkpoint([journal EXCEPT !.state = "recovered"])
            /\ pc' = "cleanup2"
       ELSE pc' = "off" /\ UNCHANGED <<journal, disk>>
    /\ UNCHANGED <<work, ledger, plan, fence, mayFence, loaded, ran, req, ans,
                   job, runs, faults, reenabled>>

\* _update_rollback_boundary_crossed
Crossed == {"autostart", "stop"} \cap ledger # {}

\* _update_exit_trap after a failed command of an unfinished run.
ExitTrap ==
    /\ pc = "trap"
    /\ pc' = IF Crossed THEN "rbstop" ELSE "untouched"
    /\ UNCHANGED <<work, ledger, journal, plan, disk, fence, mayFence, loaded,
                   ran, req, ans, job, runs, faults, reenabled>>

----------------------------------------------------------------------------
(* update_rollback_on_failure: in the failed process or in a later one.    *)

RollbackStop ==
    /\ pc = "rbstop" /\ pc' = "rb" /\ ran' = "none"
    /\ left' = {a \in Artifacts \cup {"db"} : MarkerOf(a) \in ledger}
    /\ todo' = <<>>
    /\ UNCHANGED <<art, ledger, journal, plan, disk, fence, mayFence, loaded, req,
                   ans, job, runs, faults, reenabled>>

\* Everything attempted is undone: boot activation is restored and durable
\* before the old service starts, and the run is recorded as recovered.
FinishRollback ==
    /\ \/ /\ pc = "rb" /\ todo = <<>> /\ left = {}
          /\ IF "autostart" \in ledger THEN pc' = "rbsync" /\ WriteEnable(TRUE) /\ reenabled' = TRUE
             ELSE pc' = "rbstart" /\ UNCHANGED <<disk, reenabled>>
          /\ UNCHANGED <<ran, journal>>
       \/ /\ pc = "rbsync" /\ pc' = "rbstart" /\ Sync({"etc"})
          /\ UNCHANGED <<ran, journal, reenabled>>
       \/ /\ pc = "rbstart" /\ StartService
          /\ pc' = IF ran' = "none" THEN "off" ELSE "rbdone"
          /\ UNCHANGED <<journal, reenabled>>
       \/ /\ pc = "rbdone" /\ pc' = "cleanup2"
          /\ Checkpoint([journal EXCEPT !.state = "recovered"])
          /\ UNCHANGED <<ran, reenabled>>
    /\ UNCHANGED <<work, ledger, plan, fence, mayFence, loaded, req, ans, job, runs,
                   faults>>

----------------------------------------------------------------------------
(* Faults and the rest of the system.                                      *)

Forward == {"begun", "planned", "disable", "disabling", "disabled", "stop", "stopping", "swap",
            "start", "mark", "enable", "enabled", "completing"}

\* A command of the run fails, before or after it had its effect: die.
CommandFails ==
    /\ pc \in Forward /\ faults < MaxFaults
    /\ pc' = "trap" /\ faults' = faults + 1
    /\ left' = {} /\ todo' = <<>>
    /\ UNCHANGED <<art, ledger, journal, plan, disk, fence, mayFence, loaded, ran,
                   req, ans, job, runs, reenabled>>

\* The process ends with its journal kept: killed anywhere, or a failure in
\* terminal or recovery work, which stops hard.
ProcessEnds ==
    /\ pc \notin {"off", "done"} /\ faults < MaxFaults
    /\ pc' = "off" /\ faults' = faults + 1 /\ ledger' = {}
    /\ left' = {} /\ todo' = <<>>
    /\ UNCHANGED <<art, journal, plan, disk, fence, mayFence, loaded, ran, req,
                   ans, job, runs, reenabled>>

Unsynced == {a \in Artifacts : may[a] # {now[a]}}
Outcomes == {f \in [Unsynced -> UNION {may[a] : a \in Unsynced}] :
                \A a \in Unsynced : f[a] \in may[a]}

\* Host and container lose power: every path is in one of its possible states,
\* and an enabled unit is started at boot from what is there.
PowerLoss ==
    /\ faults < MaxFaults
    /\ faults' = faults + 1 /\ ledger' = {}
    /\ pc' = IF pc = "done" THEN "done" ELSE "off"
    /\ left' = {} /\ todo' = <<>>
    /\ \E f \in Outcomes : now' = [a \in Artifacts |-> IF a \in Unsynced THEN f[a] ELSE now[a]]
    /\ enable' \in mayEnable /\ fence' \in mayFence
    /\ \E d \in mayDb :
          /\ loaded' = now'["unit"].live
          /\ ran' = IF enable' THEN Started(now', d, loaded') ELSE "none"
          /\ db' = DbAfterStart(ran', d)
    /\ may' = [a \in Artifacts |-> {now'[a]}]
    /\ mayEnable' = {enable'} /\ mayFence' = {fence'} /\ mayDb' = {db'}
    /\ req' = 0 /\ ans' = "none"
    /\ UNCHANGED <<art, journal, plan, backup, job, runs, reenabled>>

\* An operator starts a workload update (issue_package_update_job refuses
\* while the fence is held), and the job ends.
Workload ==
    /\ \/ ~job /\ fence = 0 /\ ran # "none" /\ (ran = "old" => OldHasRoute) /\ job' = TRUE
       \/ job /\ ran # "none" /\ job' = FALSE
    /\ UNCHANGED <<pc, work, ledger, journal, plan, disk, fence, mayFence, loaded,
                   ran, req, ans, runs, faults, reenabled>>

\* The restored old service commits new authority state.
ServiceWrites ==
    /\ ran = "old" /\ db = "old" /\ "restored" \in journal.ledger
    /\ db' = "oldw" /\ mayDb' = {"oldw"}
    /\ UNCHANGED <<pc, work, ledger, journal, plan, now, may, enable, mayEnable,
                   backup, fence, mayFence, loaded, ran, req, ans, job, runs,
                   faults, reenabled>>

Updater ==
    \/ BeginRun \/ Classify \/ DryRun \/ RecoveryGate \/ AcquireFence \/ FenceAnswer
    \/ DisableAutostart \/ StopService \/ Take \/ Do \/ StartTarget \/ FinishTarget
    \/ ReleaseFence \/ Cleanup \/ ClearJournal \/ Untouched \/ ExitTrap
    \/ RollbackStop \/ FinishRollback

Next ==
    /\ \/ Updater \/ ServeFence \/ FenceAbandon \/ CommandFails \/ ProcessEnds
       \/ PowerLoss \/ Workload \/ ServiceWrites
    /\ UNCHANGED install

Spec == Init /\ [][Next]_vars

----------------------------------------------------------------------------
(* Fairness: an invoked updater runs on, the backend serves its request, and *)
(* the operator reruns the updater while a journal asks for it.             *)
LiveSpec == /\ Spec
            /\ WF_vars(Updater /\ pc # "off" /\ UNCHANGED install)
            /\ WF_vars(RecoveryGate /\ UNCHANGED install)
            /\ WF_vars(ServeFence /\ UNCHANGED install)

----------------------------------------------------------------------------
(* Properties.                                                             *)

Lives == {"old", "new", "none", "part"}
States == [live : Lives, rb : {"old", "none"}]

\* Every variable has its type.
TypeOK ==
    /\ install \in Installations
    /\ pc \in Pcs /\ ledger \subseteq Markers
    /\ art \in Artifacts \cup {"db"} /\ left \subseteq Artifacts \cup {"db"}
    /\ journal \in [state : {"none", "active", "completed", "recovered"},
                    run : 0..MaxRuns, armed : BOOLEAN, ledger : SUBSET Markers]
    /\ plan \in Plans \cup {NoPlan}
    /\ now \in [Artifacts -> States] /\ may \in [Artifacts -> SUBSET States]
    /\ \A a \in Artifacts : now[a] \in may[a]
    /\ enable \in mayEnable /\ mayEnable \subseteq BOOLEAN
    /\ db \in mayDb /\ mayDb \subseteq {"old", "oldw", "new", "none", "part"}
    /\ backup \in BOOLEAN
    /\ fence \in mayFence /\ mayFence \subseteq 0..MaxRuns
    /\ loaded \in Lives /\ ran \in {"none", "old", "new", "mixed"}
    /\ req \in 0..MaxRuns /\ ans \in {"none", "ok", "refused"} /\ job \in BOOLEAN
    /\ runs \in 0..MaxRuns /\ faults \in 0..MaxFaults /\ reenabled \in BOOLEAN

\* Whatever a power loss makes of the disks, a path of the old installation
\* holds its old content; and likewise for the accepted target.
OldForSure == /\ \A a \in Artifacts : \A s \in may[a] : s.live = OldLive(a)
              /\ mayEnable = {TRUE} /\ mayDb \subseteq {"old", "oldw"}
NewForSure == /\ \A a \in plan.changed \cup {"marker"} : \A s \in may[a] : s.live = "new"
              /\ mayEnable = {TRUE} /\ (plan.reset => mayDb = {"new"})

\* A run is recorded as recovered (update_journal_checkpoint recovered) only
\* when every artifact it attempted to replace is durably the old one again,
\* with boot activation: no later fault can bring a piece of the target back.
RecoveredIsOld == journal.state = "recovered" => OldForSure

\* A run is recorded as completed (_update_finish_summary) only when the whole
\* target is durable and enabled, since its rollback material goes next; and
\* from then on no failure, kill or rerun rolls it back (the terminal-checkpoint
\* rule of _update_exit_trap).
CompletedIsNew ==
    (journal.state = "completed" /\ plan # NoPlan) \/ pc = "done" => NewForSure

\* No start by the updater, forwards or backwards, and no boot runs a mixture
\* of the two installations: unless a rollback was begun or replayed after the
\* run had already restored boot activation (see NeverMixed).
MixedOnlyAfterReenable == ran = "mixed" => reenabled

\* The autostart guard's promise (update-activate.sh:12-18): a reboot can never
\* boot-activate a half-swapped installation.
NeverMixed == ran # "mixed"

\* Every ending of a run is one whole installation, and so is what runs on the
\* way there (the three properties above).
EndsWhole == TypeOK /\ RecoveredIsOld /\ CompletedIsNew /\ MixedOnlyAfterReenable

\* From the first mutation to the proven end of the run the fence is held by
\* it, durably, and no workload package update is active: whatever order the
\* operator's start, the fence request, failures and reboots come in.
FenceCoversWindow ==
    journal.state = "active" /\ journal.armed =>
        mayFence = {journal.run} /\ ~job

\* A fence never outlives the journal that names its holder: otherwise no
\* invocation could ever release it and workload updates are refused for good
\* (_update_release_maintenance_fence precedes every _update_journal_clear).
NoOrphanFence == \A f \in mayFence : f # 0 => journal.run = f

\* The fence is there for exactly as long as a run needs it.
FenceIsTheRuns == FenceCoversWindow /\ NoOrphanFence

\* What the restored old service has committed is never overwritten by a
\* replayed rollback (update-authority-restored, _update_rollback_authority).
WritesSurvive == [][db = "oldw" => db' = "oldw" \/ BeginRun]_vars

\* Every interrupted run is resolved: with finitely many faults and an
\* operator who reruns the updater, the journal is cleared.
JournalResolved == journal # NoJournal ~> journal = NoJournal
============================================================================
