-------------------------- MODULE DiscoveryProofs --------------------------
(***************************************************************************)
(* Single flight, freshness and the history of the inventory, for every    *)
(* number of workers, runs, guests, nodes, crashes, edits and clock moves. *)
(***************************************************************************)
EXTENDS Discovery, FiniteSetTheorems, TLAPS

\* The owner is the run issued last, and newer than whatever had a say before.
OwnerInv ==
    /\ active \in {0, issued}
    /\ committed <= issued /\ lastHealth <= issued /\ latest <= issued
    /\ active # 0 => committed < active /\ lastHealth < active /\ latest < active
    /\ \A r \in Runs : r > issued => life[r] = "none"
    /\ OwnerIsLive

\* A worker at work has a run of its own, past its start once it reads.
WorkInv ==
    /\ \A w \in Workers : pc[w] = "idle" <=> mine[w] = 0
    /\ \A w \in Workers : mine[w] <= issued
    /\ \A w \in Workers : pc[w] \in Reading \cup {"commit", "fail"}
                             => life[mine[w]] # "issued"
    /\ \A w \in Workers : pc[w] = "fail" => rd[w].outcome \in Failed

\* A source comes before its first run, and a scheduler that is up runs on the
\* configuration the source was given.
ContextInv ==
    /\ source = None => issued = 0
    /\ proc = "up" => loaded = source
    /\ OwnerIsCurrent

\* Only newer runs than the ones found expired make the source fresh again.
FreshInv ==
    /\ FreshIsEarned
    /\ \A r \in expired : r <= committed
    /\ fresh = "fresh" => committed \notin expired

\* A committed baseline.
Baseline == [run : Runs, at : Times, guests : Sights, nodes : [Nodes -> NodeStates]]

\* A worker that has read a list of guests.
GuestsRead == {"lxc", "topology2", "permissions2", "commit"}

\* The clock against the moments a worker, and the last baseline, took down.
ClockInv ==
    /\ log \in Seq(Baseline)
    /\ committed # 0 => log # <<>>
    /\ setBacks \in Nat
    /\ setBacks = 0 =>
          /\ \A w \in Workers : rd[w].observed <= clock
          /\ \A w \in Workers : pc[w] \in GuestsRead => rd[w].observed <= rd[w].at
          /\ committed # 0 => ref <= log[Len(log)].at

\* The inductive invariant.
IInv == /\ TypeOK /\ OwnerInv /\ WorkInv /\ ContextInv /\ HealthIsNewest
        /\ FreshInv /\ ClockInv

-----------------------------------------------------------------------------
(* What the steps of a cycle come to, under the invariant.                 *)

\* A worker that is at work has a run, and its source exists.
LEMMA BusyHasRun ==
    ASSUME IInv, NEW w \in Workers, pc[w] # "idle"
    PROVE  mine[w] \in Runs /\ mine[w] <= issued /\ source \in Configs
BY DiscoveryAssumption DEF IInv, TypeOK, WorkInv, ContextInv, Runs

\* What one request of a worker leaves: it goes on, refuses or gives up with
\* the credential and the observation time it began with.
ReadLeaves(w, step, reads) ==
    /\ Got(w, step, reads)
    /\ pc[w] \in Reading
    /\ step \in Reading \cup {"commit", "fail", "abandon"} /\ reads \in Reads
    /\ reads.cred = rd[w].cred /\ reads.observed = rd[w].observed
    /\ step = "fail" => reads.outcome \in Failed
    /\ step \in GuestsRead => \/ reads.at = clock
                              \/ pc[w] \in GuestsRead /\ reads.at = rd[w].at

\* Every request keeps what a worker holds well formed.
LEMMA ReadEffect ==
    ASSUME IInv, NEW w \in Workers, Read(w) \/ ReadFails(w)
    PROVE  \E step \in Steps, reads \in Reads : ReadLeaves(w, step, reads)
<1> DEFINE Goal == \E step \in Steps, reads \in Reads : ReadLeaves(w, step, reads)
<1>0. /\ rd[w] \in Reads /\ clock \in Times /\ acl \in Acls
      /\ nodes \in [Nodes -> NodeStates] /\ guests \in Sights
  BY DEF IInv, TypeOK
<1>1. CASE ReadTopology(w)
  <2>1. [rd[w] EXCEPT !.topology = acl] \in Reads
    BY <1>0 DEF Reads
  <2>2. ReadLeaves(w, "status", [rd[w] EXCEPT !.topology = acl])
    BY <1>0, <1>1, <2>1
    DEF ReadTopology, ReadLeaves, Reads, Reading, GuestsRead
  <2>3. QED
    BY <2>1, <2>2 DEF Steps, Reading
<1>2. CASE ReadStatus(w)
  <2> DEFINE reads == [rd[w] EXCEPT !.scope = {n \in Nodes : nodes[n] # "gone"}]
  <2>1. reads \in Reads
    BY <1>0 DEF Reads
  <2>2. ReadLeaves(w, "permissions", reads)
    BY <1>0, <1>2, <2>1 DEF ReadStatus, ReadLeaves, Reads, Reading, GuestsRead
  <2>3. QED
    BY <2>1, <2>2 DEF Steps, Reading
<1>3. CASE ReadPermissions(w)
  <2>1. [rd[w] EXCEPT !.permissions = Covers(acl)] \in Reads
    BY <1>0 DEF Reads, Covers
  <2>2. ReadLeaves(w, "nodes", [rd[w] EXCEPT !.permissions = Covers(acl)])
    BY <1>0, <1>3, <2>1
    DEF ReadPermissions, ReadLeaves, Reads, Reading, GuestsRead
  <2>3. QED
    BY <2>1, <2>2 DEF Steps, Reading
<1>4. ASSUME NEW outcome \in Failed, pc[w] \in Reading, Refused(w, outcome)
      PROVE  Goal
  <2> DEFINE reads == [rd[w] EXCEPT !.outcome = outcome, !.stamp = clock]
  <2>1. reads \in Reads
    BY <1>0 DEF Reads, Done
  <2>2. ReadLeaves(w, "fail", reads)
    BY <1>0, <1>4, <2>1 DEF Refused, ReadLeaves, Reads, Reading, GuestsRead
  <2>3. QED
    BY <2>1, <2>2 DEF Steps
<1>5. CASE ReadNodes(w)
  <2> DEFINE step  == IF Standalone THEN "qemu" ELSE "guests"
             reads == [rd[w] EXCEPT !.nodes = nodes]
  <2>1. CASE {n \in Nodes : nodes[n] # "gone"} = rd[w].scope
    <3>1. reads \in Reads
      BY <1>0 DEF Reads
    <3>2. step \in {"qemu", "guests"}
      OBVIOUS
    <3>3. ReadLeaves(w, step, reads)
      BY <1>0, <1>5, <2>1, <3>1
      DEF ReadNodes, ReadLeaves, Reads, Reading, GuestsRead
    <3>4. QED
      BY <3>1, <3>2, <3>3 DEF Steps, Reading
  <2>2. CASE ~({n \in Nodes : nodes[n] # "gone"} = rd[w].scope)
    BY <1>4, <1>5, <2>2 DEF ReadNodes, Failed, Reading
  <2>3. QED
    BY <2>1, <2>2
<1>6. CASE ReadGuests(w) \/ ReadQemu(w)
  <2>1. PICK s \in Sights, step \in {"topology2", "lxc"} :
            Got(w, step, [rd[w] EXCEPT !.guests = s, !.at = clock])
    BY <1>6 DEF ReadGuests, ReadQemu, Listed, Sights
  <2> DEFINE reads == [rd[w] EXCEPT !.guests = s, !.at = clock]
  <2>2. reads \in Reads
    BY <1>0 DEF Reads
  <2>3. ReadLeaves(w, step, reads)
    BY <1>0, <1>6, <2>1, <2>2
    DEF ReadGuests, ReadQemu, ReadLeaves, Reads, Reading, GuestsRead
  <2>4. QED
    BY <2>2, <2>3 DEF Steps, Reading
<1>7. CASE ReadLxc(w)
  <2>1. PICK s \in Sights :
          IF \E v \in Vmids : s[v] # None /\ rd[w].guests[v] # None
          THEN Refused(w, "invalid")
          ELSE Got(w, "topology2", [rd[w] EXCEPT !.guests =
                 [v \in Vmids |-> IF s[v] # None THEN s[v]
                                  ELSE rd[w].guests[v]]])
    BY <1>7 DEF ReadLxc, Listed, Sights
  <2>2. CASE \E v \in Vmids : s[v] # None /\ rd[w].guests[v] # None
    BY <1>4, <1>7, <2>1, <2>2 DEF ReadLxc, Failed, Reading
  <2>3. CASE ~\E v \in Vmids : s[v] # None /\ rd[w].guests[v] # None
    <3> DEFINE merged == [v \in Vmids |-> IF s[v] # None THEN s[v]
                                          ELSE rd[w].guests[v]]
               reads  == [rd[w] EXCEPT !.guests = merged]
    <3>1. merged \in Sights
      BY <1>0 DEF Reads, Sights
    <3>2. reads \in Reads
      BY <1>0, <3>1 DEF Reads
    <3>3. reads.cred = rd[w].cred /\ reads.observed = rd[w].observed
            /\ reads.at = rd[w].at
      BY <1>0 DEF Reads
    <3>4. ReadLeaves(w, "topology2", reads)
      BY <1>7, <2>1, <2>3, <3>2, <3>3 DEF ReadLxc, ReadLeaves, Reading, GuestsRead
    <3>5. QED
      BY <3>2, <3>4 DEF Steps, Reading
  <2>4. QED
    BY <2>2, <2>3
<1>8. CASE RereadTopology(w)
  <2>1. PICK reads \in {rd[w], [rd[w] EXCEPT !.outcome = "invalid"]} :
            Got(w, "permissions2", reads)
    BY <1>8 DEF RereadTopology
  <2>2. reads \in Reads
    BY <1>0 DEF Reads, Done, Failed
  <2>3. ReadLeaves(w, "permissions2", reads)
    BY <1>0, <1>8, <2>1, <2>2
    DEF RereadTopology, ReadLeaves, Reads, Reading, GuestsRead
  <2>4. QED
    BY <2>2, <2>3 DEF Steps, Reading
<1>9. CASE RereadPermissions(w)
  <2> DEFINE result == [rd[w] EXCEPT !.outcome = Boundary(w), !.stamp = clock]
  <2>1. Boundary(w) \in Done /\ (Boundary(w) # "success" => Boundary(w) \in Failed)
    BY DEF Boundary, Done, Failed
  <2>2. /\ result \in Reads /\ result.outcome = Boundary(w)
        /\ result.cred = rd[w].cred /\ result.observed = rd[w].observed
        /\ result.at = rd[w].at
    BY <1>0, <2>1 DEF Reads
  <2>3. PICK step \in {"fail", "commit", "abandon"}, reads \in {rd[w], result} :
           /\ Got(w, step, reads)
           /\ step = "fail" => Boundary(w) # "success" /\ reads = result
    BY <1>9 DEF RereadPermissions
  <2>4. ReadLeaves(w, step, reads)
    BY <1>0, <1>9, <2>1, <2>2, <2>3
    DEF RereadPermissions, ReadLeaves, Reading, GuestsRead
  <2>5. QED
    BY <1>0, <2>2, <2>3, <2>4 DEF Steps
<1>10. CASE ReadFails(w)
  BY <1>4, <1>10 DEF ReadFails
<1>11. QED
  BY <1>1, <1>2, <1>3, <1>5, <1>6, <1>7, <1>8, <1>9, <1>10 DEF Read

\* The owner's context is current and its run newer than any that had a say,
\* so the owner's baseline is always applied, and anyone else's never.
LEMMA FinalizeEffect ==
    ASSUME IInv, NEW w \in Workers, FinalizeSuccess(w)
    PROVE  /\ pc[w] = "commit"
           /\ UNCHANGED <<config, sourceV, clock, world, expired, granted,
                          steady, counts>>
           /\ \/ active = mine[w] /\ mine[w] # 0 /\ Commit(w) /\ Returns(w)
              \/ GoesTo(w, "abandon")
                 /\ UNCHANGED <<owner, healthV, stock, revs, log>>
<1>1. mine[w] \in Runs /\ mine[w] # 0
  BY BusyHasRun, DiscoveryAssumption DEF FinalizeSuccess, Runs
<1>2. OwnsSource(mine[w]) => /\ ContextIsCurrent(mine[w])
                             /\ committed < mine[w] /\ lastHealth < mine[w]
  BY <1>1 DEF IInv, OwnsSource, ContextIsCurrent, ContextInv, OwnerIsCurrent, OwnerInv
<1>3. QED
  BY <1>1, <1>2 DEF FinalizeSuccess, OwnsSource

\* The owner's failure always moves the health, and anyone else's nothing.
LEMMA FailEffect ==
    ASSUME IInv, NEW w \in Workers, FinalizeFailed(w)
    PROVE  /\ pc[w] = "fail"
           /\ UNCHANGED <<config, sourceV, stock, clock, world, history, counts>>
           /\ \/ /\ active = mine[w] /\ mine[w] # 0
                 /\ Release(mine[w], rd[w].outcome) /\ rd[w].outcome \in Failed
                 /\ health' = HealthOf(rd[w].outcome) /\ fresh' = "stale"
                 /\ origin' = "discovery_run" /\ lastHealth' = mine[w]
                 /\ latest' = mine[w] /\ PublishOnly
                 /\ UNCHANGED <<committed, ref, until, hctx>> /\ Returns(w)
              \/ GoesTo(w, "abandon") /\ UNCHANGED <<owner, healthV, revs>>
<1>1. mine[w] \in Runs /\ mine[w] # 0
  BY BusyHasRun, DiscoveryAssumption DEF FinalizeFailed, Runs
<1>2. OwnsSource(mine[w]) => /\ ContextIsCurrent(mine[w])
                             /\ latest < mine[w] /\ lastHealth < mine[w]
  BY <1>1 DEF IInv, OwnsSource, ContextIsCurrent, ContextInv, OwnerIsCurrent, OwnerInv
<1>3. pc[w] = "fail" /\ rd[w].outcome \in Failed
  BY DEF FinalizeFailed, IInv, WorkInv
<1>4. QED
  BY <1>1, <1>2, <1>3 DEF FinalizeFailed, OwnsSource, Provenance

-----------------------------------------------------------------------------
(* The inductive step, one lemma for each part of the invariant.           *)

\* The rows that reconciliation writes.
LEMMA RowTypes ==
    /\ \A x \in Guest, gen \in Nat, r \in Runs : NewSlot(x, gen, r) \in Slots
    /\ \A old \in Slots : NotSeen(old) \in Slots
    /\ \A old \in Slots, x \in Guest : SeenAgain(old, x) \in Slots
<1> USE DEF Slots, Guest
<1>1. ASSUME NEW x \in Guest, NEW gen \in Nat, NEW r \in Runs
      PROVE  NewSlot(x, gen, r) \in Slots
  BY DEF NewSlot, Runs
<1>2. ASSUME NEW old \in Slots PROVE NotSeen(old) \in Slots
  <2>1. LastNode(old) \in Nodes \cup {None}
    BY DEF LastNode
  <2>2. old.rev + 1 \in Nat
    OBVIOUS
  <2>3. QED
    BY <2>1, <2>2 DEF NotSeen
<1>3. ASSUME NEW old \in Slots, NEW x \in Guest PROVE SeenAgain(old, x) \in Slots
  <2>1. x.node \in Nodes
    OBVIOUS
  <2>2. old.rev + 1 \in Nat
    OBVIOUS
  <2>3. QED
    BY <2>1, <2>2 DEF SeenAgain
<1>4. QED
  BY <1>1, <1>2, <1>3

\* What a reconciled slot is.
LEMMA SlotType ==
    ASSUME TypeOK, NEW v \in Vmids, NEW x \in Guest \cup {None}, NEW r \in Runs
    PROVE  ReconcileSlot(v, x, r) \in Slots \cup {None}
<1>1. slot[v] \in Slots \cup {None}
  BY DEF TypeOK
<1>2. slot[v] # None => slot[v].gen + 1 \in Nat
  BY <1>1 DEF Slots
<1>3. QED
  BY <1>1, <1>2, RowTypes DEF ReconcileSlot, Replaced

\* A committed baseline leaves a well-formed inventory.
LEMMA StockType ==
    ASSUME TypeOK, NEW w \in Workers, mine[w] \in Runs, Reconcile(rd[w], mine[w])
    PROVE  /\ slot' \in [Vmids -> Slots \cup {None}]
           /\ retired' \in [Vmids -> Seq([type : Types, rev : Nat,
                                          last : Nodes \cup {None}])]
           /\ nodeRow' \in [Nodes -> {"none", "available", "unavailable"}]
           /\ contracts' \subseteq Vmids \X Nat
<1>0. rd[w].guests \in Sights /\ rd[w].nodes \in [Nodes -> NodeStates]
  BY DEF TypeOK, Reads
<1>1. slot' \in [Vmids -> Slots \cup {None}]
  BY <1>0, SlotType DEF Reconcile, Sights
<1>2. ASSUME NEW v \in Vmids, Replaced(v, rd[w].guests[v])
      PROVE  [type |-> slot[v].type, rev |-> slot[v].rev + 1,
              last |-> LastNode(slot[v])]
               \in [type : Types, rev : Nat, last : Nodes \cup {None}]
  BY <1>2 DEF TypeOK, Slots, Replaced, LastNode
<1>3. retired' \in [Vmids -> Seq([type : Types, rev : Nat,
                                  last : Nodes \cup {None}])]
  <2> DEFINE Row == [type : Types, rev : Nat, last : Nodes \cup {None}]
  <2>1. ASSUME NEW v \in Vmids PROVE retired'[v] \in Seq(Row)
    <3>1. retired[v] \in Seq(Row)
      BY DEF TypeOK
    <3>2. CASE Replaced(v, rd[w].guests[v])
      BY <1>2, <3>1, <3>2 DEF Reconcile
    <3>3. CASE ~Replaced(v, rd[w].guests[v])
      BY <3>1, <3>3 DEF Reconcile
    <3>4. QED
      BY <3>2, <3>3
  <2>2. QED
    BY <2>1 DEF Reconcile
<1>4. nodeRow' \in [Nodes -> {"none", "available", "unavailable"}]
  BY <1>0 DEF TypeOK, Reconcile, ReconcileNode, NodeStates
<1>5. contracts' \subseteq Vmids \X Nat
  BY <1>1 DEF TypeOK, Reconcile, PackageTarget, Slots
<1>6. QED
  BY <1>1, <1>3, <1>4, <1>5

\* A transition counts up.
LEMMA ContextMoves ==
    ASSUME NEW c \in Contexts
    PROVE  /\ [c EXCEPT !.cfg = @ + 1] \in Contexts
           /\ [c EXCEPT !.cfg = @ + 1, !.trust = @ + 1] \in Contexts
           /\ [c EXCEPT !.cfg = @ + 1, !.canon = @ + 1] \in Contexts
<1>1. c.cfg + 1 \in Nat /\ c.trust + 1 \in Nat /\ c.canon + 1 \in Nat
  BY DEF Contexts
<1>2. [c EXCEPT !.cfg = @ + 1] \in Contexts
  BY <1>1 DEF Contexts
<1>3. [c EXCEPT !.cfg = @ + 1, !.trust = @ + 1] \in Contexts
  BY <1>1 DEF Contexts
<1>4. [c EXCEPT !.cfg = @ + 1, !.canon = @ + 1] \in Contexts
  BY <1>1 DEF Contexts
<1>5. QED
  BY <1>2, <1>3, <1>4

\* The run that is claimed is one more, and within the bound.
LEMMA ClaimedRun ==
    ASSUME issued \in 0 .. MaxRuns, issued < MaxRuns
    PROVE  issued + 1 \in Runs /\ issued + 1 \in 0 .. MaxRuns
BY DiscoveryAssumption DEF Runs

\* A worker that holds nothing holds well-formed reads.
LEMMA NoReadsType == NoReads \in Reads /\ NoReads.observed = 0
BY DiscoveryAssumption
DEF NoReads, Reads, Sights, Times, Acls, NodeStates, Done

\* The types hold after every step.
LEMMA TypeStep == IInv /\ [Next]_vars => TypeOK'
<1> SUFFICES ASSUME IInv, [Next]_vars PROVE TypeOK'
  OBVIOUS
<1> TypeOK
  BY DEF IInv
<1> USE DEF TypeOK, config, sourceV, owner, healthV, stock, revs, work,
            world, history, counts
<1>1. CASE Tick
  <2>1. clock' \in Times
    BY <1>1, DiscoveryAssumption DEF Tick, Times
  <2>2. QED
    BY ZenonT(60), <1>1, <2>1 DEF Tick
<1>2. CASE SetBack
  BY ZenonT(60), <1>2 DEF SetBack
<1>3. CASE AclChanges
  BY ZenonT(60), <1>3 DEF AclChanges
<1>4. CASE NodeChanges
  <2>1. nodes' \in [Nodes -> NodeStates]
    BY <1>4 DEF NodeChanges
  <2>2. QED
    BY ZenonT(60), <1>4, <2>1 DEF NodeChanges
<1>5. CASE GuestChanges
  <2>1. guests' \in Sights
    BY <1>5 DEF GuestChanges, Sights
  <2>2. steady' \in [Workers -> SUBSET Vmids]
    BY <1>5 DEF GuestChanges
  <2>3. QED
    BY ZenonT(60), <1>5, <2>1, <2>2 DEF GuestChanges
<1>6. CASE EditConfig
  BY ZenonT(60), <1>6 DEF EditConfig
<1>7. CASE StartProcess
  BY <1>7 DEF StartProcess
<1>8. CASE RefuseDrift
  BY <1>8 DEF RefuseDrift
<1>9. CASE StartScheduler
  BY <1>9 DEF StartScheduler, MayAdopt
<1>10. CASE RecoverRun
  <2>1. active' \in 0 .. MaxRuns
    BY <1>10, DiscoveryAssumption DEF RecoverRun, AbandonRun
  <2>2. life' \in [Runs -> Live \cup Done \cup {"none", "abandoned"}]
    BY <1>10 DEF RecoverRun, AbandonRun
  <2>3. invRev' \in Nat /\ pubRev' \in Nat
    BY <1>10 DEF RecoverRun, AbandonRun, PublishOnly
  <2>4. QED
    BY <1>10, <2>1, <2>2, <2>3 DEF RecoverRun, AbandonRun
<1>11. CASE CreateSource
  <2>1. source' \in Configs /\ ctx' \in Contexts
    BY <1>11 DEF CreateSource, Contexts
  <2>2. invRev' \in Nat /\ pubRev' \in Nat
    BY <1>11 DEF CreateSource, PublishStock
  <2>3. QED
    BY <1>11, <2>1, <2>2 DEF CreateSource
<1>12. CASE RotateCredential
  <2>1. source' \in Configs
    BY <1>12 DEF RotateCredential, MayAdopt, ContextTransition, Configs
  <2>2. ctx' \in Contexts
    BY <1>12, ContextMoves DEF RotateCredential, ContextTransition
  <2>3. invRev' \in Nat /\ pubRev' \in Nat
    BY <1>12 DEF RotateCredential, ContextTransition, PublishOnly
  <2>4. QED
    BY <1>12, <2>1, <2>2, <2>3 DEF RotateCredential, ContextTransition
<1>13. CASE ConfigureFreshness
  <2>1. source' \in Configs
    BY <1>13 DEF ConfigureFreshness, MayAdopt, ContextTransition, Configs
  <2>2. ctx' \in Contexts
    BY <1>13, ContextMoves DEF ConfigureFreshness, ContextTransition
  <2>3. invRev' \in Nat /\ pubRev' \in Nat
    BY <1>13 DEF ConfigureFreshness, ContextTransition, PublishOnly
  <2>4. QED
    BY <1>13, <2>1, <2>2, <2>3 DEF ConfigureFreshness, ContextTransition
<1>14. CASE RotateTransportTrust
  <2>1. ctx' \in Contexts
    BY <1>14, ContextMoves DEF RotateTransportTrust, ContextTransition
  <2>2. invRev' \in Nat /\ pubRev' \in Nat
    BY <1>14 DEF RotateTransportTrust, ContextTransition, PublishOnly
  <2>3. QED
    BY <1>14, <2>1, <2>2 DEF RotateTransportTrust, ContextTransition
<1>15. CASE MigrateCanonicalization
  <2>1. ctx' \in Contexts
    BY <1>15, ContextMoves DEF MigrateCanonicalization, ContextTransition
  <2>2. invRev' \in Nat /\ pubRev' \in Nat
    BY <1>15 DEF MigrateCanonicalization, ContextTransition, PublishOnly
  <2>3. QED
    BY <1>15, <2>1, <2>2 DEF MigrateCanonicalization, ContextTransition
<1>16. CASE ProcessEnds
  <2>1. pc' \in [Workers -> Steps]
    BY <1>16 DEF ProcessEnds, Steps
  <2>2. mine' \in [Workers -> 0 .. MaxRuns]
    BY <1>16, DiscoveryAssumption DEF ProcessEnds
  <2>3. rd' \in [Workers -> Reads]
    BY <1>16, NoReadsType DEF ProcessEnds
  <2>4. QED
    BY <1>16, <2>1, <2>2, <2>3 DEF ProcessEnds
<1>17. CASE AskFreshness
  <2>1. committed # 0 => committed \in Runs
    BY <1>17, DiscoveryAssumption DEF AskFreshness, Runs
  <2>2. Due => committed # 0
    BY <1>17 DEF AskFreshness, IInv, FreshInv, FreshIsEarned, Due
  <2>3. expired' \subseteq Runs
    BY <1>17, <2>1, <2>2 DEF AskFreshness, MaterializeExpiry
  <2>4. granted' \in 0 .. MaxRuns
    BY <1>17, DiscoveryAssumption DEF AskFreshness
  <2>5. invRev' \in Nat /\ pubRev' \in Nat
    BY <1>17 DEF AskFreshness, MaterializeExpiry, PublishOnly
  <2>6. fresh' \in {"not_yet_observed", "fresh", "stale"}
    BY <1>17 DEF AskFreshness, MaterializeExpiry
  <2>7. QED
    BY <1>17, <2>1, <2>2, <2>3, <2>4, <2>5, <2>6 DEF AskFreshness,
       MaterializeExpiry
<1>18. ASSUME NEW w \in Workers, Issue(w) PROVE TypeOK'
  <2>1. [NoReads EXCEPT !.observed = clock, !.cred = loaded.cred] \in Reads
    BY <1>18, NoReadsType DEF Issue, Reads, Configs
  <2>2. issued < MaxRuns
    BY <1>18 DEF Issue, MayIssue
  <2>3. issued + 1 \in Runs /\ issued + 1 \in 0 .. MaxRuns
    BY <1>18, <2>2, ClaimedRun DEF Issue
  <2>4. life' \in [Runs -> Live \cup Done \cup {"none", "abandoned"}] /\ runCtx' \in [Runs -> Contexts]
    BY <1>18 DEF Issue, Claim, Live
  <2>5. pc' \in [Workers -> Steps]
    BY <1>18 DEF Issue, Steps
  <2>6. mine' \in [Workers -> 0 .. MaxRuns] /\ rd' \in [Workers -> Reads]
    BY <1>18, <2>1, <2>3 DEF Issue, ObservedAt
  <2>7. invRev' \in Nat /\ pubRev' \in Nat
    BY <1>18 DEF Issue, Claim, PublishOnly
  <2>8. steady' \in [Workers -> SUBSET Vmids]
    BY <1>18 DEF Issue
  <2>9. QED
    BY ZenonT(60), <1>18, <2>1, <2>2, <2>3, <2>4, <2>5, <2>6, <2>7, <2>8 DEF Issue, Claim
<1>19. ASSUME NEW w \in Workers, IssueThenError(w) PROVE TypeOK'
  <2>1. issued + 1 \in Runs /\ issued + 1 \in 0 .. MaxRuns
    BY <1>19, ClaimedRun DEF IssueThenError, MayIssue
  <2>2. life' \in [Runs -> Live \cup Done \cup {"none", "abandoned"}] /\ runCtx' \in [Runs -> Contexts]
    BY <1>19 DEF IssueThenError, Claim, Live
  <2>3. invRev' \in Nat /\ pubRev' \in Nat
    BY <1>19 DEF IssueThenError, Claim, PublishOnly
  <2>4. QED
    BY ZenonT(60), <1>19, <2>1, <2>2, <2>3 DEF IssueThenError, Claim
<1>20. ASSUME NEW w \in Workers, Begin(w) PROVE TypeOK'
  <2>1. life' \in [Runs -> Live \cup Done \cup {"none", "abandoned"}]
    BY SMTT(40), <1>20 DEF Begin, GoesTo, Live
  <2>2. pc' \in [Workers -> Steps]
    BY <1>20 DEF Begin, GoesTo, Steps, Reading
  <2>3. invRev' \in Nat /\ pubRev' \in Nat
    BY <1>20 DEF Begin, PublishOnly
  <2>4. QED
    BY ZenonT(60), <1>20, <2>1, <2>2, <2>3 DEF Begin, GoesTo
<1>21. ASSUME NEW w \in Workers, Read(w) \/ ReadFails(w) PROVE TypeOK'
  <2>1. PICK step \in Steps, reads \in Reads : ReadLeaves(w, step, reads)
    BY <1>21, ReadEffect
  <2>2. pc' \in [Workers -> Steps] /\ rd' \in [Workers -> Reads]
    BY <2>1 DEF ReadLeaves, Got
  <2>3. QED
    BY ZenonT(60), <2>1, <2>2 DEF ReadLeaves, Got
<1>22. ASSUME NEW w \in Workers, FinalizeSuccess(w) PROVE TypeOK'
  <2>1. mine[w] \in Runs /\ source \in Configs /\ mine[w] \in 0 .. MaxRuns
    BY <1>22, BusyHasRun DEF FinalizeSuccess
  <2>2. CASE GoesTo(w, "abandon") /\ UNCHANGED <<owner, healthV, stock, revs, log>>
    <3>1. pc' \in [Workers -> Steps]
      BY <2>2 DEF GoesTo, Steps
    <3>2. QED
      BY ZenonT(60), <1>22, <2>2, <3>1, FinalizeEffect DEF GoesTo
  <2>3. CASE Commit(w) /\ Returns(w)
    <3>1. Reconcile(rd[w], mine[w])
      BY <2>3 DEF Commit
    <3>2. /\ slot' \in [Vmids -> Slots \cup {None}]
          /\ retired' \in [Vmids -> Seq([type : Types, rev : Nat,
                                         last : Nodes \cup {None}])]
          /\ nodeRow' \in [Nodes -> {"none", "available", "unavailable"}]
          /\ contracts' \subseteq Vmids \X Nat
      BY <2>1, <3>1, StockType
    <3>3. ref' \in Nat /\ until' \in Nat
      BY SMTT(40), <2>1, <2>3 DEF Commit, FreshnessReference, Reads, Times, Configs
    <3>4. /\ fresh' \in {"not_yet_observed", "fresh", "stale"}
          /\ origin' \in {"initial", "discovery_run", "time_expiry",
                          "controlled_context_transition"}
      BY <2>3 DEF Commit, JudgeFresh, JudgeOrigin
    <3>5. life' \in [Runs -> Live \cup Done \cup {"none", "abandoned"}]
      BY <2>3 DEF Commit, Release, Done
    <3>6. pc' \in [Workers -> Steps] /\ mine' \in [Workers -> 0 .. MaxRuns]
            /\ rd' \in [Workers -> Reads] /\ active' \in 0 .. MaxRuns
      BY <2>3, NoReadsType, DiscoveryAssumption DEF Commit, Release, Returns, Steps
    <3>7. invRev' \in Nat /\ pubRev' \in Nat
      BY <2>3 DEF Commit, PublishStock
    <3>8. /\ health' = "healthy" /\ hctx' = ctx /\ lastHealth' = mine[w]
          /\ latest' = mine[w] /\ committed' = mine[w]
          /\ UNCHANGED <<issued, runCtx>>
      BY <2>3 DEF Commit, Release
    <3>9. QED
      BY <1>22, <2>1, <3>2, <3>3, <3>4, <3>5, <3>6, <3>7, <3>8, FinalizeEffect
  <2>4. QED
    BY <1>22, <2>2, <2>3, FinalizeEffect
<1>23. ASSUME NEW w \in Workers, FinalizeFailed(w) PROVE TypeOK'
  <2>1. mine[w] \in Runs /\ mine[w] \in 0 .. MaxRuns
    BY <1>23, BusyHasRun DEF FinalizeFailed
  <2>2. CASE GoesTo(w, "abandon") /\ UNCHANGED <<owner, healthV, revs>>
    <3>1. pc' \in [Workers -> Steps]
      BY <2>2 DEF GoesTo, Steps
    <3>2. UNCHANGED <<config, sourceV, stock, clock, world, history, counts>>
      BY <1>23, FailEffect
    <3>3. QED
      BY ZenonT(60), <2>2, <3>1, <3>2 DEF GoesTo
  <2>3. CASE ~(GoesTo(w, "abandon") /\ UNCHANGED <<owner, healthV, revs>>)
    <3>1. /\ Release(mine[w], rd[w].outcome) /\ rd[w].outcome \in Failed
          /\ health' = HealthOf(rd[w].outcome) /\ fresh' = "stale"
          /\ origin' = "discovery_run" /\ lastHealth' = mine[w]
          /\ latest' = mine[w] /\ PublishOnly
          /\ UNCHANGED <<committed, ref, until, hctx>> /\ Returns(w)
      BY <1>23, <2>3, FailEffect
    <3>2. life' \in [Runs -> Live \cup Done \cup {"none", "abandoned"}]
      BY <3>1 DEF Release, Done
    <3>3. pc' \in [Workers -> Steps] /\ mine' \in [Workers -> 0 .. MaxRuns]
            /\ rd' \in [Workers -> Reads] /\ active' \in 0 .. MaxRuns
      BY <3>1, NoReadsType, DiscoveryAssumption DEF Release, Returns, Steps
    <3>4. invRev' \in Nat /\ pubRev' \in Nat
      BY <3>1 DEF PublishOnly
    <3>5. health' \in {"source_unavailable", "configuration_error", "degraded"}
      BY <3>1 DEF HealthOf, Failed
    <3>6. QED
      BY <1>23, <2>1, <3>1, <3>2, <3>3, <3>4, <3>5, FailEffect DEF Release
  <2>4. QED
    BY <2>2, <2>3
<1>24. ASSUME NEW w \in Workers, Abandon(w) PROVE TypeOK'
  <2>1. active' \in 0 .. MaxRuns
    BY <1>24, DiscoveryAssumption DEF Abandon, AbandonRun
  <2>2. life' \in [Runs -> Live \cup Done \cup {"none", "abandoned"}]
    BY <1>24 DEF Abandon, AbandonRun
  <2>3. invRev' \in Nat /\ pubRev' \in Nat
    BY <1>24 DEF Abandon, AbandonRun, PublishOnly
  <2>4. pc' \in [Workers -> Steps]
    BY <1>24 DEF Abandon, Returns, Steps
  <2>5. mine' \in [Workers -> 0 .. MaxRuns] /\ rd' \in [Workers -> Reads]
    BY <1>24, NoReadsType, DiscoveryAssumption DEF Abandon, Returns
  <2>6. QED
    BY ZenonT(60), <1>24, <2>1, <2>2, <2>3, <2>4, <2>5 DEF Abandon, AbandonRun
<1>25. ASSUME NEW w \in Workers, DbError(w) PROVE TypeOK'
  <2>1. pc' \in [Workers -> Steps]
    BY <1>25 DEF DbError, GoesTo, Returns, Steps
  <2>2. 0 \in 0 .. MaxRuns
    BY <1>25, DiscoveryAssumption DEF DbError
  <2>3. mine' \in [Workers -> 0 .. MaxRuns]
    BY <1>25, <2>2 DEF DbError, GoesTo, Returns
  <2>4. rd' \in [Workers -> Reads]
    BY <1>25, NoReadsType DEF DbError, GoesTo, Returns
  <2>5. QED
    BY ZenonT(60), <1>25, <2>1, <2>2, <2>3, <2>4 DEF DbError
<1>26. CASE UNCHANGED vars
  BY ZenonT(60), <1>26 DEF vars
<1>27. QED
  BY <1>1, <1>2, <1>3, <1>4, <1>5, <1>6, <1>7, <1>8, <1>9, <1>10, <1>11,
     <1>12, <1>13, <1>14, <1>15, <1>16, <1>17, <1>18, <1>19, <1>20, <1>21,
     <1>22, <1>23, <1>24, <1>25, <1>26
  DEF Next, World, Startup, Cycle, Read


\* The runs are numbers, and the bookkeeping is about them.
LEMMA RunTypes ==
    ASSUME IInv
    PROVE  /\ issued \in Nat /\ active \in Nat /\ committed \in Nat
           /\ lastHealth \in Nat /\ latest \in Nat
           /\ active # 0 => active \in Runs
           /\ issued <= MaxRuns /\ MaxRuns \in Nat
           /\ life \in [Runs -> Live \cup Done \cup {"none", "abandoned"}]
           /\ runCtx \in [Runs -> Contexts]
BY DiscoveryAssumption DEF IInv, TypeOK, Runs

\* The types of what a worker holds.
LEMMA WorkTypes ==
    ASSUME IInv
    PROVE  /\ pc \in [Workers -> Steps] /\ mine \in [Workers -> Nat]
           /\ rd \in [Workers -> Reads]
           /\ \A w \in Workers : mine[w] # 0 => mine[w] \in Runs
           /\ \A w \in Workers : pc[w] \in Steps
BY DiscoveryAssumption DEF IInv, TypeOK, Runs

\* The owner is the newest run, and the only live one.
LEMMA OwnerStep == IInv /\ [Next]_vars => OwnerInv'
<1> SUFFICES ASSUME IInv, [Next]_vars PROVE OwnerInv'
  OBVIOUS
<1> IInv /\ OwnerInv
  BY DEF IInv
<1> USE DEF OwnerInv, OwnerIsLive, Live, config, sourceV, owner, healthV,
            stock, revs, work, world, history, counts
<1>1. CASE Tick \/ SetBack \/ AclChanges \/ NodeChanges \/ GuestChanges
             \/ EditConfig \/ StartProcess \/ RefuseDrift \/ StartScheduler
  BY <1>1 DEF Tick, SetBack, AclChanges, NodeChanges, GuestChanges,
     EditConfig, StartProcess, RefuseDrift, StartScheduler, MayAdopt
<1>2. CASE RecoverRun
  BY <1>2, RunTypes DEF RecoverRun, AbandonRun, PublishOnly, OwnsSource
<1>3. CASE CreateSource
  BY <1>3 DEF CreateSource, PublishStock
<1>4. CASE RotateCredential \/ ConfigureFreshness \/ RotateTransportTrust
             \/ MigrateCanonicalization
  BY <1>4 DEF RotateCredential, MayAdopt, ContextTransition, PublishOnly,
     ConfigureFreshness, RotateTransportTrust, MigrateCanonicalization
<1>5. CASE ProcessEnds
  BY <1>5 DEF ProcessEnds, Busy
<1>6. CASE AskFreshness
  BY <1>6 DEF AskFreshness, MaterializeExpiry, Due, HasCurrentAuthority,
     PublishOnly
<1>7. ASSUME NEW w \in Workers, Issue(w) PROVE OwnerInv'
  BY <1>7, RunTypes DEF Issue, MayIssue, Claim, ObservedAt, PublishOnly,
     Runs
<1>8. ASSUME NEW w \in Workers, IssueThenError(w) PROVE OwnerInv'
  BY <1>8, RunTypes DEF IssueThenError, MayIssue, Claim, PublishOnly, Runs
<1>9. ASSUME NEW w \in Workers, Begin(w) PROVE OwnerInv'
  BY <1>9, RunTypes, BusyHasRun DEF Begin, GoesTo, PublishOnly
<1>10. ASSUME NEW w \in Workers, Read(w) \/ ReadFails(w) PROVE OwnerInv'
  <2>1. PICK step \in Steps, reads \in Reads : ReadLeaves(w, step, reads)
    BY <1>10, ReadEffect
  <2>2. QED
    BY <2>1 DEF ReadLeaves, Got
<1>11. ASSUME NEW w \in Workers, FinalizeSuccess(w) PROVE OwnerInv'
  BY ZenonT(60), <1>11, FinalizeEffect, RunTypes, BusyHasRun
  DEF Commit, Returns, GoesTo, Release
<1>12. ASSUME NEW w \in Workers, FinalizeFailed(w) PROVE OwnerInv'
  BY <1>12, FailEffect, RunTypes, BusyHasRun DEF Release, Returns, GoesTo, Failed
<1>13. ASSUME NEW w \in Workers, Abandon(w) PROVE OwnerInv'
  BY <1>13, RunTypes, BusyHasRun DEF Abandon, Returns, AbandonRun,
     PublishOnly, OwnsSource
<1>14. ASSUME NEW w \in Workers, DbError(w) PROVE OwnerInv'
  BY <1>14 DEF DbError, GoesTo, Returns
<1>15. CASE UNCHANGED vars
  BY <1>15 DEF vars
<1>16. QED
  BY <1>1, <1>2, <1>3, <1>4, <1>5, <1>6, <1>7, <1>8, <1>9, <1>10, <1>11,
     <1>12, <1>13, <1>14, <1>15
  DEF Next, World, Startup, Cycle, Read

\* A worker at work has a run that is past its start once it reads.
LEMMA WorkStep == IInv /\ [Next]_vars => WorkInv'
<1> SUFFICES ASSUME IInv, [Next]_vars PROVE WorkInv'
  OBVIOUS
<1> IInv /\ WorkInv
  BY DEF IInv
<1> USE DEF WorkInv, config, sourceV, owner, healthV, stock, revs, work,
            world, history, counts
<1>1. CASE Tick \/ SetBack \/ AclChanges \/ NodeChanges \/ GuestChanges
             \/ EditConfig \/ StartProcess \/ RefuseDrift \/ StartScheduler
  BY <1>1 DEF Tick, SetBack, AclChanges, NodeChanges, GuestChanges,
     EditConfig, StartProcess, RefuseDrift, StartScheduler, MayAdopt
<1>2. CASE RecoverRun
  BY <1>2, RunTypes, WorkTypes DEF RecoverRun, AbandonRun, PublishOnly,
     OwnsSource, Reading
<1>3. CASE CreateSource
  BY <1>3 DEF CreateSource, PublishStock
<1>4. CASE RotateCredential \/ ConfigureFreshness \/ RotateTransportTrust
             \/ MigrateCanonicalization
  BY <1>4 DEF RotateCredential, MayAdopt, ContextTransition, PublishOnly,
     ConfigureFreshness, RotateTransportTrust, MigrateCanonicalization
<1>5. CASE ProcessEnds
  <2>1. \A w \in Workers : \/ pc'[w] = "idle" /\ mine'[w] = 0
                           \/ pc'[w] = pc[w] /\ mine'[w] = mine[w] /\ rd'[w] = rd[w]
    BY <1>5 DEF ProcessEnds
  <2>2. QED
    BY <1>5, <2>1, RunTypes DEF ProcessEnds, Reading
<1>6. CASE AskFreshness
  BY <1>6 DEF AskFreshness, MaterializeExpiry, Due, HasCurrentAuthority,
     PublishOnly
<1>7. ASSUME NEW w \in Workers, Issue(w) PROVE WorkInv'
  BY <1>7, RunTypes, WorkTypes DEF Issue, MayIssue, Claim, ObservedAt,
     PublishOnly, Reading, Runs
<1>8. ASSUME NEW w \in Workers, IssueThenError(w) PROVE WorkInv'
  BY <1>8, RunTypes, WorkTypes DEF IssueThenError, MayIssue, Claim,
     PublishOnly, Runs, Reading
<1>9. ASSUME NEW w \in Workers, Begin(w) PROVE WorkInv'
  BY <1>9, RunTypes, WorkTypes, BusyHasRun DEF Begin, GoesTo, PublishOnly,
     Reading
<1>10. ASSUME NEW w \in Workers, Read(w) \/ ReadFails(w) PROVE WorkInv'
  <2>1. PICK step \in Steps, reads \in Reads : ReadLeaves(w, step, reads)
    BY <1>10, ReadEffect
  <2>2. QED
    BY <2>1, WorkTypes DEF ReadLeaves, Got, Reading
<1>11. ASSUME NEW w \in Workers, FinalizeSuccess(w) PROVE WorkInv'
  <2>1. CASE Commit(w) /\ Returns(w)
    <3>1. issued' = issued /\ life' = [life EXCEPT ![mine[w]] = "success"]
      BY <2>1 DEF Commit, Release
    <3>2. QED
      BY <1>11, <2>1, <3>1, RunTypes, WorkTypes, FinalizeEffect DEF Returns, Reading
  <2>2. CASE GoesTo(w, "abandon") /\ UNCHANGED owner
    BY <1>11, <2>2, WorkTypes, FinalizeEffect DEF GoesTo, Reading
  <2>3. QED
    BY <1>11, <2>1, <2>2, FinalizeEffect
<1>12. ASSUME NEW w \in Workers, FinalizeFailed(w) PROVE WorkInv'
  BY <1>12, FailEffect, RunTypes, WorkTypes, BusyHasRun DEF Release, Returns, GoesTo, Failed, Reading
<1>13. ASSUME NEW w \in Workers, Abandon(w) PROVE WorkInv'
  BY <1>13, RunTypes, WorkTypes, BusyHasRun DEF Abandon, Returns, AbandonRun,
     PublishOnly, OwnsSource, Reading
<1>14. ASSUME NEW w \in Workers, DbError(w) PROVE WorkInv'
  <2>1. CASE GoesTo(w, "abandon")
    BY <1>14, <2>1, WorkTypes DEF DbError, GoesTo, Reading
  <2>2. CASE Returns(w)
    BY <1>14, <2>2, RunTypes, WorkTypes DEF DbError, Returns, Reading
  <2>3. QED
    BY <1>14, <2>1, <2>2 DEF DbError
<1>15. CASE UNCHANGED vars
  BY <1>15 DEF vars
<1>16. QED
  BY <1>1, <1>2, <1>3, <1>4, <1>5, <1>6, <1>7, <1>8, <1>9, <1>10, <1>11,
     <1>12, <1>13, <1>14, <1>15
  DEF Next, World, Startup, Cycle, Read

\* The owner's context stays, and its worker's credential with it.
LEMMA ContextStep == IInv /\ [Next]_vars => ContextInv'
<1> SUFFICES ASSUME IInv, [Next]_vars PROVE ContextInv'
  OBVIOUS
<1> IInv /\ ContextInv
  BY DEF IInv
<1> USE DEF ContextInv, OwnerIsCurrent, Busy, config, sourceV, owner,
            healthV, stock, revs, work, world, history, counts
<1>1. CASE Tick \/ SetBack \/ AclChanges \/ NodeChanges \/ GuestChanges
             \/ EditConfig
  BY <1>1 DEF Tick, SetBack, AclChanges, NodeChanges, GuestChanges,
     EditConfig
<1>2. CASE StartProcess \/ RefuseDrift
  BY <1>2 DEF StartProcess, RefuseDrift
<1>3. CASE StartScheduler
  BY <1>3 DEF StartScheduler, MayAdopt
<1>4. CASE RecoverRun
  BY <1>4, RunTypes, WorkTypes DEF RecoverRun, AbandonRun, PublishOnly,
     OwnsSource
<1>5. CASE CreateSource
  BY <1>5, RunTypes DEF CreateSource, PublishStock, IInv, OwnerInv
<1>6. CASE RotateCredential \/ ConfigureFreshness
  <2>1. source' \in Configs /\ source' # None
    BY <1>6, NoneAssumption
    DEF IInv, TypeOK, Configs, RotateCredential, ConfigureFreshness, MayAdopt,
        ContextTransition
  <2>2. QED
    BY <1>6, <2>1
    DEF RotateCredential, ConfigureFreshness, MayAdopt, ContextTransition
<1>7. CASE RotateTransportTrust \/ MigrateCanonicalization
  BY <1>7 DEF RotateTransportTrust, MigrateCanonicalization, ContextTransition
<1>8. CASE ProcessEnds
  BY <1>8, WorkTypes DEF ProcessEnds, Busy
<1>9. CASE AskFreshness
  BY <1>9 DEF AskFreshness, MaterializeExpiry, Due, HasCurrentAuthority,
     PublishOnly
<1>10. ASSUME NEW w \in Workers, Issue(w) PROVE ContextInv'
  BY <1>10, RunTypes, WorkTypes, NoReadsType DEF Issue, MayIssue, Claim,
     ObservedAt, PublishOnly, Runs, IInv, WorkInv, Reads
<1>11. ASSUME NEW w \in Workers, IssueThenError(w) PROVE ContextInv'
  BY <1>11, RunTypes, WorkTypes DEF IssueThenError, MayIssue, Claim,
     PublishOnly, Runs, IInv, WorkInv
<1>12. ASSUME NEW w \in Workers, Begin(w) PROVE ContextInv'
  BY <1>12, RunTypes, WorkTypes, BusyHasRun DEF Begin, GoesTo, PublishOnly
<1>13. ASSUME NEW w \in Workers, Read(w) \/ ReadFails(w) PROVE ContextInv'
  <2>1. PICK step \in Steps, reads \in Reads : ReadLeaves(w, step, reads)
    BY <1>13, ReadEffect
  <2>2. QED
    BY <2>1, WorkTypes DEF ReadLeaves, Got, Reading
<1>14. ASSUME NEW w \in Workers, FinalizeSuccess(w) PROVE ContextInv'
  BY <1>14, FinalizeEffect, RunTypes, WorkTypes, BusyHasRun
  DEF Commit, Returns, GoesTo, Release
<1>15. ASSUME NEW w \in Workers, FinalizeFailed(w) PROVE ContextInv'
  BY <1>15, FailEffect, RunTypes, WorkTypes, BusyHasRun DEF Release, Returns, GoesTo, Failed
<1>16. ASSUME NEW w \in Workers, Abandon(w) PROVE ContextInv'
  BY <1>16, RunTypes, WorkTypes, BusyHasRun DEF Abandon, Returns, AbandonRun,
     PublishOnly, OwnsSource
<1>17. ASSUME NEW w \in Workers, DbError(w) PROVE ContextInv'
  BY <1>17, WorkTypes DEF DbError, GoesTo, Returns
<1>18. CASE UNCHANGED vars
  BY <1>18 DEF vars
<1>19. QED
  BY <1>1, <1>2, <1>3, <1>4, <1>5, <1>6, <1>7, <1>8, <1>9, <1>10, <1>11,
     <1>12, <1>13, <1>14, <1>15, <1>16, <1>17, <1>18
  DEF Next, World, Startup, Cycle, Read

\* The recorded health follows the newest completed run.
LEMMA HealthStep == IInv /\ [Next]_vars => HealthIsNewest'
<1> SUFFICES ASSUME IInv, [Next]_vars PROVE HealthIsNewest'
  OBVIOUS
<1> IInv /\ HealthIsNewest
  BY DEF IInv
<1> USE DEF HealthIsNewest, Live, config, sourceV, owner, healthV, stock,
            revs, work, world, history, counts
<1>1. CASE Tick \/ SetBack \/ AclChanges \/ NodeChanges \/ GuestChanges
             \/ EditConfig \/ StartProcess \/ RefuseDrift \/ StartScheduler
  BY <1>1 DEF Tick, SetBack, AclChanges, NodeChanges, GuestChanges,
     EditConfig, StartProcess, RefuseDrift, StartScheduler, MayAdopt
<1>2. CASE RecoverRun
  BY <1>2, RunTypes DEF RecoverRun, AbandonRun, PublishOnly, OwnsSource,
     Done, Failed
<1>3. CASE CreateSource
  BY <1>3 DEF CreateSource, PublishStock
<1>4. CASE RotateCredential \/ ConfigureFreshness \/ RotateTransportTrust
             \/ MigrateCanonicalization
  BY <1>4 DEF RotateCredential, MayAdopt, ContextTransition, PublishOnly,
     ConfigureFreshness, RotateTransportTrust, MigrateCanonicalization
<1>5. CASE ProcessEnds
  BY <1>5 DEF ProcessEnds, Busy
<1>6. CASE AskFreshness
  BY <1>6 DEF AskFreshness, MaterializeExpiry, Due, HasCurrentAuthority,
     PublishOnly
<1>7. ASSUME NEW w \in Workers, Issue(w) PROVE HealthIsNewest'
  BY <1>7, RunTypes DEF Issue, MayIssue, Claim, ObservedAt, PublishOnly,
     Done, Failed, Runs, IInv, OwnerInv
<1>8. ASSUME NEW w \in Workers, IssueThenError(w) PROVE HealthIsNewest'
  BY SMTT(40), <1>8, RunTypes DEF IssueThenError, MayIssue, Claim, PublishOnly, Done,
     Failed, Runs, IInv, OwnerInv
<1>9. ASSUME NEW w \in Workers, Begin(w) PROVE HealthIsNewest'
  BY <1>9, RunTypes, BusyHasRun DEF Begin, GoesTo, PublishOnly, Done, Failed
<1>10. ASSUME NEW w \in Workers, Read(w) \/ ReadFails(w) PROVE HealthIsNewest'
  <2>1. PICK step \in Steps, reads \in Reads : ReadLeaves(w, step, reads)
    BY <1>10, ReadEffect
  <2>2. QED
    BY <2>1 DEF ReadLeaves, Got
<1>11. ASSUME NEW w \in Workers, FinalizeSuccess(w) PROVE HealthIsNewest'
  <2>1. CASE GoesTo(w, "abandon") /\ UNCHANGED <<owner, healthV, stock, revs, log>>
    BY <2>1
  <2>2. CASE active = mine[w] /\ mine[w] # 0 /\ Commit(w) /\ Returns(w)
    <3>1. /\ life' = [life EXCEPT ![mine[w]] = "success"] /\ latest' = mine[w]
          /\ health' = "healthy" /\ mine[w] \in Runs /\ latest < mine[w]
      BY <2>2, RunTypes DEF Commit, Release, IInv, OwnerInv
    <3>2. QED
      BY <3>1, RunTypes DEF Done, Runs
  <2>3. QED
    BY <1>11, <2>1, <2>2, FinalizeEffect
<1>12. ASSUME NEW w \in Workers, FinalizeFailed(w) PROVE HealthIsNewest'
  <2>1. CASE GoesTo(w, "abandon") /\ UNCHANGED <<owner, healthV, revs>>
    BY <2>1
  <2>2. CASE active = mine[w] /\ mine[w] # 0 /\ Release(mine[w], rd[w].outcome)
             /\ rd[w].outcome \in Failed /\ latest' = mine[w]
             /\ health' = HealthOf(rd[w].outcome)
    <3>1. /\ life' = [life EXCEPT ![mine[w]] = rd[w].outcome]
          /\ mine[w] \in Runs /\ latest < mine[w]
      BY <2>2, RunTypes DEF Release, IInv, OwnerInv
    <3>2. QED
      BY <2>2, <3>1, RunTypes DEF Done, Failed, Runs
  <2>3. QED
    BY <1>12, <2>1, <2>2, FailEffect
<1>13. ASSUME NEW w \in Workers, Abandon(w) PROVE HealthIsNewest'
  BY <1>13, RunTypes, BusyHasRun DEF Abandon, Returns, AbandonRun,
     PublishOnly, OwnsSource, Done, Failed
<1>14. ASSUME NEW w \in Workers, DbError(w) PROVE HealthIsNewest'
  BY <1>14 DEF DbError, GoesTo, Returns
<1>15. CASE UNCHANGED vars
  BY <1>15 DEF vars
<1>16. QED
  BY <1>1, <1>2, <1>3, <1>4, <1>5, <1>6, <1>7, <1>8, <1>9, <1>10, <1>11,
     <1>12, <1>13, <1>14, <1>15
  DEF Next, World, Startup, Cycle, Read

\* What is fresh was earned, and an expired run does not come back.
LEMMA FreshStep == IInv /\ [Next]_vars => FreshInv'
<1> SUFFICES ASSUME IInv, [Next]_vars PROVE FreshInv'
  OBVIOUS
<1> IInv /\ FreshInv
  BY DEF IInv
<1> USE DEF FreshInv, FreshIsEarned, config, sourceV, owner, healthV, stock,
            revs, work, world, history, counts
<1>1. CASE Tick \/ SetBack \/ AclChanges \/ NodeChanges \/ GuestChanges
             \/ EditConfig \/ StartProcess \/ RefuseDrift \/ StartScheduler
  BY <1>1 DEF Tick, SetBack, AclChanges, NodeChanges, GuestChanges,
     EditConfig, StartProcess, RefuseDrift, StartScheduler, MayAdopt
<1>2. CASE RecoverRun
  BY <1>2 DEF RecoverRun, AbandonRun, PublishOnly, OwnsSource
<1>3. CASE CreateSource
  BY <1>3, RunTypes DEF CreateSource, PublishStock, IInv, ContextInv,
     OwnerInv
<1>4. CASE RotateCredential \/ ConfigureFreshness \/ RotateTransportTrust
             \/ MigrateCanonicalization
  BY <1>4 DEF RotateCredential, MayAdopt, ContextTransition, PublishOnly,
     ConfigureFreshness, RotateTransportTrust, MigrateCanonicalization
<1>5. CASE ProcessEnds
  BY <1>5 DEF ProcessEnds, Busy
<1>6. CASE AskFreshness
  BY <1>6, RunTypes DEF AskFreshness, MaterializeExpiry, Due,
     HasCurrentAuthority, PublishOnly
<1>7. ASSUME NEW w \in Workers, Issue(w) PROVE FreshInv'
  BY <1>7 DEF Issue, MayIssue, Claim, ObservedAt, PublishOnly
<1>8. ASSUME NEW w \in Workers, IssueThenError(w) PROVE FreshInv'
  BY <1>8 DEF IssueThenError, MayIssue, Claim, PublishOnly
<1>9. ASSUME NEW w \in Workers, Begin(w) PROVE FreshInv'
  BY <1>9 DEF Begin, GoesTo, PublishOnly
<1>10. ASSUME NEW w \in Workers, Read(w) \/ ReadFails(w) PROVE FreshInv'
  <2>1. PICK step \in Steps, reads \in Reads : ReadLeaves(w, step, reads)
    BY <1>10, ReadEffect
  <2>2. QED
    BY <2>1 DEF ReadLeaves, Got
<1>11. ASSUME NEW w \in Workers, FinalizeSuccess(w) PROVE FreshInv'
  <2>1. CASE GoesTo(w, "abandon") /\ UNCHANGED <<owner, healthV, stock, revs, log>>
    BY <1>11, <2>1, FinalizeEffect
  <2>2. CASE active = mine[w] /\ mine[w] # 0 /\ Commit(w) /\ Returns(w)
    <3>1. committed < mine[w] /\ expired \subseteq Runs
      BY <2>2 DEF IInv, TypeOK, OwnerInv
    <3>2. /\ committed' = mine[w] /\ latest' = mine[w] /\ lastHealth' = mine[w]
          /\ health' = "healthy" /\ hctx' = ctx /\ until' = ref' + source.dur
      BY <2>2 DEF Commit
    <3>3. expired' = expired /\ ctx' = ctx /\ source' = source
      BY <1>11, FinalizeEffect
    <3>4. QED
      BY <2>2, <3>1, <3>2, <3>3, RunTypes DEF Runs
  <2>3. QED
    BY <1>11, <2>1, <2>2, FinalizeEffect
<1>12. ASSUME NEW w \in Workers, FinalizeFailed(w) PROVE FreshInv'
  BY <1>12, FailEffect DEF Release, Returns, GoesTo
<1>13. ASSUME NEW w \in Workers, Abandon(w) PROVE FreshInv'
  BY <1>13 DEF Abandon, Returns, AbandonRun, PublishOnly, OwnsSource
<1>14. ASSUME NEW w \in Workers, DbError(w) PROVE FreshInv'
  BY <1>14 DEF DbError, GoesTo, Returns
<1>15. CASE UNCHANGED vars
  BY <1>15 DEF vars
<1>16. QED
  BY <1>1, <1>2, <1>3, <1>4, <1>5, <1>6, <1>7, <1>8, <1>9, <1>10, <1>11,
     <1>12, <1>13, <1>14, <1>15
  DEF Next, World, Startup, Cycle, Read

\* The clock never runs below what it once showed, unless it is set back.
LEMMA ClockTypes ==
    ASSUME IInv
    PROVE  /\ clock \in Nat /\ ref \in Nat /\ rd \in [Workers -> Reads]
           /\ \A w \in Workers : rd[w].observed \in Nat /\ rd[w].at \in Nat
           /\ pc \in [Workers -> Steps]
BY DEF IInv, TypeOK, Reads, Times

\* The moments taken down stay behind a clock that is not set back.
LEMMA ClockStep == IInv /\ [Next]_vars => ClockInv'
<1> SUFFICES ASSUME IInv, [Next]_vars PROVE ClockInv'
  OBVIOUS
<1> IInv /\ ClockInv
  BY DEF IInv
<1> USE DEF ClockInv, config, sourceV, owner, healthV, stock, revs, work,
            world, history, counts
<1>1. CASE Tick
  BY <1>1, ClockTypes DEF Tick
<1>2. CASE SetBack
  BY <1>2 DEF SetBack
<1>3. CASE AclChanges \/ NodeChanges \/ GuestChanges \/ EditConfig
  BY <1>3 DEF AclChanges, NodeChanges, GuestChanges, EditConfig
<1>4. CASE StartProcess \/ RefuseDrift \/ StartScheduler
  BY <1>4 DEF StartProcess, RefuseDrift, StartScheduler, MayAdopt
<1>5. CASE RecoverRun
  BY <1>5 DEF RecoverRun, AbandonRun, PublishOnly, OwnsSource
<1>6. CASE CreateSource
  BY <1>6 DEF CreateSource, PublishStock
<1>7. CASE RotateCredential \/ ConfigureFreshness
  BY <1>7 DEF RotateCredential, MayAdopt, ContextTransition, PublishOnly,
     ConfigureFreshness
<1>8. CASE RotateTransportTrust \/ MigrateCanonicalization
  BY <1>8 DEF RotateTransportTrust, ContextTransition, PublishOnly,
     MigrateCanonicalization
<1>9. CASE ProcessEnds
  <2>1. \A w \in Workers : \/ pc'[w] = "idle" /\ rd'[w] = NoReads
                           \/ pc'[w] = pc[w] /\ rd'[w] = rd[w]
    BY <1>9 DEF ProcessEnds
  <2>2. QED
    BY <1>9, <2>1, ClockTypes, NoReadsType DEF ProcessEnds, GuestsRead
<1>10. CASE AskFreshness
  BY <1>10 DEF AskFreshness, MaterializeExpiry, Due, HasCurrentAuthority,
     PublishOnly
<1>11. ASSUME NEW w \in Workers, Issue(w) PROVE ClockInv'
  <2>1. /\ [NoReads EXCEPT !.observed = clock, !.cred = loaded.cred].observed = clock
        /\ clock <= clock
    BY NoReadsType, ClockTypes DEF Reads
  <2>2. QED
    BY <1>11, <2>1, ClockTypes DEF Issue, ObservedAt, Claim, GuestsRead
<1>12. ASSUME NEW w \in Workers, IssueThenError(w) PROVE ClockInv'
  BY <1>12 DEF IssueThenError, MayIssue, Claim, PublishOnly
<1>13. ASSUME NEW w \in Workers, Begin(w) PROVE ClockInv'
  BY <1>13, ClockTypes DEF Begin, GoesTo, PublishOnly, GuestsRead
<1>14. ASSUME NEW w \in Workers, Read(w) \/ ReadFails(w) PROVE ClockInv'
  <2>1. PICK step \in Steps, reads \in Reads : ReadLeaves(w, step, reads)
    BY <1>14, ReadEffect
  <2>2. QED
    BY <2>1, ClockTypes DEF ReadLeaves, Got, GuestsRead
<1>15. ASSUME NEW w \in Workers, FinalizeSuccess(w) PROVE ClockInv'
  <2>1. CASE GoesTo(w, "abandon") /\ UNCHANGED <<owner, healthV, stock, revs, log>>
    BY <1>15, <2>1, FinalizeEffect, ClockTypes DEF GoesTo, GuestsRead
  <2>2. CASE active = mine[w] /\ mine[w] # 0 /\ Commit(w) /\ Returns(w)
    <3> DEFINE row == [run |-> mine[w], at |-> rd[w].at, guests |-> rd[w].guests,
                       nodes |-> rd[w].nodes]
    <3>1. row \in Baseline
      BY <2>2, RunTypes, WorkTypes DEF Baseline, Reads
    <3>2. log' = Append(log, row) /\ ref' = rd[w].observed
      BY <2>2 DEF Commit, FreshnessReference
    <3>3. /\ log' \in Seq(Baseline) /\ log' # <<>>
          /\ log'[Len(log')] = row /\ row.at = rd[w].at
      BY <3>1, <3>2
    <3>4. /\ UNCHANGED <<clock, setBacks>> /\ pc[w] = "commit"
          /\ \A u \in Workers : \/ u = w /\ pc'[u] = "idle" /\ rd'[u] = NoReads
                                \/ u # w /\ pc'[u] = pc[u] /\ rd'[u] = rd[u]
      BY <1>15, <2>2, FinalizeEffect, ClockTypes DEF Returns
    <3>5. QED
      BY SMTT(40), <3>2, <3>3, <3>4, ClockTypes, NoReadsType DEF GuestsRead
  <2>3. QED
    BY <1>15, <2>1, <2>2, FinalizeEffect
<1>16. ASSUME NEW w \in Workers, FinalizeFailed(w) PROVE ClockInv'
  BY SMTT(40), <1>16, FailEffect, ClockTypes, NoReadsType
  DEF Release, Returns, GoesTo, GuestsRead
<1>17. ASSUME NEW w \in Workers, Abandon(w) PROVE ClockInv'
  BY <1>17, ClockTypes, NoReadsType DEF Abandon, Returns, AbandonRun,
     PublishOnly, OwnsSource, GuestsRead
<1>18. ASSUME NEW w \in Workers, DbError(w) PROVE ClockInv'
  BY SMTT(40), <1>18, ClockTypes, NoReadsType DEF DbError, GoesTo, Returns, GuestsRead
<1>19. CASE UNCHANGED vars
  BY <1>19 DEF vars
<1>20. QED
  BY <1>1, <1>2, <1>3, <1>4, <1>5, <1>6, <1>7, <1>8, <1>9, <1>10, <1>11,
     <1>12, <1>13, <1>14, <1>15, <1>16, <1>17, <1>18, <1>19
  DEF Next, World, Startup, Cycle, Read

\* The initial states satisfy the invariant.
LEMMA InitIInv == Init => IInv
<1> SUFFICES ASSUME Init PROVE IInv
  OBVIOUS
<1> USE DEF Init
<1>1. TypeOK
  <2>1. /\ file \in Configs /\ ctx \in Contexts
        /\ 0 \in 0 .. MaxRuns /\ 0 \in Times
    BY DiscoveryAssumption DEF Configs, Contexts, Times
  <2>2. guests \in Sights
    BY DiscoveryAssumption DEF Sights, Guest, Types
  <2>3. pc \in [Workers -> Steps] /\ rd \in [Workers -> Reads]
    BY NoReadsType DEF Steps
  <2>4. nodes \in [Nodes -> NodeStates] /\ acl \in Acls
    BY DEF NodeStates, Acls
  <2>5. retired \in [Vmids -> Seq([type : Types, rev : Nat,
                                   last : Nodes \cup {None}])]
    OBVIOUS
  <2>6. QED
    BY <2>1, <2>2, <2>3, <2>4, <2>5 DEF TypeOK
<1>2. OwnerInv
  BY DiscoveryAssumption DEF OwnerInv, OwnerIsLive, Live, Runs
<1>3. WorkInv
  BY NoReadsType DEF WorkInv, Reading
<1>4. ContextInv
  BY DEF ContextInv, OwnerIsCurrent
<1>5. HealthIsNewest
  BY DEF HealthIsNewest, Done, Failed
<1>6. FreshInv
  BY DEF FreshInv, FreshIsEarned
<1>7. ClockInv
  BY NoReadsType DEF ClockInv, GuestsRead
<1>8. QED
  BY <1>1, <1>2, <1>3, <1>4, <1>5, <1>6, <1>7 DEF IInv

-----------------------------------------------------------------------------
(* The theorems.                                                           *)

\* The invariant is inductive: it holds of every state any number of workers,
\* processes, edits and clock changes reaches.
THEOREM Inductive == Spec => []IInv
<1>1. IInv /\ [Next]_vars => IInv'
  BY TypeStep, OwnerStep, WorkStep, ContextStep, HealthStep, FreshStep, ClockStep
  DEF IInv
<1>2. QED
  BY <1>1, InitIInv, PTL DEF Spec

\* One live run owns the source, under the context and the credential it was
\* issued with, and the recorded health is the newest completed run's.
THEOREM SourceConsistent == Spec => []SourceIsConsistent
<1>1. IInv => SourceIsConsistent
  BY DEF IInv, SourceIsConsistent, OwnerInv, ContextInv
<1>2. QED
  BY <1>1, Inductive, PTL

\* A fresh source rests on its newest run and on the present configuration.
THEOREM FreshEarned == Spec => []FreshIsEarned
<1>1. IInv => FreshIsEarned
  BY DEF IInv, FreshInv
<1>2. QED
  BY <1>1, Inductive, PTL

\* What a step may do to the inventory and to a run that is over.
AppliedStep ==
    /\ <<log, stock, committed>>' # <<log, stock, committed>>
         => /\ active # 0 /\ life[active] = "running"
            /\ committed < active /\ committed' = active
            /\ Len(log') = Len(log) + 1
    /\ \A r \in Runs : life[r] \in Done \cup {"abandoned"} => life'[r] = life[r]

\* A baseline is applied by the running owner, once, in the order of issue; a
\* run that is over stays as it ended, whatever its lingering worker does.
THEOREM OwnerApplies == Spec => OnlyTheOwnerIsApplied
<1>1. IInv /\ [Next]_vars => [AppliedStep]_vars
  <2> SUFFICES ASSUME IInv, Next PROVE AppliedStep
    OBVIOUS
  <2> USE DEF AppliedStep, config, sourceV, owner, healthV, stock, revs, work,
              world, history, counts
  <2>1. CASE World
    BY <2>1 DEF World, Tick, SetBack, GuestChanges, NodeChanges, AclChanges,
       EditConfig
  <2>2. CASE Startup
    BY <2>2, RunTypes
    DEF Startup, StartProcess, RecoverRun, CreateSource, RefuseDrift,
        RotateCredential, ConfigureFreshness, StartScheduler, MayAdopt,
        ContextTransition, AbandonRun, OwnsSource, Live, Done, Failed
  <2>3. CASE \/ ProcessEnds \/ AskFreshness \/ RotateTransportTrust
             \/ MigrateCanonicalization
    BY <2>3 DEF ProcessEnds, AskFreshness, RotateTransportTrust,
       MigrateCanonicalization, ContextTransition
  <2>4. ASSUME NEW w \in Workers, Issue(w) \/ IssueThenError(w) PROVE AppliedStep
    BY <2>4, RunTypes
    DEF Issue, IssueThenError, Claim, IInv, OwnerInv, Done, Failed
  <2>5. ASSUME NEW w \in Workers, Begin(w) PROVE AppliedStep
    BY <2>5, RunTypes DEF Begin, Done, Failed
  <2>6. ASSUME NEW w \in Workers, Read(w) \/ ReadFails(w) PROVE AppliedStep
    BY <2>6, ReadEffect DEF ReadLeaves, Got
  <2>7. ASSUME NEW w \in Workers, FinalizeSuccess(w) PROVE AppliedStep
    <3>1. CASE UNCHANGED <<owner, healthV, stock, revs, log>>
      BY <3>1
    <3>2. CASE active = mine[w] /\ mine[w] # 0 /\ Commit(w)
      <4>1. life[active] = "running" /\ committed < active
        BY <2>7, <3>2, FinalizeEffect
        DEF IInv, WorkInv, OwnerInv, OwnerIsLive, Live
      <4>2. /\ committed' = active /\ life' = [life EXCEPT ![active] = "success"]
            /\ \E row : log' = Append(log, row)
        BY <3>2 DEF Commit, Release
      <4>3. Len(log') = Len(log) + 1
        BY <4>2 DEF IInv, ClockInv
      <4>4. QED
        BY <3>2, <4>1, <4>2, <4>3, RunTypes DEF Done, Failed
    <3>3. QED
      BY <2>7, <3>1, <3>2, FinalizeEffect
  <2>8. ASSUME NEW w \in Workers, FinalizeFailed(w) PROVE AppliedStep
    BY <2>8, FailEffect, RunTypes
    DEF Release, IInv, OwnerInv, OwnerIsLive, Live, Done, Failed
  <2>9. ASSUME NEW w \in Workers, Abandon(w) \/ DbError(w) PROVE AppliedStep
    BY <2>9, RunTypes DEF Abandon, DbError, AbandonRun, OwnsSource, Live, Done,
       Failed
  <2>10. QED
    BY <2>1, <2>2, <2>3, <2>4, <2>5, <2>6, <2>7, <2>8, <2>9 DEF Next, Cycle
<1>2. QED
  BY <1>1, Inductive, PTL DEF Spec, OnlyTheOwnerIsApplied, AppliedStep

\* A positive answer is given inside the interval, on a run never found
\* expired, though the clock be set back between the answers.
THEOREM AnswersInTime == Spec => GrantedInTime
<1>1. IInv /\ [Next]_vars
        => [granted' # 0 /\ AskFreshness =>
              /\ ref <= clock /\ clock < until
              /\ granted' = committed /\ granted' \notin expired']_vars
  <2> SUFFICES ASSUME IInv, AskFreshness, granted' # 0
               PROVE  /\ ref <= clock /\ clock < until
                      /\ granted' = committed /\ granted' \notin expired'
    OBVIOUS
  <2>1. fresh' = "fresh" /\ hctx = ctx /\ granted' = committed
    BY DEF AskFreshness, HasCurrentAuthority
  <2>2. ~Due /\ fresh = "fresh" /\ expired' = expired
    BY <2>1 DEF AskFreshness, MaterializeExpiry, healthV
  <2>3. ref <= clock /\ clock < until
    BY <2>1, <2>2 DEF Due, IInv, TypeOK, Times
  <2>4. QED
    BY <2>1, <2>2, <2>3 DEF IInv, FreshInv
<1>2. QED
  BY <1>1, Inductive, PTL DEF Spec, GrantedInTime

\* While the clock was never set back, a positive answer rests on guests read
\* no longer ago than the configured duration.
THEOREM AnswersOnRecentReads == Spec => GrantedOnRecentReads
<1>1. IInv /\ [Next]_vars
        => [granted' # 0 /\ AskFreshness /\ setBacks = 0
              => clock - log[Len(log)].at < source.dur]_vars
  <2> SUFFICES ASSUME IInv, AskFreshness, granted' # 0, setBacks = 0
               PROVE  clock - log[Len(log)].at < source.dur
    OBVIOUS
  <2>1. fresh' = "fresh" /\ hctx = ctx
    BY DEF AskFreshness, HasCurrentAuthority
  <2>2. ~Due /\ fresh = "fresh"
    BY <2>1 DEF AskFreshness, MaterializeExpiry, healthV
  <2>3. clock < until /\ clock \in Nat /\ until \in Nat /\ ref \in Nat
    BY <2>1, <2>2 DEF Due, IInv, TypeOK, Times
  <2>4. committed # 0 /\ until = ref + source.dur
    BY <2>2 DEF IInv, FreshInv, FreshIsEarned
  <2>5. ref <= log[Len(log)].at /\ log \in Seq(Baseline) /\ log # <<>>
    BY <2>4 DEF IInv, ClockInv
  <2>6. log[Len(log)] \in Baseline
    BY <2>5
  <2>7. log[Len(log)].at \in Nat
    BY <2>6 DEF Baseline, Times
  <2>8. source.dur \in Nat
    BY DEF AskFreshness, IInv, TypeOK, Configs
  <2>9. QED
    BY <2>3, <2>4, <2>5, <2>7, <2>8
<1>2. QED
  BY <1>1, Inductive, PTL DEF Spec, GrantedOnRecentReads

-----------------------------------------------------------------------------
(* The inventory and its history.  The operators of InventoryIsItsHistory, *)
(* of any sequence of baselines: a CHOOSE is replaced by what it picks.    *)

\* A baseline names the locator v, and with which type.
SeenIn(L, v, i) == L[i].guests[v] # None
SightsIn(L, v)  == {i \in DOMAIN L : SeenIn(L, v, i)}
KindIn(L, v, i) == L[i].guests[v].type

\* The last baseline that names v, and the first of its present incarnation.
LastIn(L, v, l) == l \in SightsIn(L, v) /\ \A j \in SightsIn(L, v) : j <= l

BirthIn(L, v, b) ==
    /\ b \in SightsIn(L, v)
    /\ \A j \in SightsIn(L, v) : j >= b => KindIn(L, v, j) = KindIn(L, v, b)
    /\ \A k \in SightsIn(L, v) :
         k < b => \E j \in SightsIn(L, v) : /\ j >= k
                                           /\ KindIn(L, v, j) # KindIn(L, v, b)

\* Where an incarnation replaced another, and where the present one came or
\* went.
RebirthsIn(L, v) ==
    {i \in SightsIn(L, v) :
        \E k \in SightsIn(L, v) :
            /\ k < i /\ KindIn(L, v, k) # KindIn(L, v, i)
            /\ \A j \in SightsIn(L, v) : ~(k < j /\ j < i)}

TurnsIn(L, v, b) ==
    {i \in b + 1 .. Len(L) : SeenIn(L, v, i) # SeenIn(L, v, i - 1)}

\* What the baselines say of the lifecycle, and of the whole row.
LifeIn(L, v, b) ==
    IF \A i \in b .. Len(L) : SeenIn(L, v, i) THEN "active" ELSE "quarantined"

SlotIn(L, v, b, l) ==
    [type      |-> KindIn(L, v, b),
     gen       |-> 1 + Cardinality(RebirthsIn(L, v)),
     present   |-> SeenIn(L, v, Len(L)),
     lifecycle |-> LifeIn(L, v, b),
     rev       |-> 1 + Cardinality(TurnsIn(L, v, b)),
     node      |-> IF SeenIn(L, v, Len(L)) THEN L[Len(L)].guests[v].node
                   ELSE None,
     last      |-> IF SeenIn(L, v, Len(L)) THEN None
                   ELSE L[l].guests[v].node,
     since     |-> L[b].run]

\* The row s of locator v is what the baselines L say.
Traced(L, v, s) ==
    IF SightsIn(L, v) = {} THEN s = None
    ELSE \E b, l \in SightsIn(L, v) :
            BirthIn(L, v, b) /\ LastIn(L, v, l) /\ s = SlotIn(L, v, b, l)

\* M is L and one baseline more.
Longer(L, M, row) ==
    /\ L \in Seq(Baseline) /\ M \in Seq(Baseline) /\ row \in Baseline
    /\ Len(M) = Len(L) + 1 /\ M[Len(L) + 1] = row
    /\ DOMAIN L = 1 .. Len(L) /\ DOMAIN M = 1 .. Len(L) + 1
    /\ Len(L) \in Nat
    /\ \A i \in 1 .. Len(L) : M[i] = L[i]

\* A commit appends one baseline.
LEMMA AppendIsLonger ==
    ASSUME NEW L \in Seq(Baseline), NEW row \in Baseline
    PROVE  Longer(L, Append(L, row), row)
BY DEF Longer

\* An incarnation has one first baseline, and a locator one last sighting.
LEMMA BirthIsUnique ==
    ASSUME NEW L \in Seq(Baseline), NEW v \in Vmids,
           NEW b, NEW c, BirthIn(L, v, b), BirthIn(L, v, c)
    PROVE  b = c
<1>1. b \in Nat /\ c \in Nat
  BY DEF BirthIn, SightsIn
<1>2. ~(b < c)
  BY <1>1 DEF BirthIn
<1>3. ~(c < b)
  BY <1>1 DEF BirthIn
<1>4. QED
  BY <1>1, <1>2, <1>3

\* A locator has one last sighting.
LEMMA LastIsUnique ==
    ASSUME NEW L \in Seq(Baseline), NEW v \in Vmids,
           NEW l, NEW m, LastIn(L, v, l), LastIn(L, v, m)
    PROVE  l = m
<1>1. l \in Nat /\ m \in Nat
  BY DEF LastIn, SightsIn
<1>2. QED
  BY <1>1 DEF LastIn

\* The sets that are counted are finite.
LEMMA CountsAreFinite ==
    ASSUME NEW L \in Seq(Baseline), NEW v \in Vmids, NEW b \in Nat
    PROVE  /\ IsFiniteSet(RebirthsIn(L, v)) /\ Cardinality(RebirthsIn(L, v)) \in Nat
           /\ IsFiniteSet(TurnsIn(L, v, b)) /\ Cardinality(TurnsIn(L, v, b)) \in Nat
<1>1. IsFiniteSet(1 .. Len(L)) /\ IsFiniteSet(b + 1 .. Len(L))
  BY FS_Interval
<1>2. RebirthsIn(L, v) \subseteq 1 .. Len(L)
  BY DEF RebirthsIn, SightsIn
<1>3. TurnsIn(L, v, b) \subseteq b + 1 .. Len(L)
  BY DEF TurnsIn
<1>4. QED
  BY <1>1, <1>2, <1>3, FS_Subset, FS_CardinalityType

\* One baseline more adds its own sighting and leaves the others.
LEMMA SightsGrow ==
    ASSUME NEW L, NEW M, NEW row, Longer(L, M, row), NEW v \in Vmids
    PROVE  /\ SightsIn(M, v) = IF row.guests[v] # None
                               THEN SightsIn(L, v) \cup {Len(L) + 1}
                               ELSE SightsIn(L, v)
           /\ SightsIn(L, v) \subseteq 1 .. Len(L)
           /\ \A i \in 1 .. Len(L) : /\ SeenIn(M, v, i) = SeenIn(L, v, i)
                                     /\ KindIn(M, v, i) = KindIn(L, v, i)
           /\ SeenIn(M, v, Len(L) + 1) = (row.guests[v] # None)
           /\ KindIn(M, v, Len(L) + 1) = row.guests[v].type
<1> USE DEF Longer, SightsIn, SeenIn, KindIn
<1>1. \A i \in 1 .. Len(L) : M[i] = L[i]
  OBVIOUS
<1>2. CASE row.guests[v] # None
  BY <1>1, <1>2
<1>3. CASE row.guests[v] = None
  BY <1>1, <1>3
<1>4. QED
  BY <1>2, <1>3

\* One baseline more is a turn if it shows the guest and the one before did
\* not, or the other way about.
LEMMA TurnsGrow ==
    ASSUME NEW L, NEW M, NEW row, Longer(L, M, row), NEW v \in Vmids,
           NEW b \in 1 .. Len(L)
    PROVE  /\ SeenIn(L, v, Len(L)) = SeenIn(M, v, Len(L) + 1)
                => Cardinality(TurnsIn(M, v, b)) = Cardinality(TurnsIn(L, v, b))
           /\ SeenIn(L, v, Len(L)) # SeenIn(M, v, Len(L) + 1)
                => Cardinality(TurnsIn(M, v, b)) = Cardinality(TurnsIn(L, v, b)) + 1
           /\ Cardinality(TurnsIn(L, v, b)) \in Nat
<1> DEFINE e == Len(L)
<1>1. /\ e \in Nat /\ Len(M) = e + 1 /\ (e + 1) - 1 = e
      /\ \A i \in 1 .. e : M[i] = L[i]
  BY DEF Longer
<1>2. ASSUME NEW i \in b + 1 .. e
      PROVE  i \in 1 .. e /\ i - 1 \in 1 .. e /\ M[i] = L[i] /\ M[i - 1] = L[i - 1]
  BY <1>1
<1>3. TurnsIn(L, v, b) \subseteq TurnsIn(M, v, b)
  BY <1>1, <1>2 DEF TurnsIn, SeenIn
<1>4. TurnsIn(M, v, b) \subseteq TurnsIn(L, v, b) \cup {e + 1}
  <2> SUFFICES ASSUME NEW i \in TurnsIn(M, v, b), i # e + 1
               PROVE  i \in TurnsIn(L, v, b)
    OBVIOUS
  <2>1. i \in b + 1 .. e /\ SeenIn(M, v, i) # SeenIn(M, v, i - 1)
    BY <1>1 DEF TurnsIn
  <2>2. M[i] = L[i] /\ M[i - 1] = L[i - 1]
    BY <1>2, <2>1
  <2>3. QED
    BY <2>1, <2>2 DEF TurnsIn, SeenIn
<1>5. M[e] = L[e] /\ e + 1 \in b + 1 .. Len(M)
  BY <1>1
<1>6. e + 1 \in TurnsIn(M, v, b) <=> SeenIn(L, v, e) # SeenIn(M, v, e + 1)
  <2>1. /\ SeenIn(M, v, e) = SeenIn(L, v, e)
        /\ SeenIn(M, v, (e + 1) - 1) = SeenIn(M, v, e)
    BY <1>1, <1>5 DEF SeenIn
  <2>2. QED
    BY <1>5, <2>1 DEF TurnsIn
<1>7. e + 1 \notin TurnsIn(L, v, b)
  BY <1>1 DEF TurnsIn
<1>8. IsFiniteSet(TurnsIn(L, v, b)) /\ Cardinality(TurnsIn(L, v, b)) \in Nat
  BY CountsAreFinite DEF Longer
<1>9. CASE SeenIn(L, v, e) = SeenIn(M, v, e + 1)
  <2>1. TurnsIn(M, v, b) = TurnsIn(L, v, b)
    BY <1>3, <1>4, <1>6, <1>9
  <2>2. QED
    BY <1>8, <1>9, <2>1
<1>10. CASE SeenIn(L, v, e) # SeenIn(M, v, e + 1)
  <2>1. TurnsIn(M, v, b) = TurnsIn(L, v, b) \cup {e + 1}
    BY <1>3, <1>4, <1>6, <1>10
  <2>2. Cardinality(TurnsIn(M, v, b)) = Cardinality(TurnsIn(L, v, b)) + 1
    BY <1>7, <1>8, <2>1, FS_AddElement
  <2>3. QED
    BY <1>8, <1>10, <2>2
<1>11. QED
  BY <1>9, <1>10

\* One baseline more is a rebirth if it shows another type than the sighting
\* before it.
LEMMA RebirthsGrow ==
    ASSUME NEW L, NEW M, NEW row, Longer(L, M, row), NEW v \in Vmids,
           NEW l, LastIn(L, v, l)
    PROVE  /\ row.guests[v] = None \/ row.guests[v].type = KindIn(L, v, l)
                => Cardinality(RebirthsIn(M, v)) = Cardinality(RebirthsIn(L, v))
           /\ row.guests[v] # None /\ row.guests[v].type # KindIn(L, v, l)
                => Cardinality(RebirthsIn(M, v)) = Cardinality(RebirthsIn(L, v)) + 1
           /\ Cardinality(RebirthsIn(L, v)) \in Nat
<1> DEFINE e == Len(L)
<1>1. e \in Nat /\ SightsIn(L, v) \subseteq 1 .. e
  BY SightsGrow DEF Longer
<1>2. \A i \in SightsIn(L, v) : KindIn(M, v, i) = KindIn(L, v, i) /\ i < e + 1
  BY <1>1, SightsGrow
<1>3. IsFiniteSet(RebirthsIn(L, v)) /\ Cardinality(RebirthsIn(L, v)) \in Nat
  BY CountsAreFinite DEF Longer
<1>4. l \in SightsIn(L, v) /\ \A j \in SightsIn(L, v) : j <= l
  BY DEF LastIn
<1>5. CASE row.guests[v] = None
  <2>1. SightsIn(M, v) = SightsIn(L, v)
    BY <1>5, SightsGrow
  <2>2. RebirthsIn(M, v) = RebirthsIn(L, v)
    BY <1>2, <2>1 DEF RebirthsIn
  <2>3. QED
    BY <1>3, <1>5, <2>2
<1>6. CASE row.guests[v] # None
  <2>1. /\ SightsIn(M, v) = SightsIn(L, v) \cup {e + 1}
        /\ KindIn(M, v, e + 1) = row.guests[v].type
    BY <1>6, SightsGrow
  <2>2. e + 1 \notin RebirthsIn(L, v)
    BY <1>1 DEF RebirthsIn
  <2>3. \A i \in SightsIn(L, v) : i \in RebirthsIn(M, v) <=> i \in RebirthsIn(L, v)
    BY <1>1, <1>2, <2>1 DEF RebirthsIn
  <2>4. e + 1 \in RebirthsIn(M, v) <=> KindIn(L, v, l) # row.guests[v].type
    BY <1>1, <1>2, <1>4, <2>1 DEF RebirthsIn
  <2>5. /\ RebirthsIn(M, v) \subseteq SightsIn(L, v) \cup {e + 1}
        /\ RebirthsIn(L, v) \subseteq SightsIn(L, v)
    BY <2>1 DEF RebirthsIn
  <2>6. CASE KindIn(L, v, l) = row.guests[v].type
    <3>1. RebirthsIn(M, v) = RebirthsIn(L, v)
      BY <2>3, <2>4, <2>5, <2>6
    <3>2. QED
      BY <1>3, <2>6, <3>1
  <2>7. CASE KindIn(L, v, l) # row.guests[v].type
    <3>1. RebirthsIn(M, v) = RebirthsIn(L, v) \cup {e + 1}
      BY <2>3, <2>4, <2>5, <2>7
    <3>2. Cardinality(RebirthsIn(M, v)) = Cardinality(RebirthsIn(L, v)) + 1
      BY <1>3, <2>2, <3>1, FS_AddElement
    <3>3. QED
      BY <1>3, <1>6, <2>7, <3>2
  <2>8. QED
    BY <2>6, <2>7
<1>7. QED
  BY <1>5, <1>6

\* A sighting names a node.
LEMMA SightingHasNode ==
    ASSUME NEW L \in Seq(Baseline), NEW v \in Vmids, NEW l \in SightsIn(L, v)
    PROVE  L[l].guests[v] \in Guest /\ L[l].guests[v].node # None
<1>1. L[l] \in Baseline /\ L[l].guests[v] # None
  BY DEF SightsIn, SeenIn
<1>2. L[l].guests[v] \in Guest
  BY <1>1 DEF Baseline, Sights
<1>3. L[l].guests[v].node \in Nodes
  BY <1>2 DEF Guest
<1>4. QED
  BY <1>2, <1>3, NoneAssumption

\* The first sighting of a locator creates its row.
LEMMA FirstSighting ==
    ASSUME NEW L, NEW M, NEW row, Longer(L, M, row), NEW v \in Vmids,
           row.guests[v] # None, SightsIn(L, v) = {}
    PROVE  Traced(M, v, NewSlot(row.guests[v], 1, row.run))
<1> DEFINE e == Len(L) + 1
<1>1. SightsIn(M, v) = {e} /\ e \in Nat /\ Len(M) = e /\ M[e] = row
  BY SightsGrow DEF Longer
<1>2. BirthIn(M, v, e) /\ LastIn(M, v, e)
  BY <1>1 DEF BirthIn, LastIn
<1>3. RebirthsIn(M, v) = {} /\ TurnsIn(M, v, e) = {}
  BY <1>1 DEF RebirthsIn, TurnsIn
<1>4. /\ 1 + Cardinality(RebirthsIn(M, v)) = 1
      /\ 1 + Cardinality(TurnsIn(M, v, e)) = 1
  <2>1. Cardinality(RebirthsIn(M, v)) = 0 /\ Cardinality(TurnsIn(M, v, e)) = 0
    BY <1>3, FS_EmptySet
  <2>2. QED
    BY <2>1
<1>5. SeenIn(M, v, e) = TRUE /\ LifeIn(M, v, e) = "active"
  BY <1>1, SightsGrow DEF SeenIn, LifeIn
<1>6. NewSlot(row.guests[v], 1, row.run) = SlotIn(M, v, e, e)
  BY <1>1, <1>4, <1>5 DEF NewSlot, SlotIn, KindIn
<1>7. QED
  BY <1>1, <1>2, <1>6 DEF Traced

\* Two rows are the same when their columns are.
LEMMA SameColumns ==
    ASSUME NEW x \in Slots, NEW y \in Slots,
           x.type = y.type, x.gen = y.gen, x.present = y.present,
           x.lifecycle = y.lifecycle, x.rev = y.rev, x.node = y.node,
           x.last = y.last, x.since = y.since
    PROVE  x = y
BY DEF Slots

\* The columns of a row that a baseline misses, or shows again.
LEMMA GapColumns ==
    ASSUME NEW s \in Slots, s.present = TRUE, s.node # None
    PROVE  LET n == NotSeen(s)
           IN /\ n \in Slots
              /\ n.type = s.type /\ n.gen = s.gen /\ n.present = FALSE
              /\ n.lifecycle = "quarantined" /\ n.rev = s.rev + 1
              /\ n.node = None /\ n.last = s.node /\ n.since = s.since
<1>1. LastNode(s) = s.node /\ s.rev + 1 \in Nat
  BY DEF LastNode, Slots
<1>2. NotSeen(s) \in Slots
  BY <1>1 DEF NotSeen, Slots
<1>3. QED
  BY <1>1, <1>2 DEF NotSeen, Slots

\* A guest seen again keeps its incarnation.
LEMMA AgainColumns ==
    ASSUME NEW s \in Slots, NEW g \in Guest
    PROVE  LET n == SeenAgain(s, g)
           IN /\ n \in Slots
              /\ n.type = s.type /\ n.gen = s.gen /\ n.present = TRUE
              /\ s.present = TRUE => n.lifecycle = s.lifecycle /\ n.rev = s.rev
              /\ s.present = FALSE => /\ n.lifecycle = "quarantined"
                                      /\ n.rev = s.rev + 1
              /\ n.node = g.node /\ n.last = None /\ n.since = s.since
<1>1. s.rev + 1 \in Nat /\ g.node \in Nodes
  BY DEF Slots, Guest
<1>2. SeenAgain(s, g) \in Slots
  BY <1>1 DEF SeenAgain, Slots
<1>3. CASE s.present = TRUE
  BY <1>1, <1>2, <1>3 DEF SeenAgain, Slots
<1>4. CASE s.present = FALSE
  BY <1>1, <1>2, <1>4 DEF SeenAgain, Slots
<1>5. QED
  BY <1>3, <1>4 DEF Slots

\* What the history says of a locator is a row.
LEMMA SlotInType ==
    ASSUME NEW L \in Seq(Baseline), NEW v \in Vmids,
           NEW b \in SightsIn(L, v), NEW l \in SightsIn(L, v)
    PROVE  SlotIn(L, v, b, l) \in Slots
<1>1. b \in Nat /\ L[b] \in Baseline /\ Len(L) \in 1 .. Len(L)
  BY DEF SightsIn
<1>2. /\ 1 + Cardinality(RebirthsIn(L, v)) \in Nat
      /\ 1 + Cardinality(TurnsIn(L, v, b)) \in Nat
  <2>1. /\ Cardinality(RebirthsIn(L, v)) \in Nat
        /\ Cardinality(TurnsIn(L, v, b)) \in Nat
    BY <1>1, CountsAreFinite
  <2>2. QED
    BY <2>1
<1>3. KindIn(L, v, b) \in Types /\ L[l].guests[v].node \in Nodes
  BY SightingHasNode DEF KindIn, Guest
<1>4. SeenIn(L, v, Len(L)) => L[Len(L)].guests[v].node \in Nodes
  BY <1>1, SightingHasNode DEF SightsIn, Guest
<1>5. L[b].run \in Nat
  BY <1>1 DEF Baseline, Runs
<1>6. LifeIn(L, v, b) \in {"active", "quarantined"}
  BY DEF LifeIn
<1>7. SeenIn(L, v, Len(L)) \in BOOLEAN
  BY DEF SeenIn
<1>8. /\ (IF SeenIn(L, v, Len(L)) THEN L[Len(L)].guests[v].node ELSE None)
           \in Nodes \cup {None}
      /\ (IF SeenIn(L, v, Len(L)) THEN None ELSE L[l].guests[v].node)
           \in Nodes \cup {None}
  BY <1>3, <1>4
<1> DEFINE here == SeenIn(L, v, Len(L))
           node == IF here THEN L[Len(L)].guests[v].node ELSE None
           last == IF here THEN None ELSE L[l].guests[v].node
           gen  == 1 + Cardinality(RebirthsIn(L, v))
           rev  == 1 + Cardinality(TurnsIn(L, v, b))
<1>9. SlotIn(L, v, b, l) =
        [type |-> KindIn(L, v, b), gen |-> gen, present |-> here,
         lifecycle |-> LifeIn(L, v, b), rev |-> rev, node |-> node,
         last |-> last, since |-> L[b].run]
  BY Zenon DEF SlotIn
<1>10. gen \in Nat /\ here \in BOOLEAN /\ rev \in Nat
         /\ node \in Nodes \cup {None} /\ last \in Nodes \cup {None}
  BY <1>2, <1>7, <1>8
<1> HIDE DEF here, node, last, gen, rev
<1>11. QED
  BY <1>3, <1>5, <1>6, <1>9, <1>10 DEF Slots

\* A baseline that does not show the guest leaves the incarnation, and marks
\* and counts the gap once.
LEMMA MissedSighting ==
    ASSUME NEW L, NEW M, NEW row, Longer(L, M, row), NEW v \in Vmids,
           row.guests[v] = None, SightsIn(L, v) # {}, NEW s, Traced(L, v, s)
    PROVE  Traced(M, v, NotSeen(s))
<1> DEFINE e == Len(L)
<1>1. /\ SightsIn(M, v) = SightsIn(L, v) /\ SightsIn(L, v) \subseteq 1 .. e
      /\ e \in Nat /\ Len(M) = e + 1 /\ SeenIn(M, v, e + 1) = FALSE
  <2>1. SightsIn(M, v) = SightsIn(L, v) /\ SightsIn(L, v) \subseteq 1 .. e
    BY SightsGrow
  <2>2. e \in Nat /\ Len(M) = e + 1 /\ SeenIn(M, v, e + 1) = FALSE
    BY DEF Longer, SeenIn
  <2>3. QED
    BY <2>1, <2>2
<1>2. \A i \in 1 .. e : /\ SeenIn(M, v, i) = SeenIn(L, v, i)
                        /\ KindIn(M, v, i) = KindIn(L, v, i)
                        /\ M[i] = L[i]
  BY SightsGrow DEF Longer
<1>3. PICK b \in SightsIn(L, v), l \in SightsIn(L, v) :
          BirthIn(L, v, b) /\ LastIn(L, v, l) /\ s = SlotIn(L, v, b, l)
  BY DEF Traced
<1>4. b \in 1 .. e /\ l \in 1 .. e /\ e \in 1 .. e
  BY <1>1, <1>3
<1>5. BirthIn(M, v, b) /\ LastIn(M, v, l)
  BY <1>1, <1>2, <1>3 DEF BirthIn, LastIn
<1>6. Cardinality(RebirthsIn(M, v)) = Cardinality(RebirthsIn(L, v))
  BY <1>3, RebirthsGrow
<1>7. LifeIn(M, v, b) = "quarantined"
  BY <1>1, <1>4 DEF LifeIn
<1>8. M[b] = L[b] /\ M[l] = L[l] /\ KindIn(M, v, b) = KindIn(L, v, b)
  BY <1>2, <1>4
<1>9. CASE SeenIn(L, v, e)
  <2>1. SeenIn(L, v, e) = TRUE /\ l = e
    BY <1>1, <1>3, <1>4, <1>9 DEF LastIn, SightsIn, SeenIn, Longer
  <2>2. /\ Cardinality(TurnsIn(M, v, b)) = Cardinality(TurnsIn(L, v, b)) + 1
        /\ Cardinality(TurnsIn(L, v, b)) \in Nat
    BY <1>1, <1>4, <2>1, TurnsGrow
  <2>3. 1 + Cardinality(TurnsIn(M, v, b)) = (1 + Cardinality(TurnsIn(L, v, b))) + 1
    BY <2>2
  <2>4. L[l].guests[v].node # None
    BY <1>3, SightingHasNode DEF Longer
  <2>5. s.present = TRUE /\ s.node = L[l].guests[v].node
    BY <1>3, <2>1 DEF SlotIn
  <2>6. s \in Slots /\ SlotIn(M, v, b, l) \in Slots
    BY <1>1, <1>3, SlotInType DEF Longer
  <2>7. NotSeen(s) = SlotIn(M, v, b, l)
    <3> DEFINE n == NotSeen(s)
               m == SlotIn(M, v, b, l)
    <3>1. /\ n \in Slots
          /\ n.type = s.type /\ n.gen = s.gen /\ n.present = FALSE
          /\ n.lifecycle = "quarantined" /\ n.rev = s.rev + 1
          /\ n.node = None /\ n.last = s.node /\ n.since = s.since
      BY <2>4, <2>5, <2>6, GapColumns
    <3>2. SeenIn(M, v, Len(M)) = FALSE
      BY <1>1
    <3>3. /\ m.type = s.type /\ m.gen = s.gen /\ m.present = FALSE
          /\ m.lifecycle = "quarantined" /\ m.rev = s.rev + 1
          /\ m.node = None /\ m.last = s.node /\ m.since = s.since
      BY <1>3, <1>6, <1>7, <1>8, <2>3, <2>5, <3>2 DEF SlotIn
    <3> HIDE DEF n, m
    <3>4. QED
      BY <2>6, <3>1, <3>3, SameColumns DEF m, n
  <2>8. QED
    BY <1>1, <1>3, <1>5, <2>7 DEF Traced
<1>10. CASE ~SeenIn(L, v, e)
  <2>1. SeenIn(L, v, e) = FALSE
    BY <1>10 DEF SeenIn
  <2>2. Cardinality(TurnsIn(M, v, b)) = Cardinality(TurnsIn(L, v, b))
    <3>1. SeenIn(L, v, e) = SeenIn(M, v, e + 1)
      BY <1>1, <2>1
    <3>2. QED
      BY <1>4, <3>1, TurnsGrow
  <2>3. LifeIn(L, v, b) = "quarantined"
    BY <1>1, <1>4, <1>10 DEF LifeIn
  <2>4. s.present = FALSE /\ NotSeen(s) = s
    BY <1>3, <2>1 DEF SlotIn, NotSeen
  <2>5. s = SlotIn(M, v, b, l)
    BY <1>1, <1>3, <1>6, <1>7, <1>8, <2>1, <2>2, <2>3 DEF SlotIn
  <2>6. QED
    BY <1>1, <1>3, <1>5, <2>4, <2>5 DEF Traced
<1>11. QED
  BY <1>9, <1>10

\* A baseline that shows the same type again keeps the incarnation; after a
\* gap it stays quarantined, and the return is counted.
LEMMA SameSighting ==
    ASSUME NEW L, NEW M, NEW row, Longer(L, M, row), NEW v \in Vmids,
           row.guests[v] # None, SightsIn(L, v) # {}, NEW s, Traced(L, v, s),
           s.type = row.guests[v].type
    PROVE  Traced(M, v, SeenAgain(s, row.guests[v]))
<1> DEFINE e == Len(L)
<1>1. /\ SightsIn(M, v) = SightsIn(L, v) \cup {e + 1}
      /\ SightsIn(L, v) \subseteq 1 .. e
      /\ e \in Nat /\ Len(M) = e + 1 /\ M[e + 1] = row
      /\ SeenIn(M, v, e + 1) = TRUE
  <2>1. /\ SightsIn(M, v) = SightsIn(L, v) \cup {e + 1}
        /\ SightsIn(L, v) \subseteq 1 .. e
    BY SightsGrow
  <2>2. /\ e \in Nat /\ Len(M) = e + 1 /\ M[e + 1] = row
        /\ SeenIn(M, v, e + 1) = TRUE
    BY DEF Longer, SeenIn
  <2>3. QED
    BY <2>1, <2>2
<1>2. /\ \A i \in 1 .. e : /\ SeenIn(M, v, i) = SeenIn(L, v, i)
                           /\ KindIn(M, v, i) = KindIn(L, v, i)
                           /\ M[i] = L[i]
      /\ KindIn(M, v, e + 1) = row.guests[v].type
  BY SightsGrow DEF Longer
<1>3. PICK b \in SightsIn(L, v), l \in SightsIn(L, v) :
          BirthIn(L, v, b) /\ LastIn(L, v, l) /\ s = SlotIn(L, v, b, l)
  BY DEF Traced
<1>4. b \in 1 .. e /\ l \in 1 .. e /\ e \in 1 .. e /\ b <= l
  BY <1>1, <1>3 DEF LastIn
<1>5. row.guests[v].type = KindIn(L, v, b) /\ KindIn(L, v, l) = KindIn(L, v, b)
  BY <1>3, <1>4 DEF SlotIn, BirthIn
<1>6. BirthIn(M, v, b) /\ LastIn(M, v, e + 1)
  <2>1. LastIn(M, v, e + 1)
    BY <1>1 DEF LastIn
  <2>2. \A j \in SightsIn(L, v) : KindIn(M, v, j) = KindIn(L, v, j) /\ j \in 1 .. e
    BY <1>1, <1>2
  <2>3. BirthIn(M, v, b)
    BY <1>1, <1>2, <1>3, <1>4, <1>5, <2>2 DEF BirthIn
  <2>4. QED
    BY <2>1, <2>3
<1>7. Cardinality(RebirthsIn(M, v)) = Cardinality(RebirthsIn(L, v))
  BY <1>3, <1>5, RebirthsGrow
<1>8. M[b] = L[b] /\ KindIn(M, v, b) = KindIn(L, v, b) /\ SeenIn(M, v, Len(M)) = TRUE
  BY <1>1, <1>2, <1>4
<1>9. CASE SeenIn(L, v, e)
  <2>1. SeenIn(L, v, e) = TRUE /\ SeenIn(L, v, e) = SeenIn(M, v, e + 1)
    BY <1>1, <1>9 DEF SeenIn
  <2>2. Cardinality(TurnsIn(M, v, b)) = Cardinality(TurnsIn(L, v, b))
    BY <1>4, <2>1, TurnsGrow
  <2>3. (\A i \in b .. Len(M) : SeenIn(M, v, i)) <=> (\A i \in b .. Len(L) : SeenIn(L, v, i))
    BY <1>1, <1>2, <1>4
  <2>4. LifeIn(M, v, b) = LifeIn(L, v, b)
    BY <2>3 DEF LifeIn
  <2>5. s.present = TRUE
    BY <1>3, <2>1 DEF SlotIn
  <2>6. SeenAgain(s, row.guests[v]) = SlotIn(M, v, b, e + 1)
    <3> DEFINE n == SeenAgain(s, row.guests[v])
               m == SlotIn(M, v, b, e + 1)
    <3>1. s \in Slots /\ m \in Slots /\ row.guests[v] \in Guest
      BY <1>1, <1>3, SlotInType DEF Longer, Baseline, Sights
    <3>2. /\ n \in Slots
          /\ n.type = s.type /\ n.gen = s.gen /\ n.present = TRUE
          /\ n.node = row.guests[v].node /\ n.last = None /\ n.since = s.since
      BY <3>1, AgainColumns
    <3>3. n.lifecycle = s.lifecycle /\ n.rev = s.rev
      BY <2>5, <3>1, AgainColumns
    <3>4. /\ m.type = s.type /\ m.gen = s.gen /\ m.present = TRUE
          /\ m.node = row.guests[v].node /\ m.last = None /\ m.since = s.since
      BY <1>1, <1>3, <1>7, <1>8 DEF SlotIn
    <3>5. m.lifecycle = s.lifecycle /\ m.rev = s.rev
      BY <1>3, <2>2, <2>4 DEF SlotIn
    <3> HIDE DEF n, m
    <3>6. QED
      BY <3>1, <3>2, <3>3, <3>4, <3>5, SameColumns DEF n, m
  <2>7. QED
    BY <1>1, <1>3, <1>6, <2>6 DEF Traced
<1>10. CASE ~SeenIn(L, v, e)
  <2>1. SeenIn(L, v, e) = FALSE /\ SeenIn(L, v, e) # SeenIn(M, v, e + 1)
    BY <1>1, <1>10 DEF SeenIn
  <2>2. /\ Cardinality(TurnsIn(M, v, b)) = Cardinality(TurnsIn(L, v, b)) + 1
        /\ Cardinality(TurnsIn(L, v, b)) \in Nat
    BY <1>4, <2>1, TurnsGrow
  <2>3. 1 + Cardinality(TurnsIn(M, v, b)) = (1 + Cardinality(TurnsIn(L, v, b))) + 1
    BY <2>2
  <2>4. LifeIn(M, v, b) = "quarantined"
    BY <1>1, <1>2, <1>4, <1>10 DEF LifeIn
  <2>5. s.present = FALSE
    BY <1>3, <2>1 DEF SlotIn
  <2>6. SeenAgain(s, row.guests[v]) = SlotIn(M, v, b, e + 1)
    <3> DEFINE n == SeenAgain(s, row.guests[v])
               m == SlotIn(M, v, b, e + 1)
    <3>1. s \in Slots /\ m \in Slots /\ row.guests[v] \in Guest
      BY <1>1, <1>3, SlotInType DEF Longer, Baseline, Sights
    <3>2. /\ n \in Slots
          /\ n.type = s.type /\ n.gen = s.gen /\ n.present = TRUE
          /\ n.node = row.guests[v].node /\ n.last = None /\ n.since = s.since
      BY <3>1, AgainColumns
    <3>3. n.lifecycle = "quarantined" /\ n.rev = s.rev + 1
      BY <2>5, <3>1, AgainColumns
    <3>4. /\ m.type = s.type /\ m.gen = s.gen /\ m.present = TRUE
          /\ m.node = row.guests[v].node /\ m.last = None /\ m.since = s.since
      BY <1>1, <1>3, <1>7, <1>8 DEF SlotIn
    <3>5. m.lifecycle = "quarantined" /\ m.rev = s.rev + 1
      BY <1>3, <2>3, <2>4 DEF SlotIn
    <3> HIDE DEF n, m
    <3>6. QED
      BY ZenonT(60), <3>1, <3>2, <3>3, <3>4, <3>5, SameColumns DEF n, m
  <2>7. QED
    BY <1>1, <1>3, <1>6, <2>6 DEF Traced
<1>11. QED
  BY <1>9, <1>10

\* A baseline that shows another type starts the next incarnation.
LEMMA OtherSighting ==
    ASSUME NEW L, NEW M, NEW row, Longer(L, M, row), NEW v \in Vmids,
           row.guests[v] # None, SightsIn(L, v) # {}, NEW s, Traced(L, v, s),
           s.type # row.guests[v].type
    PROVE  Traced(M, v, NewSlot(row.guests[v], s.gen + 1, row.run))
<1> DEFINE e == Len(L) + 1
<1>1. /\ SightsIn(M, v) = SightsIn(L, v) \cup {e}
      /\ SightsIn(L, v) \subseteq 1 .. Len(L)
      /\ e \in Nat /\ Len(L) \in Nat /\ Len(M) = e /\ M[e] = row
  BY SightsGrow DEF Longer
<1>2. /\ \A i \in 1 .. Len(L) : KindIn(M, v, i) = KindIn(L, v, i)
      /\ KindIn(M, v, e) = row.guests[v].type
  BY SightsGrow
<1>3. PICK b \in SightsIn(L, v), l \in SightsIn(L, v) :
          BirthIn(L, v, b) /\ LastIn(L, v, l) /\ s = SlotIn(L, v, b, l)
  BY DEF Traced
<1>4. l \in 1 .. Len(L) /\ b \in 1 .. Len(L) /\ b <= l
  BY <1>1, <1>3 DEF LastIn
<1>5. row.guests[v].type # KindIn(L, v, l)
  BY <1>3, <1>4 DEF SlotIn, BirthIn
<1>6. BirthIn(M, v, e) /\ LastIn(M, v, e)
  <2>1. LastIn(M, v, e)
    BY <1>1 DEF LastIn
  <2>2. ASSUME NEW k \in SightsIn(M, v), k < e
        PROVE  l \in SightsIn(M, v) /\ l >= k /\ KindIn(M, v, l) # KindIn(M, v, e)
    BY <1>1, <1>2, <1>3, <1>4, <1>5, <2>2 DEF LastIn
  <2>3. BirthIn(M, v, e)
    BY <1>1, <2>2 DEF BirthIn
  <2>4. QED
    BY <2>1, <2>3
<1>7. 1 + Cardinality(RebirthsIn(M, v)) = s.gen + 1
  <2>1. /\ Cardinality(RebirthsIn(M, v)) = Cardinality(RebirthsIn(L, v)) + 1
        /\ Cardinality(RebirthsIn(L, v)) \in Nat
    BY <1>3, <1>5, RebirthsGrow
  <2>2. s.gen = 1 + Cardinality(RebirthsIn(L, v))
    BY <1>3 DEF SlotIn
  <2>3. QED
    BY <2>1, <2>2
<1>8. 1 + Cardinality(TurnsIn(M, v, e)) = 1
  <2>1. TurnsIn(M, v, e) = {}
    BY <1>1 DEF TurnsIn
  <2>2. Cardinality(TurnsIn(M, v, e)) = 0
    BY <2>1, FS_EmptySet
  <2>3. QED
    BY <2>2
<1>9. SeenIn(M, v, e) = TRUE /\ LifeIn(M, v, e) = "active"
  BY <1>1 DEF SeenIn, LifeIn
<1>10. NewSlot(row.guests[v], s.gen + 1, row.run) = SlotIn(M, v, e, e)
  BY <1>1, <1>7, <1>8, <1>9 DEF NewSlot, SlotIn, KindIn
<1>11. QED
  BY <1>1, <1>6, <1>10 DEF Traced

\* Reconciliation keeps a row what its history says, whatever the baseline
\* shows at its locator.
LEMMA RowFollows ==
    ASSUME TypeOK, NEW L, NEW M, NEW row, Longer(L, M, row), NEW v \in Vmids,
           Traced(L, v, slot[v])
    PROVE  Traced(M, v, ReconcileSlot(v, row.guests[v], row.run))
<1>1. slot[v] = None <=> SightsIn(L, v) = {}
  BY SlotInType, NoneAssumption DEF Traced, Longer
<1>2. CASE SightsIn(L, v) = {} /\ row.guests[v] = None
  <2>1. SightsIn(M, v) = {}
    BY <1>2, SightsGrow
  <2>2. QED
    BY <1>1, <1>2, <2>1 DEF ReconcileSlot, Replaced, Traced
<1>3. CASE SightsIn(L, v) = {} /\ row.guests[v] # None
  <2>1. ReconcileSlot(v, row.guests[v], row.run) = NewSlot(row.guests[v], 1, row.run)
    BY <1>1, <1>3 DEF ReconcileSlot, Replaced
  <2>2. QED
    BY <1>3, <2>1, FirstSighting
<1>4. CASE SightsIn(L, v) # {} /\ row.guests[v] = None
  <2>1. ReconcileSlot(v, row.guests[v], row.run) = NotSeen(slot[v])
    BY <1>1, <1>4 DEF ReconcileSlot, Replaced
  <2>2. QED
    BY <1>4, <2>1, MissedSighting
<1>5. CASE SightsIn(L, v) # {} /\ row.guests[v] # None
           /\ slot[v].type = row.guests[v].type
  <2>1. ReconcileSlot(v, row.guests[v], row.run) = SeenAgain(slot[v], row.guests[v])
    BY <1>1, <1>5 DEF ReconcileSlot, Replaced
  <2>2. QED
    BY <1>5, <2>1, SameSighting
<1>6. CASE SightsIn(L, v) # {} /\ row.guests[v] # None
           /\ slot[v].type # row.guests[v].type
  <2>1. ReconcileSlot(v, row.guests[v], row.run)
          = NewSlot(row.guests[v], slot[v].gen + 1, row.run)
    BY <1>1, <1>6 DEF ReconcileSlot, Replaced
  <2>2. QED
    BY <1>6, <2>1, OtherSighting
<1>7. QED
  BY <1>2, <1>3, <1>4, <1>5, <1>6

\* What the history says of a node.
NodeTraced(L, n, x) ==
    x = IF L = <<>> THEN "none"
        ELSE CASE L[Len(L)].nodes[n] = "online"  -> "available"
               [] L[Len(L)].nodes[n] = "offline" -> "unavailable"
               [] OTHER -> IF \E i \in DOMAIN L : L[i].nodes[n] # "gone"
                           THEN "unavailable" ELSE "none"

\* A node once listed is never forgotten.
LEMMA NodeFollows ==
    ASSUME NEW L, NEW M, NEW row, Longer(L, M, row), NEW n \in Nodes,
           NodeTraced(L, n, nodeRow[n])
    PROVE  NodeTraced(M, n, ReconcileNode(n, row.nodes[n]))
<1>1. /\ M # <<>> /\ M[Len(M)] = row /\ Len(L) \in Nat
      /\ DOMAIN L = 1 .. Len(L) /\ DOMAIN M = 1 .. Len(L) + 1
      /\ M[Len(L) + 1] = row /\ \A i \in 1 .. Len(L) : M[i] = L[i]
  BY DEF Longer
<1>2. row.nodes[n] \in NodeStates
  BY DEF Longer, Baseline
<1>3. CASE row.nodes[n] # "gone"
  BY <1>1, <1>2, <1>3 DEF NodeTraced, ReconcileNode, NodeStates
<1>4. CASE row.nodes[n] = "gone"
  <2>1. (\E i \in DOMAIN M : M[i].nodes[n] # "gone")
          <=> (\E i \in DOMAIN L : L[i].nodes[n] # "gone")
    BY <1>1, <1>4
  <2>2. nodeRow[n] # "none" <=> \E i \in DOMAIN L : L[i].nodes[n] # "gone"
    <3>1. CASE L = <<>>
      BY <3>1 DEF NodeTraced
    <3>2. CASE L # <<>>
      <4>1. Len(L) \in DOMAIN L /\ L[Len(L)].nodes[n] \in NodeStates
        <5>1. L \in Seq(Baseline) /\ L # <<>>
          BY <3>2 DEF Longer
        <5>2. Len(L) \in DOMAIN L /\ L[Len(L)] \in Baseline
          BY <5>1
        <5>3. QED
          BY <5>2 DEF Baseline
      <4>2. QED
        BY <3>2, <4>1 DEF NodeTraced, NodeStates
    <3>3. QED
      BY <3>1, <3>2
  <2>3. NodeTraced(M, n, IF nodeRow[n] = "none" THEN "none" ELSE "unavailable")
    BY <1>1, <1>4, <2>1, <2>2 DEF NodeTraced
  <2>4. QED
    BY <1>4, <2>3 DEF ReconcileNode
<1>5. QED
  BY <1>3, <1>4

\* The inventory as the operators above read it from the log.
HistoryInv ==
    /\ \A v \in Vmids : Traced(log, v, slot[v])
    /\ \A v \in Vmids : Len(retired[v]) = IF slot[v] = None THEN 0
                                          ELSE slot[v].gen - 1
    /\ \A v \in Vmids : PackageTarget(slot[v]) => <<v, slot[v].gen>> \in contracts
    /\ \A n \in Nodes : NodeTraced(log, n, nodeRow[n])

\* The log and the inventory are only written together.
LEMMA OnlyCommitsWrite ==
    ASSUME IInv, [Next]_vars
    PROVE  \/ UNCHANGED <<log, slot, retired, nodeRow, contracts>>
           \/ \E w \in Workers : mine[w] \in Runs /\ Commit(w)
<1> USE DEF config, sourceV, owner, healthV, stock, revs, work, world, history,
            counts
<1>1. CASE World
  BY <1>1 DEF World, Tick, SetBack, GuestChanges, NodeChanges, AclChanges,
     EditConfig
<1>2. CASE Startup
  BY <1>2
  DEF Startup, StartProcess, RecoverRun, CreateSource, RefuseDrift,
      RotateCredential, ConfigureFreshness, StartScheduler
<1>3. CASE \/ ProcessEnds \/ AskFreshness \/ RotateTransportTrust
           \/ MigrateCanonicalization
  BY <1>3 DEF ProcessEnds, AskFreshness, RotateTransportTrust,
     MigrateCanonicalization
<1>4. ASSUME NEW w \in Workers, Read(w) \/ ReadFails(w)
      PROVE  UNCHANGED <<log, slot, retired, nodeRow, contracts>>
  BY <1>4, ReadEffect DEF ReadLeaves, Got
<1>5. ASSUME NEW w \in Workers, FinalizeSuccess(w)
      PROVE  \/ UNCHANGED <<log, slot, retired, nodeRow, contracts>>
             \/ mine[w] \in Runs /\ Commit(w)
  BY <1>5, FinalizeEffect, BusyHasRun
<1>6. ASSUME NEW w \in Workers,
             \/ Issue(w) \/ IssueThenError(w) \/ Begin(w) \/ FinalizeFailed(w)
             \/ Abandon(w) \/ DbError(w)
      PROVE  UNCHANGED <<log, slot, retired, nodeRow, contracts>>
  BY <1>6 DEF Issue, IssueThenError, Begin, FinalizeFailed, Abandon, DbError
<1>7. CASE UNCHANGED vars
  BY <1>7 DEF vars
<1>8. QED
  BY <1>1, <1>2, <1>3, <1>4, <1>5, <1>6, <1>7 DEF Next, Cycle

\* A committed baseline extends the history and the inventory alike.
LEMMA HistoryStep == IInv /\ HistoryInv /\ [Next]_vars => HistoryInv'
<1> SUFFICES ASSUME IInv, HistoryInv, [Next]_vars PROVE HistoryInv'
  OBVIOUS
<1>1. CASE UNCHANGED <<log, slot, retired, nodeRow, contracts>>
  BY <1>1 DEF HistoryInv
<1>2. ASSUME NEW w \in Workers, mine[w] \in Runs, Commit(w) PROVE HistoryInv'
  <2> DEFINE row == [run |-> mine[w], at |-> rd[w].at, guests |-> rd[w].guests,
                     nodes |-> rd[w].nodes]
  <2>1. row \in Baseline
    BY <1>2, WorkTypes DEF Baseline, Reads
  <2>2. log \in Seq(Baseline) /\ log' = Append(log, row) /\ TypeOK
    BY <1>2 DEF IInv, ClockInv, Commit
  <2>3. Longer(log, log', row)
    BY <2>1, <2>2, AppendIsLonger
  <2>4. Reconcile(rd[w], mine[w])
    BY <1>2 DEF Commit
  <2>5. row.guests = rd[w].guests /\ row.nodes = rd[w].nodes /\ row.run = mine[w]
    OBVIOUS
  <2> HIDE DEF row
  <2>6. ASSUME NEW v \in Vmids PROVE Traced(log', v, slot'[v])
    <3>1. slot'[v] = ReconcileSlot(v, row.guests[v], row.run)
      BY <2>4, <2>5 DEF Reconcile
    <3>2. Traced(log, v, slot[v])
      BY DEF HistoryInv
    <3>3. QED
      BY <2>2, <2>3, <3>1, <3>2, RowFollows
  <2>7. ASSUME NEW n \in Nodes PROVE NodeTraced(log', n, nodeRow'[n])
    <3>1. nodeRow'[n] = ReconcileNode(n, row.nodes[n])
      BY <2>4, <2>5 DEF Reconcile
    <3>2. NodeTraced(log, n, nodeRow[n])
      BY DEF HistoryInv
    <3>3. QED
      BY <2>3, <3>1, <3>2, NodeFollows
  <2>8. ASSUME NEW v \in Vmids
        PROVE  Len(retired'[v]) = IF slot'[v] = None THEN 0 ELSE slot'[v].gen - 1
    <3> DEFINE g == rd[w].guests[v]
    <3>1. /\ slot'[v] = ReconcileSlot(v, g, mine[w])
          /\ retired'[v] = IF Replaced(v, g)
                           THEN Append(retired[v], [type |-> slot[v].type,
                                                    rev |-> slot[v].rev + 1,
                                                    last |-> LastNode(slot[v])])
                           ELSE retired[v]
      BY <2>4 DEF Reconcile
    <3>2. /\ g \in Guest \cup {None} /\ slot[v] \in Slots \cup {None}
          /\ \E S : retired[v] \in Seq(S)
          /\ Len(retired[v]) = IF slot[v] = None THEN 0 ELSE slot[v].gen - 1
      BY <2>2, WorkTypes DEF TypeOK, HistoryInv, Reads, Sights
    <3>3. slot'[v] \in Slots \cup {None}
      BY <1>2, <2>2, <3>1, <3>2, SlotType
    <3> HIDE DEF g
    <3>4. CASE Replaced(v, g)
      <4>1. slot'[v] = NewSlot(g, slot[v].gen + 1, mine[w]) /\ slot[v] # None
        BY <3>1, <3>4 DEF ReconcileSlot, Replaced
      <4>2. slot'[v].gen = slot[v].gen + 1 /\ slot[v].gen \in Nat
        BY <3>2, <4>1 DEF NewSlot, Slots
      <4>3. Len(retired'[v]) = Len(retired[v]) + 1
        BY <3>1, <3>2, <3>4
      <4>4. slot'[v] # None
        BY <1>2, <3>2, <3>4, <4>1, <4>2, RowTypes, NoneAssumption DEF Replaced
      <4>5. QED
        BY <3>2, <4>1, <4>2, <4>3, <4>4
    <3>5. CASE ~Replaced(v, g) /\ slot[v] = None
      <4>1. slot'[v] = None \/ slot'[v] = NewSlot(g, 1, mine[w])
        BY <3>1, <3>5 DEF ReconcileSlot
      <4>2. slot'[v] # None => slot'[v].gen = 1
        BY <4>1 DEF NewSlot
      <4>3. QED
        BY <3>1, <3>2, <3>5, <4>2
    <3>6. CASE ~Replaced(v, g) /\ slot[v] # None
      <4>1. \/ slot'[v] = NotSeen(slot[v])
            \/ g \in Guest /\ slot'[v] = SeenAgain(slot[v], g)
        BY <3>1, <3>2, <3>6 DEF ReconcileSlot
      <4>2. slot'[v].gen = slot[v].gen
        BY <3>2, <3>6, <4>1 DEF NotSeen, SeenAgain, Slots
      <4>3. slot'[v] # None
        BY <3>2, <3>6, <4>1, RowTypes, NoneAssumption
      <4>4. QED
        BY <3>1, <3>2, <3>6, <4>2, <4>3
    <3>7. QED
      BY <3>4, <3>5, <3>6
  <2>9. ASSUME NEW v \in Vmids, PackageTarget(slot'[v])
        PROVE  <<v, slot'[v].gen>> \in contracts'
    BY <2>4, <2>9 DEF Reconcile
  <2>10. QED
    BY <2>6, <2>7, <2>8, <2>9 DEF HistoryInv, PackageTarget
<1>3. QED
  BY <1>1, <1>2, OnlyCommitsWrite

\* The operators above read the log as the property does.
LEMMA HistoryReads ==
    ASSUME IInv, HistoryInv
    PROVE  InventoryIsItsHistory
<1>1. log \in Seq(Baseline)
  BY DEF IInv, ClockInv
<1>2. ASSUME NEW v \in Vmids
      PROVE  IF Sightings(v) = {} THEN slot[v] = None /\ retired[v] = <<>>
             ELSE /\ slot[v] = SlotOfHistory(v)
                  /\ Len(retired[v]) = slot[v].gen - 1
                  /\ PackageTarget(slot[v]) => <<v, slot[v].gen>> \in contracts
  <2>1. Sightings(v) = SightsIn(log, v) /\ Rebirths(v) = RebirthsIn(log, v)
    BY DEF Sightings, SightsIn, Sighted, SeenIn, Rebirths, RebirthsIn, KindAt,
       KindIn
  <2>2. CASE Sightings(v) = {}
    <3>1. slot[v] = None /\ Len(retired[v]) = 0
      BY <2>1, <2>2 DEF HistoryInv, Traced
    <3>2. QED
      BY <2>2, <3>1 DEF IInv, TypeOK
  <2>3. CASE Sightings(v) # {}
    <3>1. PICK b \in SightsIn(log, v), l \in SightsIn(log, v) :
              /\ BirthIn(log, v, b) /\ LastIn(log, v, l)
              /\ slot[v] = SlotIn(log, v, b, l)
      BY <2>1, <2>3 DEF HistoryInv, Traced
    <3>2. Birth(v) = b
      <4> DEFINE First(i) ==
            /\ \A j \in Sightings(v) : j >= i => KindAt(v, j) = KindAt(v, i)
            /\ \A k \in Sightings(v) :
                 k < i => \E j \in Sightings(v) : /\ j >= k
                                                  /\ KindAt(v, j) # KindAt(v, i)
      <4>1. \A i : BirthIn(log, v, i) <=> i \in Sightings(v) /\ First(i)
        BY <2>1 DEF BirthIn, KindAt, KindIn
      <4>2. Birth(v) = CHOOSE i \in Sightings(v) : First(i)
        BY DEF Birth
      <4> HIDE DEF First
      <4>3. Birth(v) \in Sightings(v) /\ First(Birth(v))
        BY <3>1, <4>1, <4>2
      <4>4. QED
        BY <1>1, <3>1, <4>1, <4>3, BirthIsUnique
    <3>3. LastSighting(v) = l
      <4>1. LastIn(log, v, LastSighting(v))
        BY <2>1, <3>1 DEF LastSighting, LastIn
      <4>2. QED
        BY <1>1, <3>1, <4>1, LastIsUnique
    <3>4. slot[v] = SlotOfHistory(v)
      BY <2>1, <3>1, <3>2, <3>3
      DEF SlotOfHistory, SlotIn, KindAt, KindIn, Sighted, SeenIn, LifeIn, TurnsIn
    <3>5. slot[v] # None
      BY <1>1, <3>1, SlotInType, NoneAssumption
    <3>6. QED
      BY <2>3, <3>4, <3>5 DEF HistoryInv
  <2>4. QED
    BY <2>2, <2>3
<1>3. ASSUME NEW n \in Nodes, log # <<>>
      PROVE  nodeRow[n] =
               CASE log[Len(log)].nodes[n] = "online"  -> "available"
                 [] log[Len(log)].nodes[n] = "offline" -> "unavailable"
                 [] OTHER -> IF \E i \in DOMAIN log : log[i].nodes[n] # "gone"
                             THEN "unavailable" ELSE "none"
  BY <1>3 DEF HistoryInv, NodeTraced
<1>4. QED
  BY <1>2, <1>3 DEF InventoryIsItsHistory

\* The inventory is what the committed baselines say: for every number of
\* baselines, guests and nodes, every gap is remembered and counted, every
\* change of type starts a new incarnation, and nothing else moves a row.
THEOREM HistoryHolds == Spec => []InventoryIsItsHistory
<1>1. Init => HistoryInv
  BY DEF Init, HistoryInv, Traced, SightsIn, PackageTarget, NodeTraced
<1>2. IInv /\ HistoryInv => InventoryIsItsHistory
  BY HistoryReads
<1>3. QED
  BY <1>1, <1>2, HistoryStep, Inductive, PTL DEF Spec

-----------------------------------------------------------------------------
(* The truth of a baseline, across one change of the permissions.          *)

\* What a worker holds of locator v agrees with the host.
Agrees(w, v) == SameGuest(rd[w].guests[v], guests[v])

\* The first of two lists shows the machines and no container.
HalfAgrees(w, v) ==
    IF guests[v] # None /\ guests[v].type = "qemu"
    THEN rd[w].guests[v] # None /\ rd[w].guests[v].type = "qemu"
    ELSE rd[w].guests[v] = None

\* A list that hid a guest was read under the permissions that hide it still,
\* and the second read of them will tell.
TruthInv ==
    /\ cuts \in Nat /\ (cuts = 0 => acl = "full")
    /\ cuts <= 1 => \A w \in Workers : \A v \in steady[w] :
         /\ pc[w] = "lxc" /\ Covers(acl) => HalfAgrees(w, v)
         /\ pc[w] \in {"topology2", "permissions2"} /\ Covers(acl) => Agrees(w, v)
         /\ pc[w] = "commit" => Agrees(w, v)

\* A step that leaves the host alone, and every list that was read.
ListsStand ==
    /\ UNCHANGED <<guests, acl, cuts>>
    /\ \A u \in Workers : pc'[u] \in GuestsRead =>
          pc'[u] = pc[u] /\ rd'[u].guests = rd[u].guests /\ steady'[u] = steady[u]

\* Such a step keeps what the lists say of the host.
LEMMA ListsStandKeeps == TruthInv /\ ListsStand => TruthInv'
BY DEF TruthInv, ListsStand, GuestsRead, Agrees, HalfAgrees, SameGuest, Covers

\* Only the four requests that read a list, or read the permissions again,
\* bring a worker to a list it holds.
LEMMA ListsStandElsewhere ==
    ASSUME IInv, [Next]_vars, ~(GuestChanges \/ AclChanges),
           \A w \in Workers : ~(\/ ReadGuests(w) \/ ReadQemu(w) \/ ReadLxc(w)
                                \/ RereadTopology(w) \/ RereadPermissions(w))
    PROVE  ListsStand
<1> USE DEF ListsStand, config, sourceV, owner, healthV, stock, revs, work, world,
            history, counts
<1>0. pc \in [Workers -> Steps] /\ rd \in [Workers -> Reads]
        /\ steady \in [Workers -> SUBSET Vmids]
  BY DEF IInv, TypeOK
<1>1. CASE World
  BY <1>1 DEF World, Tick, SetBack, NodeChanges, EditConfig
<1>2. CASE Startup
  BY <1>2
  DEF Startup, StartProcess, RecoverRun, CreateSource, RefuseDrift,
      RotateCredential, ConfigureFreshness, StartScheduler
<1>3. CASE AskFreshness \/ RotateTransportTrust \/ MigrateCanonicalization
  BY <1>3 DEF AskFreshness, RotateTransportTrust, MigrateCanonicalization
<1>4. CASE ProcessEnds
  <2>1. PICK L \in SUBSET {w \in Workers : Busy(w)} :
          /\ pc' = [w \in Workers |-> IF w \in L THEN pc[w] ELSE "idle"]
          /\ rd' = [w \in Workers |-> IF w \in L THEN rd[w] ELSE NoReads]
    BY <1>4 DEF ProcessEnds
  <2>2. QED
    BY <1>4, <2>1 DEF ProcessEnds, GuestsRead
<1>5. ASSUME NEW w \in Workers, Issue(w) PROVE ListsStand
  BY <1>0, <1>5 DEF Issue, GuestsRead
<1>6. ASSUME NEW w \in Workers, IssueThenError(w) \/ Begin(w) PROVE ListsStand
  BY <1>0, <1>6 DEF IssueThenError, Begin, GoesTo, GuestsRead
<1>7. ASSUME NEW w \in Workers,
             ReadTopology(w) \/ ReadStatus(w) \/ ReadPermissions(w)
      PROVE  ListsStand
  BY <1>0, <1>7 DEF ReadTopology, ReadStatus, ReadPermissions, Got, GuestsRead
<1>8. ASSUME NEW w \in Workers, ReadNodes(w) \/ ReadFails(w) PROVE ListsStand
  BY ZenonT(60), <1>0, <1>8 DEF ReadNodes, ReadFails, Refused, Got, GuestsRead
<1>9. ASSUME NEW w \in Workers,
             \/ FinalizeSuccess(w) \/ FinalizeFailed(w) \/ Abandon(w) \/ DbError(w)
      PROVE  ListsStand
  <2>1. /\ GoesTo(w, "abandon") \/ Returns(w)
        /\ UNCHANGED <<guests, acl, cuts, steady>>
    BY <1>9, FinalizeEffect DEF FinalizeFailed, Abandon, DbError
  <2>2. QED
    BY <1>0, <2>1 DEF GoesTo, Returns, GuestsRead
<1>10. CASE UNCHANGED vars
  BY <1>10 DEF vars
<1>11. QED
  BY <1>1, <1>2, <1>3, <1>4, <1>5, <1>6, <1>7, <1>8, <1>9, <1>10
  DEF Next, Cycle, Read

\* A list stays true of the guests that stay, or the permissions will tell.
LEMMA TruthStep == IInv /\ TruthInv /\ [Next]_vars => TruthInv'
<1> SUFFICES ASSUME IInv, TruthInv, [Next]_vars PROVE TruthInv'
  OBVIOUS
<1> USE DEF config, sourceV, owner, healthV, stock, revs, work, world, history,
            counts
<1>0. /\ pc \in [Workers -> Steps] /\ rd \in [Workers -> Reads]
      /\ steady \in [Workers -> SUBSET Vmids] /\ guests \in Sights /\ acl \in Acls
  BY DEF IInv, TypeOK
<1>1. CASE GuestChanges
  <2>1. PICK x \in Vmids, g \in Guest \cup {None} :
           /\ guests' = [guests EXCEPT ![x] = g]
           /\ steady' = [w \in Workers |->
                  IF SameGuest(g, guests[x]) THEN steady[w] ELSE steady[w] \ {x}]
    BY <1>1 DEF GuestChanges
  <2>2. ASSUME NEW w \in Workers, NEW v \in steady'[w]
        PROVE  v \in steady[w] /\ v \in Vmids /\ SameGuest(guests'[v], guests[v])
    BY <1>0, <2>1 DEF SameGuest, Sights
  <2>3. UNCHANGED <<pc, rd, acl, cuts>>
    BY <1>1 DEF GuestChanges
  <2>4. \A w \in Workers : \A v \in steady'[w] :
           /\ Agrees(w, v) => Agrees(w, v)'
           /\ HalfAgrees(w, v) => HalfAgrees(w, v)'
    BY <2>2, <2>3 DEF Agrees, HalfAgrees, SameGuest
  <2>5. QED
    BY <2>2, <2>3, <2>4 DEF TruthInv, Covers
<1>2. CASE AclChanges
  <2>1. cuts' = cuts + 1 /\ UNCHANGED <<pc, rd, guests, steady>>
    BY <1>2 DEF AclChanges
  <2>2. \A w \in Workers : \A v \in steady[w] :
           (Agrees(w, v)' <=> Agrees(w, v)) /\ (HalfAgrees(w, v)' <=> HalfAgrees(w, v))
    BY <2>1 DEF Agrees, HalfAgrees
  <2>3. cuts \in Nat /\ (cuts' <= 1 => cuts = 0 /\ acl = "full")
    BY <2>1 DEF TruthInv
  <2>4. QED
    BY <2>1, <2>2, <2>3 DEF TruthInv, Covers
<1>3. ASSUME NEW w \in Workers,
             \/ ReadGuests(w) \/ ReadQemu(w) \/ ReadLxc(w)
             \/ RereadTopology(w) \/ RereadPermissions(w)
      PROVE  TruthInv'
  <2>1. UNCHANGED <<guests, acl, cuts, steady>>
    BY <1>3 DEF ReadGuests, ReadQemu, ReadLxc, RereadTopology, RereadPermissions,
       Refused, Got
  <2>2. \A u \in Workers : u # w => pc'[u] = pc[u] /\ rd'[u] = rd[u]
    BY <1>0, <1>3 DEF ReadGuests, ReadQemu, ReadLxc, RereadTopology,
       RereadPermissions, Refused, Got
  <2> DEFINE Fine ==
        \A v \in steady[w] :
           /\ pc'[w] = "lxc" /\ Covers(acl) => HalfAgrees(w, v)'
           /\ pc'[w] \in {"topology2", "permissions2"} /\ Covers(acl)
                => Agrees(w, v)'
           /\ pc'[w] = "commit" => Agrees(w, v)'
  <2>3. (cuts <= 1 => Fine) => TruthInv'
    <3> SUFFICES ASSUME cuts <= 1 => Fine PROVE TruthInv'
      OBVIOUS
    <3>1. \A u \in Workers : u # w => \A v \in steady[u] :
             (Agrees(u, v)' <=> Agrees(u, v)) /\ (HalfAgrees(u, v)' <=> HalfAgrees(u, v))
      BY <2>1, <2>2 DEF Agrees, HalfAgrees
    <3>2. QED
      BY <2>1, <2>2, <3>1 DEF TruthInv, Covers
  <2>4. CASE ReadGuests(w)
    <3>1. PICK s \in Listed(Types) :
            Got(w, "topology2", [rd[w] EXCEPT !.guests = s, !.at = clock])
      BY <2>4 DEF ReadGuests
    <3>2. pc'[w] = "topology2" /\ rd'[w].guests = s
      BY <1>0, <3>1 DEF Got, Reads
    <3>3. Covers(acl) => s = guests
      BY <1>0, <3>1 DEF Listed, Sights, Guest
    <3>4. QED
      BY <2>1, <2>3, <3>2, <3>3 DEF Agrees, SameGuest
  <2>5. CASE ReadQemu(w)
    <3>1. PICK s \in Listed({"qemu"}) :
            Got(w, "lxc", [rd[w] EXCEPT !.guests = s, !.at = clock])
      BY <2>5 DEF ReadQemu
    <3>2. pc'[w] = "lxc" /\ rd'[w].guests = s
      BY <1>0, <3>1 DEF Got, Reads
    <3>3. Covers(acl) => \A v \in Vmids :
             IF guests[v] # None /\ guests[v].type = "qemu" THEN s[v] = guests[v]
             ELSE s[v] = None
      BY <1>0, <3>1 DEF Listed, Sights, Guest
    <3>4. QED
      BY <1>0, <2>1, <2>3, <3>2, <3>3 DEF HalfAgrees
  <2>6. CASE ReadLxc(w)
    <3>1. PICK s \in Listed({"lxc"}) :
            IF \E v \in Vmids : s[v] # None /\ rd[w].guests[v] # None
            THEN Refused(w, "invalid")
            ELSE Got(w, "topology2", [rd[w] EXCEPT !.guests =
                   [v \in Vmids |-> IF s[v] # None THEN s[v]
                                    ELSE rd[w].guests[v]]])
      BY <2>6 DEF ReadLxc
    <3>2. CASE \E v \in Vmids : s[v] # None /\ rd[w].guests[v] # None
      BY <1>0, <2>3, <3>1, <3>2 DEF Refused, Got
    <3>3. CASE ~\E v \in Vmids : s[v] # None /\ rd[w].guests[v] # None
      <4>1. /\ pc'[w] = "topology2" /\ pc[w] = "lxc"
            /\ rd'[w].guests = [v \in Vmids |-> IF s[v] # None THEN s[v]
                                                ELSE rd[w].guests[v]]
        BY <1>0, <2>6, <3>1, <3>3 DEF Got, Reads, ReadLxc
      <4>2. ASSUME cuts <= 1, Covers(acl), NEW v \in steady[w] PROVE Agrees(w, v)'
        <5>1. HalfAgrees(w, v) /\ v \in Vmids
          BY <1>0, <4>1, <4>2 DEF TruthInv
        <5>2. /\ rd'[w].guests[v] = IF s[v] # None THEN s[v] ELSE rd[w].guests[v]
              /\ guests[v] \in Guest \cup {None}
          BY <1>0, <4>1, <5>1 DEF Sights
        <5>3. IF guests[v] = None \/ guests[v].type # "lxc" THEN s[v] = None
              ELSE s[v] = guests[v]
          BY <3>1, <4>2, <5>1 DEF Listed
        <5>4. guests'[v] = guests[v]
          BY <2>1
        <5>5. guests[v] # None => guests[v].type \in {"lxc", "qemu"}
          BY <5>2 DEF Guest, Types
        <5>6. SameGuest(rd'[w].guests[v], guests[v])
          BY <5>1, <5>2, <5>3, <5>5 DEF HalfAgrees, SameGuest
        <5>7. QED
          BY <5>4, <5>6 DEF Agrees
      <4>3. QED
        BY <2>3, <4>1, <4>2
    <3>4. QED
      BY <3>2, <3>3
  <2>7. CASE RereadTopology(w)
    <3>1. pc[w] = "topology2" /\ pc'[w] = "permissions2"
            /\ rd'[w].guests = rd[w].guests
      BY <1>0, <2>7 DEF RereadTopology, Got, Reads
    <3>2. QED
      BY <2>1, <2>3, <3>1 DEF TruthInv, Agrees
  <2>8. CASE RereadPermissions(w)
    <3>1. pc[w] = "permissions2" /\ rd'[w].guests = rd[w].guests
      BY ZenonT(60), <1>0, <2>8 DEF RereadPermissions, Got, Reads
    <3>2. pc'[w] \in {"fail", "commit", "abandon"} /\ (pc'[w] = "commit" => Covers(acl))
      BY <1>0, <2>8 DEF RereadPermissions, Got, Boundary
    <3>3. QED
      BY <2>1, <2>3, <3>1, <3>2 DEF TruthInv, Agrees
  <2>9. QED
    BY <1>3, <2>4, <2>5, <2>6, <2>7, <2>8
<1>4. QED
  BY <1>1, <1>2, <1>3, ListsStandElsewhere, ListsStandKeeps

\* While the permissions changed at most once, a baseline about to be applied
\* is true of every guest that stayed what it was while it was read.
THEOREM BaselineIsTruthful == Spec => [](cuts <= 1 => CompleteIsTruthful)
<1>1. Init => TruthInv
  BY DEF Init, TruthInv
<1>2. IInv /\ TruthInv => (cuts <= 1 => CompleteIsTruthful)
  BY DEF TruthInv, CompleteIsTruthful, Agrees
<1>3. QED
  BY <1>1, <1>2, TruthStep, Inductive, PTL DEF Spec

-----------------------------------------------------------------------------
(* No run is stranded while the database does not fail.                    *)

\* Startup settles what the last process left before anything is issued.
StrandInv ==
    /\ dbErrors \in Nat
    /\ dbErrors = 0 =>
          /\ NoStrandedRun
          /\ proc = "starting" => active \in {0, seen}
          /\ proc = "recovered" => active = 0

\* A worker leaves its run only by releasing it.
LEMMA StrandStep == IInv /\ StrandInv /\ [Next]_vars => StrandInv'
<1> SUFFICES ASSUME IInv, StrandInv, [Next]_vars PROVE StrandInv'
  OBVIOUS
<1> USE DEF StrandInv, NoStrandedRun, Busy, config, sourceV, owner, healthV,
            stock, revs, work, world, history, counts
<1>0. pc \in [Workers -> Steps] /\ mine \in [Workers -> Nat]
  BY WorkTypes
<1>1. CASE World
  BY <1>1 DEF World, Tick, SetBack, GuestChanges, NodeChanges, AclChanges,
     EditConfig
<1>2. CASE StartProcess \/ CreateSource \/ RefuseDrift \/ StartScheduler
  BY <1>2 DEF StartProcess, CreateSource, RefuseDrift, StartScheduler, MayAdopt
<1>3. CASE RecoverRun
  BY <1>3 DEF RecoverRun, AbandonRun, OwnsSource, IInv, OwnerInv, OwnerIsLive
<1>4. CASE RotateCredential \/ ConfigureFreshness
  BY <1>4 DEF RotateCredential, ConfigureFreshness, MayAdopt, ContextTransition
<1>5. CASE \/ ProcessEnds \/ AskFreshness \/ RotateTransportTrust
           \/ MigrateCanonicalization
  BY <1>5 DEF ProcessEnds, AskFreshness, RotateTransportTrust,
     MigrateCanonicalization, ContextTransition
<1>6. ASSUME NEW w \in Workers, Issue(w) PROVE StrandInv'
  BY <1>0, <1>6 DEF Issue, MayIssue, Claim
<1>7. ASSUME NEW w \in Workers, IssueThenError(w) \/ DbError(w) PROVE StrandInv'
  BY <1>7 DEF IssueThenError, DbError
<1>8. ASSUME NEW w \in Workers, Begin(w) PROVE StrandInv'
  BY <1>0, <1>8 DEF Begin, GoesTo
<1>9. ASSUME NEW w \in Workers, Read(w) \/ ReadFails(w) PROVE StrandInv'
  <2>1. PICK step \in Steps, reads \in Reads : ReadLeaves(w, step, reads)
    BY <1>9, ReadEffect
  <2>2. QED
    BY <1>0, <2>1 DEF ReadLeaves, Got, Reading
<1>10. ASSUME NEW w \in Workers,
             FinalizeSuccess(w) \/ FinalizeFailed(w) \/ Abandon(w)
      PROVE  StrandInv'
  <2>1. /\ UNCHANGED <<proc, seen, dbErrors>>
        /\ \/ active' = 0
           \/ active' = active /\ GoesTo(w, "abandon")
           \/ active' = active /\ active # mine[w] /\ Returns(w)
    <3>1. CASE FinalizeSuccess(w)
      BY <3>1, FinalizeEffect DEF Commit, Release
    <3>2. CASE FinalizeFailed(w)
      BY <3>2, FailEffect DEF Release
    <3>3. CASE Abandon(w)
      <4>1. mine[w] # 0 /\ (active = mine[w] => OwnsSource(mine[w]))
        BY <3>3 DEF Abandon, OwnsSource, IInv, WorkInv, OwnerInv, OwnerIsLive
      <4>2. QED
        BY <3>3, <4>1 DEF Abandon, AbandonRun
    <3>4. QED
      BY <1>10, <3>1, <3>2, <3>3
  <2>2. QED
    BY <1>0, <2>1 DEF GoesTo, Returns
<1>11. CASE UNCHANGED vars
  BY <1>11 DEF vars
<1>12. QED
  BY <1>1, <1>2, <1>3, <1>4, <1>5, <1>6, <1>7, <1>8, <1>9, <1>10, <1>11
  DEF Next, Startup, Cycle

\* While no transaction failed in the database, an owned source of a running
\* process has a cycle at work on it, across crashes and lingering cycles.
THEOREM NothingStranded == Spec => [](dbErrors = 0 => NoStrandedRun)
<1>1. Init => StrandInv
  BY DEF Init, StrandInv, NoStrandedRun
<1>2. StrandInv => (dbErrors = 0 => NoStrandedRun)
  BY DEF StrandInv
<1>3. QED
  BY <1>1, <1>2, StrandStep, Inductive, PTL DEF Spec

=============================================================================
