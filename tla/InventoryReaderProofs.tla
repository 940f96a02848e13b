------------------------ MODULE InventoryReaderProofs ------------------------
(***************************************************************************)
(* Whatever discovery publishes, its reader accepts, for every number of   *)
(* workers, runs, guests, nodes, crashes, edits and skipped views.         *)
(***************************************************************************)
EXTENDS InventoryReader, DiscoveryProofs

\* The source's row: what its health, freshness and contexts say of its runs.
SourceInv ==
    /\ committed <= lastHealth /\ lastHealth <= latest
    /\ \A r \in Runs : life[r] = "success" => r <= committed
    /\ committed # 0 => life[committed] = "success"
    /\ committed # 0 <=> hctx # None
    /\ hctx # None => ValidContextStep(hctx, ctx)
    /\ origin = "initial" <=> fresh = "not_yet_observed"
    /\ origin = "initial" => health = "not_yet_observed" /\ lastHealth = 0
    /\ origin = "discovery_run" => lastHealth # 0
    /\ origin = "time_expiry" => /\ committed # 0 /\ fresh = "stale"
                                 /\ hctx = ctx /\ lastHealth = committed
    /\ origin = "controlled_context_transition" => fresh = "stale"

\* A node the inventory names has a row of its own.
Known(n) == n # None => nodeRow[n] # "none"

\* One locator: its generations are counted, its presence, trust and place
\* agree.
RowInv(v) ==
    /\ slot[v].gen = Len(retired[v]) + 1 /\ slot[v].rev > 0
    /\ slot[v].present => slot[v].last = None
    /\ ~slot[v].present => slot[v].node = None /\ slot[v].lifecycle = "quarantined"
    /\ Known(slot[v].node) /\ Known(slot[v].last)
    /\ \A g \in DOMAIN retired[v] :
         retired[v][g].rev > 0 /\ Known(retired[v][g].last)

\* The inventory is empty before the first baseline.
StockInv ==
    /\ pubRev > 0
    /\ committed = 0 => /\ \A v \in Vmids : slot[v] = None
                        /\ \A n \in Nodes : nodeRow[n] = "none"
    /\ \A v \in Vmids : IF slot[v] = None THEN retired[v] = <<>> ELSE RowInv(v)

\* An active locator was sighted, with its type, ever since it appeared.
TraceInv ==
    /\ \A i \in DOMAIN log : log[i].run <= committed
    /\ \A v \in Vmids : slot[v] # None =>
         /\ slot[v].since <= committed
         /\ slot[v].lifecycle = "active" =>
              \A i \in DOMAIN log : log[i].run >= slot[v].since =>
                  Sighted(v, i) /\ KindAt(v, i) = slot[v].type

\* A worker that has read the nodes.
NodesRead == {"guests", "qemu", "lxc", "topology2", "permissions2", "commit"}

\* The baseline a worker is about to commit lists the node of every guest.
ReadInv ==
    \A w \in Workers :
        /\ pc[w] \in NodesRead
             => rd[w].scope = {n \in Nodes : rd[w].nodes[n] # "gone"}
        /\ pc[w] = "commit" => Normalizes(w)

\* The numbers of a view.
Numbered(view) ==
    /\ view.inventoryRevision \in Nat /\ view.publishedRevision \in Nat
    /\ view.source # None => view.source \in SourceViews
    /\ \A id \in DOMAIN view.resources : view.resources[id].revision \in Nat

\* The view the reader holds is a valid one, what would be published now is a
\* valid successor of it, and no resource of it has appeared anew since.
HeldInv ==
    /\ ~refused
    /\ held # None =>
         /\ Numbered(held) /\ ValidSnapshot(held) /\ ValidTransition(held, View)
         /\ \A id \in DOMAIN held.resources :
              slot[id[1]].gen = id[2] => slot[id[1]].since <= held.source.committed

\* The inductive invariant.
ReaderInv ==
    IInv /\ SourceInv /\ StockInv /\ TraceInv /\ ReadInv /\ HeldInv

-----------------------------------------------------------------------------
(* What a step does to what is published.                                  *)

\* Nothing of the inventory is written.
StockStays == UNCHANGED <<slot, retired, nodeRow, log>>

\* Nothing is published.
Quiet ==
    /\ StockStays
    /\ UNCHANGED <<source, ctx, issued, committed, life, healthV, revs>>

\* The source is created.
Created ==
    /\ source = None /\ source' \in Configs
    /\ ctx' = [cfg |-> 1, trust |-> 1, canon |-> 1]
    /\ PublishStock /\ StockStays
    /\ UNCHANGED <<issued, committed, life, healthV>>

\* The context of the source moves on.
Moved ==
    /\ source \in Configs /\ source' \in Configs
    /\ ctx' \in Contexts /\ ValidContextStep(ctx, ctx')
    /\ fresh' = "stale" /\ origin' = "controlled_context_transition"
    /\ PublishOnly /\ StockStays
    /\ UNCHANGED <<issued, committed, life, health, ref, until, hctx,
                   lastHealth, latest>>

\* Run r, newer than every run that had a say, is claimed, begun or abandoned.
RunMoved(r) ==
    /\ source \in Configs /\ latest < r
    /\ \E s \in {"issued", "running", "abandoned"} : life' = [life EXCEPT ![r] = s]
    /\ issued' \in Nat /\ issued <= issued'
    /\ PublishOnly /\ StockStays
    /\ UNCHANGED <<source, ctx, committed, healthV>>

\* Run r, newer than every run that had a say, fails.
RunFailed(r) ==
    /\ source \in Configs /\ latest < r /\ r <= issued
    /\ \E s \in Failed : life' = [life EXCEPT ![r] = s] /\ health' = HealthOf(s)
    /\ fresh' = "stale" /\ origin' = "discovery_run"
    /\ lastHealth' = r /\ latest' = r
    /\ PublishOnly /\ StockStays
    /\ UNCHANGED <<source, ctx, issued, committed, ref, until, hctx>>

\* The baseline of worker w's run, newer than every run that had a say, is
\* applied.
Applied(w) ==
    /\ source \in Configs /\ mine[w] \in Runs
    /\ latest < mine[w] /\ mine[w] <= issued /\ pc[w] = "commit"
    /\ Commit(w) /\ UNCHANGED <<source, ctx>>

\* A due expiry is made durable.
Expired ==
    /\ fresh = "fresh" /\ fresh' = "stale" /\ origin' = "time_expiry"
    /\ PublishOnly /\ StockStays
    /\ UNCHANGED <<source, ctx, issued, committed, life, health, ref, until,
                   hctx, lastHealth, latest>>

\* Every step is one of these.
Effect ==
    \/ Quiet \/ Created \/ Moved \/ Expired
    \/ \E r \in Runs : RunMoved(r) \/ RunFailed(r)
    \/ \E w \in Workers : Applied(w)

\* Any transition counts the configuration up.
LEMMA ContextGrows ==
    ASSUME NEW c \in Contexts
    PROVE  /\ ValidContextStep(c, [c EXCEPT !.cfg = @ + 1])
           /\ ValidContextStep(c, [c EXCEPT !.cfg = @ + 1, !.trust = @ + 1])
           /\ ValidContextStep(c, [c EXCEPT !.cfg = @ + 1, !.canon = @ + 1])
BY DEF ValidContextStep, Contexts

\* A transition of the context.
LEMMA TransitionMoves ==
    ASSUME IInv, source \in Configs, NEW s \in Configs, NEW c \in Contexts,
           ValidContextStep(ctx, c), ContextTransition(s, c),
           UNCHANGED <<owner, stock, log>>
    PROVE  Moved
BY DEF ContextTransition, Moved, StockStays, owner, stock

\* Making a due expiry durable.
LEMMA ExpiryEffect ==
    ASSUME MaterializeExpiry,
           UNCHANGED <<sourceV, owner, stock, log>>
    PROVE  Quiet \/ Expired
BY DEF MaterializeExpiry, Due, Quiet, Expired, StockStays, sourceV, owner,
       stock, healthV, revs

\* The owner is newer than every run that had a say.
LEMMA OwnerIsNewest ==
    ASSUME IInv, active # 0
    PROVE  /\ active \in Runs /\ active <= issued /\ latest < active
           /\ source \in Configs
<1>1. active \in Runs /\ active = issued /\ latest < active /\ active \in Nat
  BY RunTypes DEF IInv, OwnerInv
<1>2. source \in Configs
  BY <1>1 DEF IInv, ContextInv, TypeOK
<1>3. QED
  BY <1>1, <1>2

\* Every step of discovery, and a poll.
LEMMA StepEffect ==
    ASSUME IInv, [Next]_vars \/ Poll
    PROVE  Effect
<1> IInv /\ TypeOK
  BY DEF IInv
<1> USE DEF config, sourceV, owner, stock, revs, work, world, history, counts
<1>1. CASE Tick \/ SetBack \/ AclChanges \/ NodeChanges \/ GuestChanges
             \/ EditConfig \/ StartProcess \/ RefuseDrift \/ StartScheduler
             \/ ProcessEnds
  <2>1. Quiet
    BY <1>1 DEF Tick, SetBack, AclChanges, NodeChanges, GuestChanges, EditConfig,
       StartProcess, RefuseDrift, StartScheduler, ProcessEnds, Quiet, StockStays
  <2>2. QED
    BY <2>1 DEF Effect
<1>2. CASE RecoverRun
  <2>1. CASE seen # 0 /\ OwnsSource(seen)
    <3>1. active = seen /\ active # 0
      BY <2>1 DEF OwnsSource
    <3>2. RunMoved(active)
      BY <1>2, <2>1, <3>1, OwnerIsNewest, RunTypes
      DEF RecoverRun, AbandonRun, RunMoved, StockStays
    <3>3. QED
      BY <3>1, <3>2, OwnerIsNewest DEF Effect
  <2>2. CASE ~(seen # 0 /\ OwnsSource(seen))
    <3>1. Quiet
      BY <1>2, <2>2 DEF RecoverRun, Quiet, StockStays
    <3>2. QED
      BY <3>1 DEF Effect
  <2>3. QED
    BY <2>1, <2>2
<1>3. CASE CreateSource
  <2>1. Created
    BY <1>3 DEF CreateSource, Created, StockStays, TypeOK
  <2>2. QED
    BY <2>1 DEF Effect
<1>4. CASE RotateCredential
  <2>1. source \in Configs /\ [source EXCEPT !.cred = loaded.cred] \in Configs
    BY <1>4 DEF RotateCredential, MayAdopt, TypeOK, Configs
  <2>2. ctx \in Contexts /\ [ctx EXCEPT !.cfg = @ + 1] \in Contexts
    BY ContextMoves DEF TypeOK
  <2>3. Moved
    BY <1>4, <2>1, <2>2, ContextGrows, TransitionMoves DEF RotateCredential
  <2>4. QED
    BY <2>3 DEF Effect
<1>5. CASE ConfigureFreshness
  <2>1. source \in Configs /\ [source EXCEPT !.dur = loaded.dur] \in Configs
    BY <1>5 DEF ConfigureFreshness, MayAdopt, TypeOK, Configs
  <2>2. ctx \in Contexts /\ [ctx EXCEPT !.cfg = @ + 1] \in Contexts
    BY ContextMoves DEF TypeOK
  <2>3. Moved
    BY <1>5, <2>1, <2>2, ContextGrows, TransitionMoves DEF ConfigureFreshness
  <2>4. QED
    BY <2>3 DEF Effect
<1>6. CASE RotateTransportTrust
  <2>1. source \in Configs /\ ctx \in Contexts
        /\ [ctx EXCEPT !.cfg = @ + 1, !.trust = @ + 1] \in Contexts
    BY <1>6, ContextMoves DEF RotateTransportTrust, TypeOK
  <2>2. Moved
    BY <1>6, <2>1, ContextGrows, TransitionMoves DEF RotateTransportTrust
  <2>3. QED
    BY <2>2 DEF Effect
<1>7. CASE MigrateCanonicalization
  <2>1. source \in Configs /\ ctx \in Contexts
        /\ [ctx EXCEPT !.cfg = @ + 1, !.canon = @ + 1] \in Contexts
    BY <1>7, ContextMoves DEF MigrateCanonicalization, TypeOK
  <2>2. Moved
    BY <1>7, <2>1, ContextGrows, TransitionMoves DEF MigrateCanonicalization
  <2>3. QED
    BY <2>2 DEF Effect
<1>8. CASE AskFreshness \/ Poll
  <2>1. Quiet \/ Expired
    BY <1>8, ExpiryEffect DEF AskFreshness, Poll
  <2>2. QED
    BY <2>1 DEF Effect
<1>9. ASSUME NEW w \in Workers, Issue(w) \/ IssueThenError(w) PROVE Effect
  <2>1. MayIssue(w) /\ Claim /\ StockStays /\ UNCHANGED <<source, ctx, healthV>>
    BY <1>9 DEF Issue, IssueThenError, StockStays
  <2>2. /\ issued + 1 \in Runs /\ issued + 1 \in Nat /\ latest < issued + 1
        /\ issued <= issued + 1 /\ source \in Configs
    BY <2>1, RunTypes, ClaimedRun DEF MayIssue, IInv, TypeOK, OwnerInv
  <2>3. RunMoved(issued + 1)
    BY <2>1, <2>2 DEF Claim, RunMoved
  <2>4. QED
    BY <2>2, <2>3 DEF Effect
<1>10. ASSUME NEW w \in Workers, Begin(w) PROVE Effect
  <2>1. CASE active = mine[w] /\ life[mine[w]] = "issued"
    <3>1. active # 0
      BY <1>10, <2>1, BusyHasRun, DiscoveryAssumption DEF Begin, Runs
    <3>2. RunMoved(active)
      BY <1>10, <2>1, <3>1, OwnerIsNewest, RunTypes DEF Begin, RunMoved, StockStays
    <3>3. QED
      BY <3>1, <3>2, OwnerIsNewest DEF Effect
  <2>2. CASE ~(active = mine[w] /\ life[mine[w]] = "issued")
    <3>1. Quiet
      BY <1>10, <2>2 DEF Begin, Quiet, StockStays
    <3>2. QED
      BY <3>1 DEF Effect
  <2>3. QED
    BY <2>1, <2>2
<1>11. ASSUME NEW w \in Workers, Read(w) \/ ReadFails(w) PROVE Effect
  <2>1. Quiet
    BY <1>11, ReadEffect DEF ReadLeaves, Got, Quiet, StockStays
  <2>2. QED
    BY <2>1 DEF Effect
<1>12. ASSUME NEW w \in Workers, FinalizeSuccess(w) PROVE Effect
  <2>1. CASE active = mine[w] /\ mine[w] # 0 /\ Commit(w)
    <3>1. pc[w] = "commit" /\ UNCHANGED <<source, ctx>>
      BY <1>12, FinalizeEffect
    <3>2. Applied(w)
      BY <2>1, <3>1, OwnerIsNewest DEF Applied
    <3>3. QED
      BY <3>2 DEF Effect
  <2>2. CASE UNCHANGED <<owner, healthV, stock, revs, log>>
    <3>1. Quiet
      BY <1>12, <2>2, FinalizeEffect DEF Quiet, StockStays
    <3>2. QED
      BY <3>1 DEF Effect
  <2>3. QED
    BY <1>12, <2>1, <2>2, FinalizeEffect
<1>13. ASSUME NEW w \in Workers, FinalizeFailed(w) PROVE Effect
  <2>1. CASE /\ active = mine[w] /\ mine[w] # 0
             /\ Release(mine[w], rd[w].outcome) /\ rd[w].outcome \in Failed
             /\ health' = HealthOf(rd[w].outcome) /\ fresh' = "stale"
             /\ origin' = "discovery_run" /\ lastHealth' = mine[w]
             /\ latest' = mine[w] /\ PublishOnly
             /\ UNCHANGED <<committed, ref, until, hctx>> /\ Returns(w)
    <3>1. UNCHANGED <<source, ctx, slot, retired, nodeRow, log>>
      BY <1>13, FailEffect
    <3>2. RunFailed(active)
      BY <2>1, <3>1, OwnerIsNewest DEF Release, RunFailed, StockStays
    <3>3. QED
      BY <2>1, <3>2, OwnerIsNewest DEF Effect
  <2>2. CASE UNCHANGED <<owner, healthV, revs>>
    <3>1. Quiet
      BY <1>13, <2>2, FailEffect DEF Quiet, StockStays
    <3>2. QED
      BY <3>1 DEF Effect
  <2>3. QED
    BY <1>13, <2>1, <2>2, FailEffect
<1>14. ASSUME NEW w \in Workers, Abandon(w) PROVE Effect
  <2>1. CASE OwnsSource(mine[w])
    <3>1. active = mine[w] /\ active # 0
      BY <1>14, <2>1, BusyHasRun, DiscoveryAssumption DEF Abandon, OwnsSource, Runs
    <3>2. RunMoved(active)
      BY <1>14, <2>1, <3>1, OwnerIsNewest, RunTypes
      DEF Abandon, AbandonRun, RunMoved, StockStays
    <3>3. QED
      BY <3>1, <3>2, OwnerIsNewest DEF Effect
  <2>2. CASE ~OwnsSource(mine[w])
    <3>1. Quiet
      BY <1>14, <2>2 DEF Abandon, Quiet, StockStays
    <3>2. QED
      BY <3>1 DEF Effect
  <2>3. QED
    BY <2>1, <2>2
<1>15. ASSUME NEW w \in Workers, DbError(w) PROVE Effect
  <2>1. Quiet
    BY <1>15 DEF DbError, Quiet, StockStays
  <2>2. QED
    BY <2>1 DEF Effect
<1>16. CASE UNCHANGED vars
  <2>1. Quiet
    BY <1>16 DEF vars, Quiet, StockStays
  <2>2. QED
    BY <2>1 DEF Effect
<1>17. QED
  BY <1>1, <1>2, <1>3, <1>4, <1>5, <1>6, <1>7, <1>8, <1>9, <1>10, <1>11,
     <1>12, <1>13, <1>14, <1>15, <1>16
  DEF Next, World, Startup, Cycle, Read

\* A poll keeps what discovery relies on: it only makes an expiry durable.
LEMMA PollKeeps == IInv /\ Poll => IInv'
<1> SUFFICES ASSUME IInv, Poll PROVE IInv'
  OBVIOUS
<1> USE DEF config, sourceV, owner, healthV, stock, revs, work, world, history,
            counts
<1>1. /\ UNCHANGED <<config, sourceV, owner, stock, work, clock, world, log,
                     granted, steady, counts>>
      /\ UNCHANGED <<health, ref, until, hctx, lastHealth, latest, invRev>>
      /\ \/ UNCHANGED <<fresh, origin, pubRev, expired>>
         \/ /\ fresh = "fresh" /\ fresh' = "stale" /\ origin' = "time_expiry"
            /\ pubRev' = pubRev + 1 /\ expired' = expired \cup {committed}
  BY DEF Poll, MaterializeExpiry, Due, PublishOnly
<1>2. TypeOK'
  <2>1. fresh = "fresh" => committed \in Runs
    BY RunTypes DEF IInv, FreshInv, FreshIsEarned, OwnerInv, Runs
  <2>2. /\ expired' \subseteq Runs /\ pubRev' \in Nat
        /\ fresh' \in {"not_yet_observed", "fresh", "stale"}
        /\ origin' \in {"initial", "discovery_run", "time_expiry",
                        "controlled_context_transition"}
    BY <1>1, <2>1 DEF IInv, TypeOK
  <2>3. TypeOK
    BY DEF IInv
  <2>4. QED
    BY ZenonT(60), <1>1, <2>2, <2>3 DEF TypeOK
<1>3. OwnerInv'
  BY <1>1 DEF IInv, OwnerInv, OwnerIsLive
<1>4. WorkInv'
  BY <1>1 DEF IInv, WorkInv
<1>5. ContextInv'
  BY <1>1 DEF IInv, ContextInv, OwnerIsCurrent, Busy
<1>6. HealthIsNewest'
  BY <1>1 DEF IInv, HealthIsNewest
<1>7. FreshInv'
  BY <1>1, RunTypes DEF IInv, FreshInv, FreshIsEarned
<1>8. ClockInv'
  BY <1>1 DEF IInv, ClockInv
<1>9. QED
  BY <1>2, <1>3, <1>4, <1>5, <1>6, <1>7, <1>8 DEF IInv

-----------------------------------------------------------------------------
(* The source's row.                                                       *)

\* The types of what is published of a source.
LEMMA SourceTypes ==
    ASSUME IInv
    PROVE  /\ ctx \in Contexts /\ hctx \in Contexts \cup {None}
           /\ None \notin Contexts /\ None \notin Configs
           /\ source \in Configs \cup {None}
           /\ origin \in {"initial", "discovery_run", "time_expiry",
                          "controlled_context_transition"}
           /\ fresh \in {"not_yet_observed", "fresh", "stale"}
           /\ invRev \in Nat /\ pubRev \in Nat
           /\ committed <= issued /\ latest <= issued
BY NoneAssumption, ReaderAssumption DEF IInv, TypeOK, OwnerInv

\* Every context a source had is before the ones after it.
LEMMA ContextsAreOrdered ==
    ASSUME NEW a \in Contexts, NEW b \in Contexts, NEW c \in Contexts,
           ValidContextStep(a, b), ValidContextStep(b, c)
    PROVE  ValidContextStep(a, c)
BY DEF ValidContextStep, Contexts

\* A source without a run that had a say has no committed context.
LEMMA NothingCommitted ==
    ASSUME IInv, SourceInv, source = None
    PROVE  issued = 0 /\ committed = 0 /\ hctx = None
BY RunTypes DEF IInv, ContextInv, OwnerInv, SourceInv

\* The row of a source stays consistent, whatever is published.
LEMMA SourceStep ==
    ASSUME IInv, SourceInv, Effect
    PROVE  SourceInv'
<1> USE DEF SourceInv, healthV
<1>1. CASE Quiet
  BY <1>1 DEF Quiet
<1>2. CASE Created
  BY <1>2, NothingCommitted DEF Created
<1>3. CASE Moved
  <2>1. hctx # None => ValidContextStep(hctx, ctx')
    BY <1>3, SourceTypes, ContextsAreOrdered DEF Moved
  <2>2. QED
    BY <1>3, <2>1 DEF Moved
<1>4. CASE Expired
  <2>1. committed # 0 /\ hctx = ctx /\ lastHealth = committed
    BY <1>4 DEF Expired, IInv, FreshInv, FreshIsEarned
  <2>2. QED
    BY <1>4, <2>1 DEF Expired
<1>5. ASSUME NEW r \in Runs, RunMoved(r) PROVE SourceInv'
  <2>1. PICK s \in {"issued", "running", "abandoned"} : life' = [life EXCEPT ![r] = s]
    BY <1>5 DEF RunMoved
  <2>2. r # committed /\ \A q \in Runs : life'[q] = "success" => life[q] = "success"
    BY <1>5, <2>1, RunTypes DEF RunMoved, Runs
  <2>3. life'[committed] = life[committed]
    BY <2>1, <2>2, RunTypes
  <2>4. QED
    BY <1>5, <2>2, <2>3 DEF RunMoved
<1>6. ASSUME NEW r \in Runs, RunFailed(r) PROVE SourceInv'
  <2>1. PICK s \in Failed : life' = [life EXCEPT ![r] = s]
    BY <1>6 DEF RunFailed
  <2>2. /\ r # committed /\ committed <= r /\ r # 0
        /\ \A q \in Runs : life'[q] = "success" => life[q] = "success"
    BY <1>6, <2>1, RunTypes DEF RunFailed, Runs, Failed
  <2>3. life'[committed] = life[committed]
    BY <2>1, <2>2, RunTypes
  <2>4. QED
    BY <1>6, <2>2, <2>3, RunTypes DEF RunFailed, Runs
<1>7. ASSUME NEW w \in Workers, Applied(w) PROVE SourceInv'
  <2> DEFINE r == mine[w]
  <2>1. /\ r \in Runs /\ r \in Nat /\ r # 0 /\ latest < r
        /\ committed' = r /\ lastHealth' = r /\ latest' = r
        /\ life' = [life EXCEPT ![r] = "success"]
        /\ hctx' = ctx /\ ctx' = ctx /\ health' = "healthy"
    BY <1>7 DEF Applied, Commit, Release, Runs
  <2>2. /\ fresh' = "fresh" => origin' = "discovery_run"
        /\ fresh' \in {"fresh", "stale"}
        /\ origin' \in {"discovery_run", "time_expiry"}
        /\ origin' = "time_expiry" => fresh' = "stale"
    <3>1. FreshnessReference(w) \in Int /\ source.dur \in Int /\ rd[w].stamp \in Int
      BY <1>7, DiscoveryAssumption DEF Applied, IInv, TypeOK, Reads, Configs, Times,
         FreshnessReference
    <3> DEFINE from == FreshnessReference(w)
               to   == from + source.dur
    <3>2. /\ fresh' = JudgeFresh(rd[w].stamp, from, to)
          /\ origin' = JudgeOrigin(rd[w].stamp, from, to)
      BY <1>7 DEF Applied, Commit
    <3>3. to \in Int
      BY <3>1
    <3> HIDE DEF from, to
    <3>4. QED
      BY <3>1, <3>2, <3>3 DEF JudgeFresh, JudgeOrigin, from
  <2> HIDE DEF r
  <2>3. life'[r] = "success" /\ \A q \in Runs : q # r => life'[q] = life[q]
    BY <2>1, RunTypes
  <2>4. \A q \in Runs : life'[q] = "success" => q <= r
    BY <2>1, <2>3, RunTypes DEF Runs
  <2>5. ValidContextStep(ctx, ctx) /\ ctx # None
    BY SourceTypes DEF ValidContextStep, Contexts
  <2>6. QED
    BY <2>1, <2>2, <2>3, <2>4, <2>5
<1>8. QED
  BY <1>1, <1>2, <1>3, <1>4, <1>5, <1>6, <1>7 DEF Effect

-----------------------------------------------------------------------------
(* The baseline a worker holds.                                            *)

\* Every request, and every end of a cycle, keeps the baseline consistent.
LEMMA ReadStep ==
    ASSUME IInv, ReadInv, [Next]_vars \/ Poll
    PROVE  ReadInv'
<1> DEFINE Keeps(u) ==
             /\ pc'[u] \in NodesRead
                  => rd'[u].scope = {n \in Nodes : rd'[u].nodes[n] # "gone"}
             /\ pc'[u] = "commit"
                  => \A v \in Vmids : rd'[u].guests[v] # None
                                        => rd'[u].guests[v].node \in rd'[u].scope
<1> SUFFICES ASSUME NEW u \in Workers PROVE Keeps(u)
  BY DEF ReadInv, Normalizes
<1> USE DEF config, sourceV, owner, healthV, stock, revs, work, world, history,
            counts
<1>0. /\ pc[u] \in NodesRead
           => rd[u].scope = {n \in Nodes : rd[u].nodes[n] # "gone"}
      /\ pc[u] = "commit"
           => \A v \in Vmids : rd[u].guests[v] # None
                                 => rd[u].guests[v].node \in rd[u].scope
  BY DEF ReadInv, Normalizes
<1>1. ASSUME \/ pc'[u] = pc[u] /\ rd'[u] = rd[u]
             \/ pc'[u] \notin NodesRead
      PROVE  Keeps(u)
  BY <1>0, <1>1 DEF NodesRead
<1>2. CASE \/ World \/ Startup \/ AskFreshness \/ RotateTransportTrust
           \/ MigrateCanonicalization \/ UNCHANGED vars \/ Poll
  <2>1. UNCHANGED <<pc, rd>>
    BY <1>2 DEF World, Tick, SetBack, GuestChanges, NodeChanges, AclChanges,
       EditConfig, Startup, StartProcess, RecoverRun, CreateSource, RefuseDrift,
       RotateCredential, ConfigureFreshness, StartScheduler, AskFreshness,
       RotateTransportTrust, MigrateCanonicalization, vars, Poll
  <2>2. QED
    BY <1>1, <2>1
<1>3. CASE ProcessEnds
  <2>1. \/ pc'[u] = pc[u] /\ rd'[u] = rd[u]
        \/ pc'[u] \notin NodesRead
    BY <1>3 DEF ProcessEnds, NodesRead
  <2>2. QED
    BY <1>1, <2>1
<1>4. ASSUME NEW w \in Workers,
             \/ Issue(w) \/ IssueThenError(w) \/ Begin(w) \/ FinalizeSuccess(w)
             \/ FinalizeFailed(w) \/ Abandon(w) \/ DbError(w)
      PROVE  Keeps(u)
  <2>1. \/ UNCHANGED <<pc, rd>>
        \/ \E step \in {"begin", "topology", "idle", "abandon"} :
             /\ pc' = [pc EXCEPT ![w] = step]
             /\ \E reads : rd' = [rd EXCEPT ![w] = reads] \/ UNCHANGED rd
    BY <1>4, FinalizeEffect
    DEF Issue, IssueThenError, Begin, FinalizeFailed, Abandon, DbError,
        GoesTo, Returns
  <2>2. \/ pc'[u] = pc[u] /\ rd'[u] = rd[u]
        \/ pc'[u] \notin NodesRead
    BY <2>1, WorkTypes DEF NodesRead
  <2>3. QED
    BY <1>1, <2>2
<1>5. ASSUME NEW w \in Workers, Read(w) \/ ReadFails(w), u # w PROVE Keeps(u)
  <2>1. pc'[u] = pc[u] /\ rd'[u] = rd[u]
    BY <1>5, ReadEffect, WorkTypes DEF ReadLeaves, Got
  <2>2. QED
    BY <1>1, <2>1
<1>6. ASSUME Read(u) \/ ReadFails(u) PROVE Keeps(u)
  <2>0. rd[u] \in Reads /\ clock \in Times /\ nodes \in [Nodes -> NodeStates]
    BY DEF IInv, TypeOK
  <2>1. ASSUME NEW step, NEW reads, Got(u, step, reads)
        PROVE  pc'[u] = step /\ rd'[u] = reads
    BY <2>1, WorkTypes DEF Got
  <2>2. CASE ReadFails(u)
    <3>1. pc'[u] = "fail"
      BY <2>1, <2>2 DEF ReadFails, Refused
    <3>2. QED
      BY <1>1, <3>1 DEF NodesRead
  <2>3. CASE ReadTopology(u) \/ ReadStatus(u) \/ ReadPermissions(u)
    <3>1. pc'[u] \in {"status", "permissions", "nodes"}
      BY <2>1, <2>3 DEF ReadTopology, ReadStatus, ReadPermissions
    <3>2. QED
      BY <1>1, <3>1 DEF NodesRead
  <2>4. CASE ReadNodes(u)
    <3>1. CASE {n \in Nodes : nodes[n] # "gone"} = rd[u].scope
      <4> DEFINE reads == [rd[u] EXCEPT !.nodes = nodes]
      <4>1. rd'[u] = reads /\ pc'[u] \in {"qemu", "guests"}
        BY <2>1, <2>4, <3>1 DEF ReadNodes
      <4>2. reads.scope = rd[u].scope /\ reads.nodes = nodes
        BY <2>0 DEF Reads
      <4>3. QED
        BY <3>1, <4>1, <4>2
    <3>2. CASE {n \in Nodes : nodes[n] # "gone"} # rd[u].scope
      <4>1. pc'[u] = "fail"
        BY <2>1, <2>4, <3>2 DEF ReadNodes, Refused
      <4>2. QED
        BY <1>1, <4>1 DEF NodesRead
    <3>3. QED
      BY <3>1, <3>2
  <2>5. CASE ReadGuests(u) \/ ReadQemu(u)
    <3>1. PICK s \in Sights, step \in {"topology2", "lxc"} :
              Got(u, step, [rd[u] EXCEPT !.guests = s, !.at = clock])
      BY <2>5 DEF ReadGuests, ReadQemu, Listed, Sights
    <3> DEFINE reads == [rd[u] EXCEPT !.guests = s, !.at = clock]
    <3>2. rd'[u] = reads /\ pc'[u] = step
      BY <2>1, <3>1
    <3>3. reads.scope = rd[u].scope /\ reads.nodes = rd[u].nodes
      BY <2>0 DEF Reads
    <3>4. pc[u] \in NodesRead
      BY <2>5 DEF ReadGuests, ReadQemu, NodesRead
    <3> HIDE DEF reads
    <3>5. QED
      BY <1>0, <3>2, <3>3, <3>4
  <2>6. CASE ReadLxc(u)
    <3>1. PICK s :
            IF \E v \in Vmids : s[v] # None /\ rd[u].guests[v] # None
            THEN Refused(u, "invalid")
            ELSE Got(u, "topology2", [rd[u] EXCEPT !.guests =
                   [v \in Vmids |-> IF s[v] # None THEN s[v]
                                    ELSE rd[u].guests[v]]])
      BY <2>6 DEF ReadLxc
    <3>2. CASE \E v \in Vmids : s[v] # None /\ rd[u].guests[v] # None
      <4>1. pc'[u] = "fail"
        BY <2>1, <3>1, <3>2 DEF Refused
      <4>2. QED
        BY <1>1, <4>1 DEF NodesRead
    <3>3. CASE ~\E v \in Vmids : s[v] # None /\ rd[u].guests[v] # None
      <4> DEFINE merged == [v \in Vmids |-> IF s[v] # None THEN s[v]
                                            ELSE rd[u].guests[v]]
      <4>1. Got(u, "topology2", [rd[u] EXCEPT !.guests = merged])
        BY <3>1, <3>3
      <4> HIDE DEF merged
      <4> DEFINE reads == [rd[u] EXCEPT !.guests = merged]
      <4>2. rd'[u] = reads /\ pc'[u] = "topology2"
        BY <2>1, <4>1
      <4>3. reads.scope = rd[u].scope /\ reads.nodes = rd[u].nodes
        BY <2>0 DEF Reads
      <4>4. pc[u] \in NodesRead
        BY <2>6 DEF ReadLxc, NodesRead
      <4> HIDE DEF reads
      <4>5. QED
        BY <1>0, <4>2, <4>3, <4>4
    <3>4. QED
      BY <3>2, <3>3
  <2>7. CASE RereadTopology(u)
    <3>1. PICK reads \in {rd[u], [rd[u] EXCEPT !.outcome = "invalid"]} :
              Got(u, "permissions2", reads)
      BY <2>7 DEF RereadTopology
    <3>2. rd'[u] = reads /\ pc'[u] = "permissions2"
      BY <2>1, <3>1
    <3>3. reads.scope = rd[u].scope /\ reads.nodes = rd[u].nodes
      BY <2>0 DEF Reads
    <3>4. pc[u] \in NodesRead
      BY <2>7 DEF RereadTopology, NodesRead
    <3>5. QED
      BY <1>0, <3>2, <3>3, <3>4
  <2>8. CASE RereadPermissions(u)
    <3> DEFINE result == [rd[u] EXCEPT !.outcome = Boundary(u), !.stamp = clock]
    <3>1. /\ result.scope = rd[u].scope /\ result.nodes = rd[u].nodes
          /\ result.guests = rd[u].guests
      BY <2>0 DEF Reads
    <3>2. \/ Got(u, "fail", result) \/ Got(u, "abandon", rd[u])
          \/ Got(u, "commit", result) /\ Normalizes(u)
      BY <2>8 DEF RereadPermissions
    <3> HIDE DEF result
    <3>3. \/ pc'[u] \in {"fail", "abandon"}
          \/ pc'[u] = "commit" /\ rd'[u] = result /\ Normalizes(u)
      BY <2>1, <3>2
    <3>4. pc[u] \in NodesRead
      BY <2>8 DEF RereadPermissions, NodesRead
    <3>5. CASE pc'[u] \in {"fail", "abandon"}
      BY <1>1, <3>5 DEF NodesRead
    <3>6. CASE pc'[u] = "commit" /\ rd'[u] = result /\ Normalizes(u)
      BY <1>0, <3>1, <3>4, <3>6 DEF Normalizes
    <3>7. QED
      BY <3>3, <3>5, <3>6
  <2>9. QED
    BY <1>6, <2>2, <2>3, <2>4, <2>5, <2>6, <2>7, <2>8 DEF Read
<1>7. QED
  BY <1>2, <1>3, <1>4, <1>5, <1>6 DEF Next, Cycle

-----------------------------------------------------------------------------
(* The inventory, one locator at a time.                                   *)

\* A retired incarnation.
RetiredRow == [type : Types, rev : Nat, last : Nodes \cup {None}]

\* A new incarnation of locator v.
RowNew(v, g, r) ==
    /\ slot'[v] \in Slots /\ g \in Guest
    /\ slot'[v].type = g.type /\ slot'[v].gen = Len(retired'[v]) + 1
    /\ slot'[v].present /\ slot'[v].lifecycle = "active" /\ slot'[v].rev = 1
    /\ slot'[v].node = g.node /\ slot'[v].last = None /\ slot'[v].since = r

\* The first of them.
RowFirst(v, g, r) ==
    slot[v] = None /\ retired'[v] = retired[v] /\ RowNew(v, g, r)

\* One that takes the place of another.
RowReplaced(v, g, r) ==
    /\ slot[v] \in Slots /\ RowNew(v, g, r)
    /\ Len(retired'[v]) = Len(retired[v]) + 1
    /\ \A i \in 1 .. Len(retired[v]) : retired'[v][i] = retired[v][i]
    /\ LET t == retired'[v][Len(retired[v]) + 1]
       IN /\ t.type = slot[v].type /\ t.rev = slot[v].rev + 1
          /\ t.last = LastNode(slot[v])

\* The same incarnation, not seen.
RowMissed(v) ==
    /\ slot[v] \in Slots /\ slot'[v] \in Slots /\ retired'[v] = retired[v]
    /\ slot'[v].type = slot[v].type /\ slot'[v].gen = slot[v].gen
    /\ slot'[v].since = slot[v].since
    /\ IF slot[v].present
       THEN /\ ~slot'[v].present /\ slot'[v].lifecycle = "quarantined"
            /\ slot'[v].rev = slot[v].rev + 1
            /\ slot'[v].node = None /\ slot'[v].last = LastNode(slot[v])
       ELSE slot'[v] = slot[v]

\* The same incarnation, seen.
RowSeen(v, g) ==
    /\ slot[v] \in Slots /\ slot'[v] \in Slots /\ retired'[v] = retired[v]
    /\ g \in Guest /\ slot[v].type = g.type
    /\ slot'[v].type = slot[v].type /\ slot'[v].gen = slot[v].gen
    /\ slot'[v].since = slot[v].since
    /\ slot'[v].present /\ slot'[v].node = g.node /\ slot'[v].last = None
    /\ IF slot[v].present
       THEN slot'[v].lifecycle = slot[v].lifecycle /\ slot'[v].rev = slot[v].rev
       ELSE slot'[v].lifecycle = "quarantined" /\ slot'[v].rev = slot[v].rev + 1

\* What a baseline does to the rows of locator v.
RowEffect(v, g, r) ==
    \/ slot[v] = None /\ slot'[v] = None /\ retired'[v] = retired[v] /\ g = None
    \/ RowFirst(v, g, r) \/ RowReplaced(v, g, r)
    \/ RowMissed(v) /\ g = None
    \/ RowSeen(v, g)

\* Applying a baseline does one of these to every locator.
LEMMA RowStep ==
    ASSUME IInv, StockInv, NEW w \in Workers, Applied(w), NEW v \in Vmids
    PROVE  RowEffect(v, rd[w].guests[v], mine[w])
<1> DEFINE g == rd[w].guests[v]
           r == mine[w]
           Row == [type : Types, rev : Nat, last : Nodes \cup {None}]
<1>1. /\ slot'[v] = ReconcileSlot(v, g, r)
      /\ retired'[v] = IF Replaced(v, g)
                       THEN Append(retired[v], [type |-> slot[v].type,
                                                rev |-> slot[v].rev + 1,
                                                last |-> LastNode(slot[v])])
                       ELSE retired[v]
  BY DEF Applied, Commit, Reconcile
<1>2. /\ g \in Guest \cup {None} /\ slot[v] \in Slots \cup {None}
      /\ retired[v] \in Seq(Row) /\ r \in Runs
  <2>1. g \in Guest \cup {None}
    BY WorkTypes DEF Reads, Sights
  <2>2. slot[v] \in Slots \cup {None} /\ retired[v] \in Seq(Row)
    BY DEF IInv, TypeOK
  <2>3. QED
    BY <2>1, <2>2 DEF Applied
<1>3. /\ slot[v] = None => retired[v] = <<>>
      /\ slot[v] # None => slot[v].gen = Len(retired[v]) + 1
  BY DEF StockInv, RowInv
<1> HIDE DEF g, r
<1>4. CASE slot[v] = None /\ g = None
  BY <1>1, <1>4 DEF ReconcileSlot, Replaced, RowEffect, g
<1>5. ASSUME g # None, NEW gen \in Nat, slot'[v] = NewSlot(g, gen, r),
             gen = Len(retired'[v]) + 1
      PROVE  RowNew(v, g, r)
  <2>1. g \in Guest /\ slot'[v] \in Slots
    BY <1>2, <1>5, RowTypes
  <2>2. QED
    BY <1>5, <2>1 DEF RowNew, NewSlot
<1>6. CASE slot[v] = None /\ g # None
  <2>1. slot'[v] = NewSlot(g, 1, r) /\ retired'[v] = retired[v]
    BY <1>1, <1>6 DEF ReconcileSlot, Replaced
  <2>2. Len(retired'[v]) = 0
    BY <1>3, <1>6, <2>1
  <2>3. RowNew(v, g, r)
    BY <1>5, <1>6, <2>1, <2>2
  <2>4. QED
    BY <1>6, <2>1, <2>3 DEF RowEffect, RowFirst, g, r
<1>7. CASE Replaced(v, g)
  <2> DEFINE t == [type |-> slot[v].type, rev |-> slot[v].rev + 1,
                   last |-> LastNode(slot[v])]
  <2>1. slot[v] \in Slots /\ g # None
    BY <1>2, <1>7 DEF Replaced
  <2>2. /\ slot'[v] = NewSlot(g, slot[v].gen + 1, r)
        /\ retired'[v] = Append(retired[v], t)
    BY <1>1, <1>7 DEF ReconcileSlot, Replaced
  <2>3. /\ t.type = slot[v].type /\ t.rev = slot[v].rev + 1
        /\ t.last = LastNode(slot[v]) /\ t \in Row
    BY <2>1 DEF Slots, LastNode
  <2> HIDE DEF t, Row
  <2>4. /\ Len(retired'[v]) = Len(retired[v]) + 1
        /\ \A i \in 1 .. Len(retired[v]) : retired'[v][i] = retired[v][i]
        /\ retired'[v][Len(retired[v]) + 1] = t
    BY <1>2, <2>2, <2>3
  <2>5. slot[v].gen + 1 \in Nat /\ slot[v].gen + 1 = Len(retired'[v]) + 1
    BY <1>2, <1>3, <1>7, <2>1, <2>4 DEF Slots, Replaced
  <2>6. RowNew(v, g, r)
    BY <1>5, <2>1, <2>2, <2>5
  <2>7. QED
    BY <2>1, <2>3, <2>4, <2>6 DEF RowEffect, RowReplaced, g, r
<1>8. CASE slot[v] # None /\ g = None
  <2>1. slot'[v] = NotSeen(slot[v]) /\ slot[v] \in Slots /\ retired'[v] = retired[v]
    BY <1>1, <1>2, <1>8 DEF ReconcileSlot, Replaced
  <2>2. slot'[v] \in Slots
    BY <2>1, RowTypes
  <2>3. RowMissed(v)
    BY <2>1, <2>2 DEF RowMissed, NotSeen, Slots
  <2>4. QED
    BY <1>8, <2>3 DEF RowEffect, g
<1>9. CASE slot[v] # None /\ g # None /\ ~Replaced(v, g)
  <2>1. /\ slot'[v] = SeenAgain(slot[v], g) /\ slot[v] \in Slots /\ g \in Guest
        /\ retired'[v] = retired[v] /\ slot[v].type = g.type
    BY <1>1, <1>2, <1>9 DEF ReconcileSlot, Replaced
  <2>2. slot'[v] \in Slots
    BY <2>1, RowTypes
  <2>3. RowSeen(v, g)
    BY <2>1, <2>2 DEF RowSeen, SeenAgain, Slots
  <2>4. QED
    BY <2>3 DEF RowEffect, g
<1>10. QED
  BY <1>4, <1>6, <1>7, <1>8, <1>9 DEF Replaced

\* A node that has a row keeps it, and one that is listed gets it.
LEMMA NodeStep ==
    ASSUME IInv, NEW w \in Workers, Applied(w), NEW n \in Nodes
    PROVE  /\ nodeRow[n] # "none" => nodeRow'[n] # "none"
           /\ rd[w].nodes[n] # "gone" => nodeRow'[n] # "none"
<1>1. nodeRow'[n] = ReconcileNode(n, rd[w].nodes[n])
  BY DEF Applied, Commit, Reconcile
<1>2. rd[w].nodes[n] \in NodeStates
  BY WorkTypes DEF Reads
<1>3. QED
  BY <1>1, <1>2 DEF ReconcileNode, NodeStates

\* The revisions only count up.
LEMMA StepPublishes ==
    ASSUME IInv, Effect
    PROVE  /\ pubRev' \in Nat /\ invRev' \in Nat
           /\ pubRev' >= pubRev /\ invRev' >= invRev
           /\ pubRev' = pubRev => Quiet
<1>1. \A w \in Workers : Applied(w) => PublishStock
  BY DEF Applied, Commit
<1>2. Quiet \/ PublishOnly \/ PublishStock
  BY <1>1 DEF Effect, Created, Moved, Expired, RunMoved, RunFailed
<1>3. QED
  BY <1>2, SourceTypes DEF Quiet, PublishOnly, PublishStock, revs

\* The incarnations of a locator that were retired.
LEMMA RetiredRows ==
    ASSUME IInv, NEW v \in Vmids
    PROVE  /\ retired[v] \in Seq(RetiredRow) /\ Len(retired[v]) \in Nat
           /\ DOMAIN retired[v] = 1 .. Len(retired[v])
           /\ \A i \in DOMAIN retired[v] :
                /\ retired[v][i].type \in Types /\ retired[v][i].rev \in Nat
                /\ retired[v][i].last \in Nodes \cup {None}
<1>1. retired[v] \in Seq(RetiredRow)
  BY DEF IInv, TypeOK, RetiredRow
<1>2. \A i \in DOMAIN retired[v] : retired[v][i] \in RetiredRow
  BY <1>1
<1>3. QED
  BY <1>1, <1>2 DEF RetiredRow

\* They stay so when a baseline is applied.
LEMMA RetiredNext ==
    ASSUME IInv, NEW w \in Workers, Applied(w), NEW v \in Vmids
    PROVE  retired'[v] \in Seq(RetiredRow)
<1>1. TypeOK /\ mine[w] \in Runs /\ Reconcile(rd[w], mine[w])
  BY DEF IInv, Applied, Commit
<1>2. QED
  BY <1>1, StockType DEF RetiredRow

\* The inventory stays well formed: every node it names has a row.
LEMMA StockStep ==
    ASSUME IInv, StockInv, ReadInv, Effect
    PROVE  StockInv'
<1>1. CASE StockStays /\ committed' = committed
  <2>1. pubRev' > 0
    BY SourceTypes, StepPublishes DEF StockInv
  <2>2. QED
    BY <1>1, <2>1 DEF StockInv, StockStays, RowInv, Known
<1>2. ASSUME NEW w \in Workers, Applied(w) PROVE StockInv'
  <2>1. pubRev' > 0 /\ committed' # 0
    BY <1>2, SourceTypes DEF StockInv, Applied, Commit, PublishStock, Runs
  <2>2. ASSUME NEW v \in Vmids
        PROVE  IF slot'[v] = None THEN retired'[v] = <<>> ELSE RowInv(v)'
    <3> DEFINE g == rd[w].guests[v]
               KnownNext(n) == n # None => nodeRow'[n] # "none"
    <3>1. RowEffect(v, g, mine[w])
      BY <1>2, RowStep
    <3>2. g \in Guest => KnownNext(g.node)
      <4>1. SUFFICES ASSUME g \in Guest PROVE nodeRow'[g.node] # "none"
        OBVIOUS
      <4>2. g # None /\ g.node \in Nodes
        BY <4>1, NoneAssumption DEF Guest
      <4>3. g.node \in rd[w].scope
        BY <1>2, <4>2 DEF Applied, ReadInv, Normalizes
      <4>4. rd[w].nodes[g.node] # "gone"
        BY <1>2, <4>3 DEF Applied, ReadInv, NodesRead
      <4>5. QED
        BY <1>2, <4>2, <4>4, NodeStep
    <3>3. ASSUME NEW n \in Nodes \cup {None}, Known(n) PROVE KnownNext(n)
      BY <1>2, <3>3, NodeStep DEF Known
    <3> HIDE DEF g
    <3>4. /\ retired[v] \in Seq(RetiredRow) /\ Len(retired[v]) \in Nat
          /\ DOMAIN retired[v] = 1 .. Len(retired[v])
          /\ \A i \in DOMAIN retired[v] : retired[v][i].last \in Nodes \cup {None}
      BY RetiredRows
    <3>5. CASE slot[v] = None /\ slot'[v] = None /\ retired'[v] = retired[v]
      BY <3>5 DEF StockInv
    <3>6. CASE RowFirst(v, g, mine[w])
      <4>1. retired'[v] = <<>>
        BY <3>6 DEF RowFirst, StockInv
      <4>2. QED
        BY <3>2, <3>6, <4>1 DEF RowFirst, RowNew, RowInv, Known
    <3>7. CASE RowReplaced(v, g, mine[w])
      <4> DEFINE L == Len(retired[v])
                 t == retired'[v][L + 1]
      <4>1. slot[v] # None /\ RowInv(v) /\ slot[v] \in Slots
        BY <3>7, NoneAssumption DEF RowReplaced, StockInv
      <4>2. KnownNext(LastNode(slot[v])) /\ slot[v].rev + 1 > 0
        BY <3>3, <4>1 DEF RowInv, LastNode, Slots
      <4>3. t.rev > 0 /\ KnownNext(t.last)
        BY <3>7, <4>2 DEF RowReplaced
      <4>4. ASSUME NEW i \in 1 .. L
            PROVE  retired'[v][i].rev > 0 /\ KnownNext(retired'[v][i].last)
        <5>1. i \in DOMAIN retired[v] /\ retired'[v][i] = retired[v][i]
          BY <3>4, <3>7 DEF RowReplaced
        <5>2. retired[v][i].last \in Nodes \cup {None}
          BY <3>4, <5>1
        <5>3. retired[v][i].rev > 0 /\ Known(retired[v][i].last)
          BY <4>1, <5>1 DEF RowInv
        <5>4. QED
          BY <3>3, <5>1, <5>2, <5>3
      <4>5. DOMAIN retired'[v] = 1 .. L + 1 /\ L \in Nat
        BY <1>2, <3>4, <3>7, RetiredNext DEF RowReplaced
      <4>6. \A i \in DOMAIN retired'[v] :
               retired'[v][i].rev > 0 /\ KnownNext(retired'[v][i].last)
        <5> HIDE DEF KnownNext
        <5> SUFFICES ASSUME NEW i \in 1 .. L + 1
                     PROVE  retired'[v][i].rev > 0 /\ KnownNext(retired'[v][i].last)
          BY <4>5
        <5>1. i = L + 1 \/ i \in 1 .. L
          BY <4>5
        <5>2. QED
          BY <4>3, <4>4, <5>1
      <4>7. QED
        BY <3>2, <3>7, <4>6, NoneAssumption DEF RowReplaced, RowNew, RowInv, Known
    <3>8. CASE RowMissed(v)
      <4>1. slot[v] # None /\ RowInv(v) /\ slot[v] \in Slots
        BY <3>8, NoneAssumption DEF RowMissed, StockInv
      <4>2. KnownNext(LastNode(slot[v])) /\ slot[v].rev + 1 > 0
            /\ KnownNext(slot[v].last)
        BY <3>3, <4>1 DEF RowInv, LastNode, Slots
      <4>3. \A i \in DOMAIN retired[v] :
               retired[v][i].rev > 0 /\ KnownNext(retired[v][i].last)
        BY <3>3, <3>4, <4>1 DEF RowInv
      <4>4. QED
        BY <3>8, <4>1, <4>2, <4>3, NoneAssumption DEF RowMissed, RowInv, Known
    <3>9. CASE RowSeen(v, g)
      <4>1. slot[v] # None /\ RowInv(v) /\ slot[v] \in Slots
        BY <3>9, NoneAssumption DEF RowSeen, StockInv
      <4>2. slot[v].rev + 1 > 0
        BY <4>1 DEF RowInv, Slots
      <4>3. \A i \in DOMAIN retired[v] :
               retired[v][i].rev > 0 /\ KnownNext(retired[v][i].last)
        BY <3>3, <3>4, <4>1 DEF RowInv
      <4>4. QED
        BY <3>2, <3>9, <4>1, <4>2, <4>3, NoneAssumption DEF RowSeen, RowInv, Known
    <3>10. QED
      BY <3>1, <3>5, <3>6, <3>7, <3>8, <3>9 DEF RowEffect
  <2>3. QED
    BY <2>1, <2>2 DEF StockInv
<1>3. QED
  BY <1>1, <1>2
  DEF Effect, Quiet, Created, Moved, Expired, RunMoved, RunFailed, StockStays

\* An incarnation that is active has been sighted, with its type, in every
\* baseline since it appeared.
LEMMA TraceStep ==
    ASSUME IInv, SourceInv, StockInv, TraceInv, Effect
    PROVE  TraceInv'
<1>1. CASE StockStays /\ committed' = committed
  BY <1>1 DEF TraceInv, StockStays, Sighted, KindAt
<1>2. ASSUME NEW w \in Workers, Applied(w) PROVE TraceInv'
  <2> DEFINE r   == mine[w]
             row == [run |-> r, at |-> rd[w].at, guests |-> rd[w].guests,
                     nodes |-> rd[w].nodes]
             L   == Len(log)
  <2>1. row \in Baseline /\ row.run = r /\ row.guests = rd[w].guests
    BY <1>2, WorkTypes DEF Applied, Baseline, Reads
  <2>2. log \in Seq(Baseline) /\ log' = Append(log, row) /\ committed' = r
    BY <1>2 DEF IInv, ClockInv, Applied, Commit
  <2> HIDE DEF row
  <2>3. /\ DOMAIN log = 1 .. L /\ L \in Nat /\ DOMAIN log' = 1 .. L + 1
        /\ \A i \in 1 .. L : log'[i] = log[i]
        /\ log'[L + 1] = row
    BY <2>1, <2>2
  <2>4. r \in Nat /\ committed \in Nat /\ committed < r
    BY <1>2, RunTypes DEF Applied, SourceInv, Runs
  <2>5. \A i \in 1 .. L : log[i].run \in Nat /\ log[i].run <= committed
    <3>1. \A i \in 1 .. L : log[i] \in Baseline
      BY <2>2, <2>3
    <3>2. \A i \in 1 .. L : log[i].run \in Nat
      BY <3>1 DEF Baseline, Runs
    <3>3. QED
      BY <2>3, <3>2 DEF TraceInv
  <2> HIDE DEF r, L
  <2>6. \A i \in DOMAIN log' : log'[i].run <= committed'
    <3> SUFFICES ASSUME NEW i \in 1 .. L + 1 PROVE log'[i].run <= r
      BY <2>2, <2>3
    <3>1. CASE i = L + 1
      BY <2>1, <2>3, <2>4, <3>1
    <3>2. CASE i \in 1 .. L
      BY <2>3, <2>4, <2>5, <3>2
    <3>3. QED
      BY <2>3, <3>1, <3>2
  <2>7. ASSUME NEW v \in Vmids, slot'[v] # None
        PROVE  /\ slot'[v].since <= committed'
               /\ slot'[v].lifecycle = "active" =>
                    \A i \in DOMAIN log' : log'[i].run >= slot'[v].since =>
                        /\ log'[i].guests[v] # None
                        /\ log'[i].guests[v].type = slot'[v].type
    <3> DEFINE g == rd[w].guests[v]
               Seen(i, t) == log'[i].guests[v] # None /\ log'[i].guests[v].type = t
    <3>1. RowEffect(v, g, r)
      BY <1>2, RowStep DEF r
    <3>2. g \in Guest => Seen(L + 1, g.type)
      BY <2>1, <2>3, NoneAssumption
    <3>3. ASSUME slot[v] \in Slots, NEW i \in 1 .. L, log[i].run >= slot[v].since,
                 slot[v].lifecycle = "active"
          PROVE  Seen(i, slot[v].type)
      BY <2>3, <3>3, NoneAssumption DEF TraceInv, Sighted, KindAt
    <3>4. slot[v] \in Slots => slot[v].since <= committed /\ slot[v].since \in Nat
      BY NoneAssumption DEF TraceInv, Slots
    <3> HIDE DEF g, Seen
    <3>5. CASE RowFirst(v, g, r) \/ RowReplaced(v, g, r)
      <4>1. RowNew(v, g, r)
        BY <3>5 DEF RowFirst, RowReplaced
      <4>2. /\ slot'[v].since = r /\ g \in Guest /\ slot'[v].type = g.type
        BY <4>1 DEF RowNew
      <4>3. ASSUME NEW i \in 1 .. L + 1, log'[i].run >= r PROVE i = L + 1
        <5>1. CASE i \in 1 .. L
          BY <2>3, <2>4, <2>5, <4>3, <5>1
        <5>2. QED
          BY <2>3, <5>1
      <4>4. \A i \in DOMAIN log' : log'[i].run >= slot'[v].since
                                     => Seen(i, slot'[v].type)
        BY <2>3, <3>2, <4>2, <4>3
      <4>5. QED
        BY <2>2, <2>4, <4>2, <4>4 DEF Seen
    <3>6. CASE RowMissed(v)
      <4>1. slot'[v].since = slot[v].since /\ slot[v] \in Slots
        BY <3>6 DEF RowMissed
      <4>2. slot'[v].lifecycle # "active"
        BY <3>6, NoneAssumption DEF RowMissed, StockInv, RowInv
      <4>3. QED
        BY <2>2, <2>4, <3>4, <4>1, <4>2
    <3>7. CASE RowSeen(v, g)
      <4>1. /\ slot'[v].since = slot[v].since /\ slot[v] \in Slots
            /\ slot'[v].type = slot[v].type /\ g \in Guest /\ g.type = slot[v].type
            /\ slot'[v].lifecycle = "active" => slot[v].lifecycle = "active"
        BY <3>7 DEF RowSeen
      <4>2. ASSUME slot'[v].lifecycle = "active", NEW i \in 1 .. L + 1,
                   log'[i].run >= slot'[v].since
            PROVE  Seen(i, slot'[v].type)
        <5>1. CASE i = L + 1
          BY <3>2, <4>1, <5>1
        <5>2. CASE i \in 1 .. L
          BY <2>3, <3>3, <4>1, <4>2, <5>2
        <5>3. QED
          BY <2>3, <5>1, <5>2
      <4>3. QED
        BY <2>2, <2>3, <2>4, <3>4, <4>1, <4>2 DEF Seen
    <3>8. QED
      BY <2>7, <3>1, <3>5, <3>6, <3>7 DEF RowEffect
  <2>8. QED
    BY <2>6, <2>7 DEF TraceInv, Sighted, KindAt
<1>3. QED
  BY <1>1, <1>2
  DEF Effect, Quiet, Created, Moved, Expired, RunMoved, RunFailed, StockStays

-----------------------------------------------------------------------------
(* A view, field by field.                                                 *)

\* What is published of the source.
SourceShown ==
    /\ source = None => View.source = None
    /\ source # None =>
         /\ View.source # None /\ View.source \in SourceViews
         /\ View.source.health = health /\ View.source.freshness = fresh
         /\ View.source.origin = origin /\ View.source.issued = issued
         /\ View.source.latest = latest
         /\ View.source.latestOutcome = OutcomeOf(latest)
         /\ View.source.lastHealth = lastHealth
         /\ View.source.healthOutcome = OutcomeOf(lastHealth)
         /\ View.source.committed = committed
         /\ View.source.reference = ref /\ View.source.validUntil = until
         /\ View.source.current = ctx /\ View.source.committedContext = hctx

\* What is published of the inventory: the generations of a locator up to the
\* one its slot counts, the last of them current, the others retired.
StockShown ==
    /\ DOMAIN View.nodes = {n \in Nodes : nodeRow[n] # "none"}
    /\ \A id \in DOMAIN View.resources :
         id = <<id[1], id[2]>> /\ id[1] \in Vmids /\ id[2] \in Nat
    /\ \A v \in Vmids, g \in Nat :
         <<v, g>> \in DOMAIN View.resources
           <=> slot[v] # None /\ 1 <= g /\ g <= slot[v].gen
    /\ \A v \in Vmids : slot[v] # None =>
         /\ View.resources[<<v, slot[v].gen>>] = CurrentResource(v)
         /\ \A g \in 1 .. Len(retired[v]) :
              View.resources[<<v, g>>] = RetiredResource(v, g)

\* The whole view.
Shown ==
    /\ View.inventoryRevision = invRev /\ View.publishedRevision = pubRev
    /\ SourceShown /\ StockShown

\* The types of what is published of a source.
LEMMA SourceViewType ==
    ASSUME IInv, source # None
    PROVE  SourceView \in SourceViews /\ SourceView # None
<1>1. ASSUME NEW r \in Nat, r <= MaxRuns
      PROVE  OutcomeOf(r) \in Live \cup Done \cup {"none", "abandoned", None}
  BY <1>1, RunTypes DEF OutcomeOf, Runs
<1>2. /\ latest <= MaxRuns /\ lastHealth <= MaxRuns
      /\ issued \in Nat /\ latest \in Nat /\ lastHealth \in Nat /\ committed \in Nat
  BY RunTypes DEF IInv, TypeOK
<1>3. /\ OutcomeOf(latest) \in Live \cup Done \cup {"none", "abandoned", None}
      /\ OutcomeOf(lastHealth) \in Live \cup Done \cup {"none", "abandoned", None}
  BY <1>1, <1>2
<1>4. SourceView \in SourceViews
  BY <1>2, <1>3 DEF SourceView, SourceViews, IInv, TypeOK
<1>5. QED
  BY <1>4, ReaderAssumption

\* The view shows the row of the source.
LEMMA ViewShowsSource == IInv => SourceShown
<1> SUFFICES ASSUME IInv PROVE SourceShown
  OBVIOUS
<1>1. View.source = SourceView
  BY DEF View
<1>2. CASE source = None
  BY <1>1, <1>2 DEF SourceView, SourceShown
<1>3. CASE source # None
  <2>1. View.source \in SourceViews /\ View.source # None
    BY <1>1, <1>3, SourceViewType
  <2>2. View.source =
          [health |-> health, freshness |-> fresh, origin |-> origin,
           issued |-> issued, latest |-> latest,
           latestOutcome |-> OutcomeOf(latest), lastHealth |-> lastHealth,
           healthOutcome |-> OutcomeOf(lastHealth), committed |-> committed,
           reference |-> ref, validUntil |-> until,
           current |-> ctx, committedContext |-> hctx]
    BY <1>1, <1>3 DEF SourceView
  <2>3. QED
    BY <1>3, <2>1, <2>2 DEF SourceShown
<1>4. QED
  BY <1>2, <1>3

\* The view shows the inventory, generation by generation.
LEMMA ViewShowsStock == IInv /\ StockInv => StockShown
<1> SUFFICES ASSUME IInv, StockInv PROVE StockShown
  OBVIOUS
<1>1. /\ View.nodes = [n \in {m \in Nodes : nodeRow[m] # "none"} |-> nodeRow[n]]
      /\ View.resources = [id \in Incarnations |->
                              IF id[2] \in DOMAIN retired[id[1]]
                              THEN RetiredResource(id[1], id[2])
                              ELSE CurrentResource(id[1])]
  BY DEF View
<1>2. DOMAIN View.nodes = {n \in Nodes : nodeRow[n] # "none"}
  BY <1>1
<1>3. DOMAIN View.resources = Incarnations
  BY <1>1
<1>4. ASSUME NEW v \in Vmids
      PROVE  /\ DOMAIN retired[v] = 1 .. Len(retired[v]) /\ Len(retired[v]) \in Nat
             /\ slot[v] = None => Len(retired[v]) = 0
             /\ slot[v] # None => /\ slot[v].gen = Len(retired[v]) + 1
                                  /\ slot[v].gen \in Nat
  <2>1. Len(retired[v]) \in Nat /\ DOMAIN retired[v] = 1 .. Len(retired[v])
    BY RetiredRows
  <2>2. slot[v] = None => Len(retired[v]) = 0
    BY DEF StockInv
  <2>3. slot[v] # None => slot[v].gen = Len(retired[v]) + 1
    BY DEF StockInv, RowInv
  <2>4. QED
    BY <2>1, <2>2, <2>3
<1>5. ASSUME NEW id \in Incarnations
      PROVE  id = <<id[1], id[2]>> /\ id[1] \in Vmids /\ id[2] \in Nat
  <2>1. CASE id \in {<<v, slot[v].gen>> : v \in {u \in Vmids : slot[u] # None}}
    BY <1>4, <2>1
  <2>2. CASE id \in UNION {{v} \X DOMAIN retired[v] : v \in Vmids}
    BY <1>4, <2>2
  <2>3. QED
    BY <2>1, <2>2 DEF Incarnations
<1>6. ASSUME NEW v \in Vmids, NEW g \in Nat
      PROVE  <<v, g>> \in Incarnations <=> slot[v] # None /\ 1 <= g /\ g <= slot[v].gen
  <2>1. <<v, g>> \in Incarnations
           <=> (slot[v] # None /\ g = slot[v].gen) \/ g \in DOMAIN retired[v]
    BY DEF Incarnations
  <2>2. QED
    BY <1>4, <2>1
<1>7. ASSUME NEW v \in Vmids, slot[v] # None
      PROVE  View.resources[<<v, slot[v].gen>>] = CurrentResource(v)
  <2>1. <<v, slot[v].gen>> \in Incarnations /\ slot[v].gen \notin DOMAIN retired[v]
    BY <1>4, <1>6, <1>7
  <2>2. QED
    BY <1>1, <2>1
<1>8. ASSUME NEW v \in Vmids, slot[v] # None, NEW g \in 1 .. Len(retired[v])
      PROVE  View.resources[<<v, g>>] = RetiredResource(v, g)
  <2>1. <<v, g>> \in Incarnations /\ g \in DOMAIN retired[v]
    BY <1>4, <1>6, <1>8
  <2>2. QED
    BY <1>1, <2>1
<1>9. QED
  BY <1>2, <1>3, <1>5, <1>6, <1>7, <1>8 DEF StockShown

\* The view, field by field.
LEMMA ViewShows == IInv /\ StockInv => Shown
BY ViewShowsSource, ViewShowsStock DEF Shown, View

\* And in the next state.
LEMMA ViewShowsNext == IInv' /\ StockInv' => Shown'
BY ViewShows, PTL

-----------------------------------------------------------------------------
(* Every view is valid on its own.                                         *)

\* A resource of the view is the current one of its locator or a retired one.
LEMMA ShownResource ==
    ASSUME IInv, StockInv, NEW id \in DOMAIN View.resources
    PROVE  \E v \in Vmids, g \in Nat :
             /\ id = <<v, g>> /\ slot[v] \in Slots /\ slot[v] # None /\ 1 <= g
             /\ slot[v].gen = Len(retired[v]) + 1 /\ Len(retired[v]) \in Nat
             /\ \/ g = slot[v].gen /\ View.resources[id] = CurrentResource(v)
                \/ /\ g \in 1 .. Len(retired[v]) /\ g \in DOMAIN retired[v]
                   /\ View.resources[id] = RetiredResource(v, g)
<1>1. StockShown
  BY ViewShowsStock
<1>2. PICK v \in Vmids, g \in Nat : id = <<v, g>>
  BY <1>1 DEF StockShown
<1>3. slot[v] # None /\ 1 <= g /\ g <= slot[v].gen
  BY <1>1, <1>2 DEF StockShown
<1>4. slot[v] \in Slots /\ slot[v].gen = Len(retired[v]) + 1
  BY <1>3 DEF IInv, TypeOK, StockInv, RowInv
<1>5. Len(retired[v]) \in Nat /\ DOMAIN retired[v] = 1 .. Len(retired[v])
  BY RetiredRows
<1>6. g = slot[v].gen \/ g \in 1 .. Len(retired[v])
  BY <1>3, <1>4, <1>5
<1>7. QED
  BY <1>1, <1>2, <1>3, <1>4, <1>5, <1>6 DEF StockShown

\* A current resource: its presence, trust and place agree.
LEMMA CurrentIsValid ==
    ASSUME IInv, StockInv, NEW v \in Vmids, slot[v] # None
    PROVE  ValidResource(View, <<v, slot[v].gen>>)
<1> DEFINE r == CurrentResource(v)
<1>1. View.resources[<<v, slot[v].gen>>] = r
  BY ViewShowsStock DEF StockShown
<1>2. slot[v] \in Slots /\ RowInv(v)
  BY DEF IInv, TypeOK, StockInv
<1>3. /\ r.revision = slot[v].rev /\ r.binding = <<v, slot[v].gen>>
      /\ r.presence = IF slot[v].present THEN "present" ELSE "missing"
      /\ r.lifecycle = slot[v].lifecycle
      /\ r.continuity = IF slot[v].lifecycle = "active" THEN "consistent"
                        ELSE "uncertain"
      /\ r.node = slot[v].node /\ r.last = slot[v].last /\ r.successor = None
  BY DEF CurrentResource
<1> HIDE DEF r
<1>4. r.revision > 0
  BY <1>2, <1>3 DEF RowInv
<1>5. r.binding # None /\ ~Terminal(r)
  BY <1>2, <1>3, ReaderAssumption DEF Terminal, Slots
<1>6. <<r.presence, r.lifecycle, r.continuity>> \in StateMatrix
  <2>1. slot[v].lifecycle \in {"active", "quarantined"} /\ slot[v].present \in BOOLEAN
    BY <1>2 DEF Slots
  <2>2. ~slot[v].present => slot[v].lifecycle = "quarantined"
    BY <1>2 DEF RowInv
  <2>3. CASE slot[v].present /\ slot[v].lifecycle = "active"
    BY <1>3, <2>3 DEF StateMatrix
  <2>4. CASE slot[v].present /\ slot[v].lifecycle = "quarantined"
    BY <1>3, <2>4 DEF StateMatrix
  <2>5. CASE ~slot[v].present
    BY <1>3, <2>2, <2>5 DEF StateMatrix
  <2>6. QED
    BY <2>1, <2>3, <2>4, <2>5
<1>7. r.presence # "present" => r.node = None
  BY <1>2, <1>3 DEF RowInv
<1>8. r.node # None => r.last = None
  BY <1>2, <1>3 DEF RowInv
<1>9. {r.node, r.last} \ {None} \subseteq DOMAIN View.nodes
  <2>1. DOMAIN View.nodes = {n \in Nodes : nodeRow[n] # "none"}
    BY ViewShowsStock DEF StockShown
  <2>2. r.node \in Nodes \cup {None} /\ r.last \in Nodes \cup {None}
    BY <1>2, <1>3 DEF Slots
  <2>3. Known(r.node) /\ Known(r.last)
    BY <1>2, <1>3 DEF RowInv
  <2>4. QED
    BY <2>1, <2>2, <2>3 DEF Known
<1>10. QED
  BY <1>1, <1>3, <1>4, <1>5, <1>6, <1>7, <1>8, <1>9 DEF ValidResource, Terminal

\* A retired resource: its successor is there, and next in line.
LEMMA RetiredIsValid ==
    ASSUME IInv, StockInv, NEW v \in Vmids, slot[v] # None,
           NEW g \in DOMAIN retired[v]
    PROVE  ValidResource(View, <<v, g>>)
<1> DEFINE r == RetiredResource(v, g)
           t == retired[v][g]
<1>1. /\ Len(retired[v]) \in Nat /\ DOMAIN retired[v] = 1 .. Len(retired[v])
      /\ t.rev \in Nat /\ t.last \in Nodes \cup {None}
  BY RetiredRows
<1>2. View.resources[<<v, g>>] = r
  BY <1>1, ViewShowsStock DEF StockShown
<1>3. slot[v] \in Slots /\ RowInv(v)
  BY DEF IInv, TypeOK, StockInv
<1>4. /\ r.revision = t.rev /\ r.binding = None /\ r.presence = "not_current"
      /\ r.lifecycle = "retired" /\ r.continuity = "replaced"
      /\ r.node = None /\ r.last = t.last /\ r.successor = <<v, g + 1>>
  BY DEF RetiredResource
<1>5. t.rev > 0 /\ Known(t.last)
  BY <1>3 DEF RowInv
<1> HIDE DEF r, t
<1>6. {r.node, r.last} \ {None} \subseteq DOMAIN View.nodes
  <2>1. DOMAIN View.nodes = {n \in Nodes : nodeRow[n] # "none"}
    BY ViewShowsStock DEF StockShown
  <2>2. QED
    BY <1>1, <1>4, <1>5, <2>1 DEF Known
<1>7. <<v, g + 1>> \in DOMAIN View.resources
  <2>1. g + 1 \in Nat /\ 1 <= g + 1 /\ g + 1 <= slot[v].gen
    BY <1>1, <1>3 DEF RowInv
  <2>2. QED
    BY <2>1, ViewShowsStock DEF StockShown
<1>8. <<r.presence, r.lifecycle, r.continuity>> \in StateMatrix
  BY <1>4 DEF StateMatrix
<1>9. QED
  BY <1>2, <1>4, <1>5, <1>6, <1>7, <1>8 DEF ValidResource, Terminal

\* The source's row as published.
LEMMA SourceIsValid ==
    ASSUME IInv, SourceInv, source # None
    PROVE  ValidSource(View.source)
<1> DEFINE s == View.source
<1>1. SourceShown
  BY ViewShowsSource
<1>2. /\ s.health = health /\ s.freshness = fresh
      /\ s.origin = origin /\ s.issued = issued /\ s.latest = latest
      /\ s.latestOutcome = OutcomeOf(latest) /\ s.lastHealth = lastHealth
      /\ s.healthOutcome = OutcomeOf(lastHealth) /\ s.committed = committed
      /\ s.current = ctx /\ s.committedContext = hctx
  BY <1>1 DEF SourceShown
<1> HIDE DEF s
<1>3. /\ committed \in Nat /\ lastHealth \in Nat /\ latest \in Nat /\ issued \in Nat
      /\ committed <= lastHealth /\ lastHealth <= latest /\ latest <= issued
      /\ latest <= MaxRuns /\ MaxRuns \in Nat
  BY RunTypes, SourceTypes DEF SourceInv
<1>4. ASSUME NEW r \in {lastHealth, latest}
      PROVE  /\ OutcomeOf(r) = "success" => r = committed
             /\ committed # 0 /\ r = committed => OutcomeOf(r) = "success"
  <2>1. r # 0 => r \in Runs
    BY <1>3 DEF Runs
  <2>2. QED
    BY <1>3, <2>1 DEF OutcomeOf, SourceInv
<1>5. hctx # None => /\ ctx.cfg >= hctx.cfg /\ ctx.trust >= hctx.trust
                     /\ ctx.canon >= hctx.canon
                     /\ ctx.canon > hctx.canon => ctx.cfg > hctx.cfg
  BY SourceTypes DEF SourceInv, ValidContextStep, Contexts
<1>6. fresh = "fresh" =>
        /\ health = "healthy" /\ committed # 0 /\ lastHealth = committed
        /\ hctx = ctx
  BY DEF IInv, FreshInv, FreshIsEarned
<1>7. fresh = "fresh" => origin = "discovery_run"
  BY SourceTypes DEF SourceInv
<1>8. health \notin {"healthy", "not_yet_observed"} => fresh = "stale"
  BY <1>6, SourceTypes DEF SourceInv
<1>9. (committed # 0) = (hctx # None)
  BY DEF SourceInv
<1>10. /\ origin = "initial" => /\ health = "not_yet_observed"
                                /\ fresh = "not_yet_observed"
                                /\ lastHealth = 0 /\ committed = 0
       /\ origin # "initial" => fresh # "not_yet_observed"
       /\ origin = "discovery_run" => lastHealth # 0
       /\ origin = "time_expiry" => /\ committed # 0 /\ fresh = "stale"
                                    /\ ctx = hctx /\ lastHealth = committed
       /\ origin = "controlled_context_transition" => fresh = "stale"
  BY <1>3 DEF SourceInv
<1>11. QED
  BY <1>2, <1>3, <1>4, <1>5, <1>6, <1>7, <1>8, <1>9, <1>10 DEF ValidSource, s

\* Whatever is published at any moment is valid.
LEMMA SnapshotIsValid == IInv /\ SourceInv /\ StockInv => ValidSnapshot(View)
<1> SUFFICES ASSUME IInv, SourceInv, StockInv PROVE ValidSnapshot(View)
  OBVIOUS
<1>1. Shown
  BY ViewShows
<1>2. View.publishedRevision > 0
  BY <1>1 DEF Shown, StockInv
<1>3. View.source # None => ValidSource(View.source)
  BY <1>1, SourceIsValid DEF Shown, SourceShown
<1>4. View.source = None \/ View.source.committed = 0
         => DOMAIN View.nodes = {} /\ DOMAIN View.resources = {}
  <2>1. SUFFICES ASSUME View.source = None \/ View.source.committed = 0
                 PROVE  DOMAIN View.nodes = {} /\ DOMAIN View.resources = {}
    OBVIOUS
  <2>2. committed = 0
    BY <1>1, <2>1, NothingCommitted DEF Shown, SourceShown
  <2>3. (\A v \in Vmids : slot[v] = None) /\ (\A n \in Nodes : nodeRow[n] = "none")
    BY <2>2 DEF StockInv
  <2>4. DOMAIN View.nodes = {}
    BY <1>1, <2>3 DEF Shown, StockShown
  <2>5. \A id \in DOMAIN View.resources : FALSE
    BY <2>3, ShownResource
  <2>6. QED
    BY <2>4, <2>5
<1>5. ASSUME NEW id \in DOMAIN View.resources PROVE ValidResource(View, id)
  BY ShownResource, CurrentIsValid, RetiredIsValid
<1>6. ASSUME NEW v \in Vmids PROVE ValidLocator(View, v)
  <2> DEFINE own == {id \in DOMAIN View.resources : id[1] = v}
  <2>1. ASSUME NEW id \in own
        PROVE  /\ slot[v] # None /\ slot[v].gen \in Nat
               /\ id = <<v, id[2]>> /\ id[2] \in Nat /\ 1 <= id[2]
               /\ id[2] <= slot[v].gen
               /\ View.resources[id].binding # None => id[2] = slot[v].gen
    <3>1. PICK u \in Vmids, g \in Nat :
             /\ id = <<u, g>> /\ slot[u] \in Slots /\ slot[u] # None /\ 1 <= g
             /\ slot[u].gen = Len(retired[u]) + 1 /\ Len(retired[u]) \in Nat
             /\ \/ g = slot[u].gen /\ View.resources[id] = CurrentResource(u)
                \/ /\ g \in 1 .. Len(retired[u])
                   /\ View.resources[id] = RetiredResource(u, g)
      BY ShownResource
    <3>2. u = v
      BY <3>1
    <3>3. RetiredResource(u, g).binding = None
      BY DEF RetiredResource
    <3>4. QED
      BY <3>1, <3>2, <3>3
  <2>2. ASSUME NEW id \in own, NEW later \in own, later[2] > id[2]
        PROVE  <<v, id[2] + 1>> \in own
    <3>1. id[2] + 1 \in Nat /\ 1 <= id[2] + 1 /\ id[2] + 1 <= slot[v].gen
      BY <2>1, <2>2
    <3>2. <<v, id[2] + 1>> \in DOMAIN View.resources
      BY <1>1, <2>1, <3>1 DEF Shown, StockShown
    <3>3. QED
      BY <3>2
  <2>3. ASSUME NEW id \in own, View.resources[id].binding # None, NEW other \in own
        PROVE  other[2] <= id[2]
    BY <2>1, <2>3
  <2> HIDE DEF own
  <2>4. QED
    BY <2>2, <2>3 DEF ValidLocator, own
<1>7. QED
  BY <1>2, <1>3, <1>4, <1>5, <1>6 DEF ValidSnapshot

\* And in the next state.
LEMMA SnapshotIsValidNext == IInv' /\ SourceInv' /\ StockInv' => ValidSnapshot(View')
<1> DEFINE Valid == ValidSnapshot(View)
<1>1. IInv /\ SourceInv /\ StockInv => Valid
  BY SnapshotIsValid
<1> HIDE DEF Valid
<1>2. IInv' /\ SourceInv' /\ StockInv' => Valid'
  BY <1>1, PTL
<1>3. QED
  BY <1>2 DEF Valid

-----------------------------------------------------------------------------
(* Succession of views is a partial order.                                 *)

\* What is published is numbered.
LEMMA ViewIsNumbered == IInv /\ StockInv => Numbered(View)
<1> SUFFICES ASSUME IInv, StockInv PROVE Numbered(View)
  OBVIOUS
<1>1. Shown /\ invRev \in Nat /\ pubRev \in Nat
  BY ViewShows, SourceTypes
<1>2. ASSUME NEW id \in DOMAIN View.resources PROVE View.resources[id].revision \in Nat
  <2>1. PICK v \in Vmids, g \in Nat :
           /\ slot[v] \in Slots
           /\ \/ View.resources[id] = CurrentResource(v)
              \/ g \in DOMAIN retired[v] /\ View.resources[id] = RetiredResource(v, g)
    BY ShownResource
  <2>2. CurrentResource(v).revision \in Nat
    BY <2>1 DEF CurrentResource, Slots
  <2>3. g \in DOMAIN retired[v] => RetiredResource(v, g).revision \in Nat
    BY RetiredRows DEF RetiredResource
  <2>4. QED
    BY <2>1, <2>2, <2>3
<1>3. QED
  BY <1>1, <1>2 DEF Numbered, Shown, SourceShown

\* And in the next state.
LEMMA ViewIsNumberedNext == IInv' /\ StockInv' => Numbered(View')
<1> DEFINE Valid == Numbered(View)
<1>1. IInv /\ StockInv => Valid
  BY ViewIsNumbered
<1> HIDE DEF Valid
<1>2. IInv' /\ StockInv' => Valid'
  BY <1>1, PTL
<1>3. QED
  BY <1>2 DEF Valid

\* One step of a resource after another.
LEMMA ResourceStepsCompose ==
    ASSUME NEW a, NEW b, NEW c, a.revision \in Nat, b.revision \in Nat,
           c.revision \in Nat, ValidResourceStep(a, b), ValidResourceStep(b, c)
    PROVE  ValidResourceStep(a, c)
<1>1. SecurityRelevant(a, c) => SecurityRelevant(a, b) \/ SecurityRelevant(b, c)
  BY DEF SecurityRelevant, Terminal
<1>2. QED
  BY <1>1 DEF ValidResourceStep, Terminal

\* One step of a source after another.
LEMMA SourceStepsCompose ==
    ASSUME NEW a, NEW b, NEW c, Numbered(a), Numbered(b), Numbered(c),
           a.source # None, b.source # None, c.source # None,
           ValidSource(a.source), ValidSource(b.source), ValidSource(c.source),
           a.inventoryRevision <= b.inventoryRevision,
           b.inventoryRevision <= c.inventoryRevision,
           ValidSourceStep(a.source, b.source, a, b),
           ValidSourceStep(b.source, c.source, b, c)
    PROVE  ValidSourceStep(a.source, c.source, a, c)
<1> DEFINE A == a.source
           B == b.source
           C == c.source
           P == ReconciliationProjection(a)
           Q == ReconciliationProjection(b)
           R == ReconciliationProjection(c)
<1>1. A \in SourceViews /\ B \in SourceViews /\ C \in SourceViews
  BY DEF Numbered
<1>2. /\ A.committed \in Nat /\ B.committed \in Nat /\ C.committed \in Nat
      /\ A.latest \in Nat /\ B.latest \in Nat /\ C.latest \in Nat
      /\ A.lastHealth \in Nat /\ B.lastHealth \in Nat /\ C.lastHealth \in Nat
      /\ A.issued \in Nat /\ B.issued \in Nat /\ C.issued \in Nat
      /\ A.current \in Contexts /\ B.current \in Contexts /\ C.current \in Contexts
      /\ A.committedContext \in Contexts \cup {None}
      /\ B.committedContext \in Contexts \cup {None}
      /\ C.committedContext \in Contexts \cup {None}
      /\ B.freshness \in {"not_yet_observed", "fresh", "stale"}
  BY <1>1 DEF SourceViews
<1>3. ValidSource(A) /\ ValidSource(B) /\ ValidSource(C)
  OBVIOUS
<1>4. ValidSourceStep(A, B, a, b) /\ ValidSourceStep(B, C, b, c)
  OBVIOUS
<1>5. /\ a.inventoryRevision \in Nat /\ b.inventoryRevision \in Nat
      /\ c.inventoryRevision \in Nat
      /\ a.inventoryRevision <= b.inventoryRevision
      /\ b.inventoryRevision <= c.inventoryRevision
  BY DEF Numbered
<1> HIDE DEF A, B, C
<1>6. /\ A.committed <= B.committed /\ B.committed <= C.committed
      /\ A.latest <= B.latest /\ B.latest <= C.latest
      /\ A.lastHealth <= B.lastHealth /\ B.lastHealth <= C.lastHealth
      /\ A.issued <= B.issued /\ B.issued <= C.issued
  BY <1>2, <1>4 DEF ValidSourceStep, Advances
<1>7. A.freshness = "stale" /\ C.freshness = "fresh" => NewCommit(A, C)
  <2>1. SUFFICES ASSUME A.freshness = "stale", C.freshness = "fresh"
                 PROVE  C.committed > A.committed
    BY DEF NewCommit
  <2>2. CASE B.freshness = "fresh"
    BY <1>2, <1>4, <1>6, <2>1, <2>2 DEF ValidSourceStep, NewCommit
  <2>3. CASE B.freshness = "stale"
    BY <1>2, <1>4, <1>6, <2>1, <2>3 DEF ValidSourceStep, NewCommit
  <2>4. CASE B.freshness = "not_yet_observed"
    <3>1. B.origin = "initial" /\ B.committed = 0 /\ C.committed # 0
      BY <1>3, <2>1, <2>4 DEF ValidSource
    <3>2. QED
      BY <1>2, <1>6, <3>1
  <2>5. QED
    BY <1>2, <2>2, <2>3, <2>4
<1>8. ValidContextStep(A.current, C.current)
  BY <1>2, <1>4, ContextsAreOrdered DEF ValidSourceStep
<1>9. A.committedContext # None /\ C.committedContext # None
        => ValidContextStep(A.committedContext, C.committedContext)
  <2>1. A.committedContext # None => B.committedContext # None
    BY <1>2, <1>3, <1>6 DEF ValidSource
  <2>2. QED
    BY <1>2, <1>4, <2>1, ContextsAreOrdered DEF ValidSourceStep
<1>10. /\ NewCommit(A, B) => /\ B.committed > A.latest
                             /\ b.inventoryRevision > a.inventoryRevision
       /\ NewCommit(B, C) => /\ C.committed > B.latest
                             /\ c.inventoryRevision > b.inventoryRevision
       /\ NewCommit(A, C) => NewCommit(A, B) \/ NewCommit(B, C)
       /\ NewCommit(A, B) \/ NewCommit(B, C) => NewCommit(A, C)
  BY <1>2, <1>4, <1>6 DEF ValidSourceStep, NewCommit
<1>11. NewCommit(A, C) => /\ C.committed > A.latest
                          /\ c.inventoryRevision > a.inventoryRevision
  BY <1>2, <1>5, <1>6, <1>10
<1>12. C.latest = A.latest => C.latestOutcome = A.latestOutcome
  <2>1. C.latest = A.latest => B.latest = A.latest /\ C.latest = B.latest
    BY <1>2, <1>6
  <2>2. QED
    BY <1>4, <2>1 DEF ValidSourceStep
<1>13. C.lastHealth = A.lastHealth => C.healthOutcome = A.healthOutcome
  <2>1. C.lastHealth = A.lastHealth
          => B.lastHealth = A.lastHealth /\ C.lastHealth = B.lastHealth
    BY <1>2, <1>6
  <2>2. QED
    BY <1>4, <2>1 DEF ValidSourceStep
<1>14. C.committed = A.committed =>
         /\ C.reference = A.reference /\ C.validUntil = A.validUntil
         /\ C.committedContext = A.committedContext
  <2>1. C.committed = A.committed
          => B.committed = A.committed /\ C.committed = B.committed
    BY <1>2, <1>6
  <2>2. QED
    BY <1>4, <2>1 DEF ValidSourceStep
<1>15. R # P => NewCommit(A, C)
  <2>1. (Q # P => NewCommit(A, B)) /\ (R # Q => NewCommit(B, C))
    BY <1>4 DEF ValidSourceStep
  <2> HIDE DEF P, Q, R
  <2>2. QED
    BY <1>10, <2>1
<1>16. /\ C.issued >= A.issued /\ Advances(A.latest, C.latest)
       /\ Advances(A.lastHealth, C.lastHealth) /\ Advances(A.committed, C.committed)
  BY <1>2, <1>6 DEF Advances
<1>17. ValidSourceStep(A, C, a, c)
  BY <1>7, <1>8, <1>9, <1>11, <1>12, <1>13, <1>14, <1>15, <1>16 DEF ValidSourceStep
<1>18. QED
  BY <1>17 DEF A, C

\* A successor of a successor is a successor: skipping views is harmless.
LEMMA TransitionsCompose ==
    ASSUME NEW a, NEW b, NEW c, Numbered(a), Numbered(b), Numbered(c),
           ValidSnapshot(a), ValidSnapshot(b), ValidSnapshot(c),
           ValidTransition(a, b), ValidTransition(b, c)
    PROVE  ValidTransition(a, c)
<1>1. /\ a.inventoryRevision \in Nat /\ b.inventoryRevision \in Nat
      /\ c.inventoryRevision \in Nat /\ a.publishedRevision \in Nat
      /\ b.publishedRevision \in Nat /\ c.publishedRevision \in Nat
  BY DEF Numbered
<1>2. /\ c.inventoryRevision >= a.inventoryRevision
      /\ c.publishedRevision >= a.publishedRevision
  BY <1>1 DEF ValidTransition
<1>3. c.publishedRevision = a.publishedRevision => c = a
  <2>1. c.publishedRevision = a.publishedRevision
          => /\ b.publishedRevision = a.publishedRevision
             /\ c.publishedRevision = b.publishedRevision
    BY <1>1 DEF ValidTransition
  <2>2. QED
    BY <2>1 DEF ValidTransition
<1>4. a.source # None => b.source # None /\ c.source # None
  BY DEF ValidTransition
<1>5. /\ DOMAIN a.nodes \subseteq DOMAIN c.nodes
      /\ DOMAIN a.resources \subseteq DOMAIN b.resources
      /\ DOMAIN b.resources \subseteq DOMAIN c.resources
      /\ DOMAIN a.resources \subseteq DOMAIN c.resources
  BY DEF ValidTransition
<1>6. ASSUME NEW id \in DOMAIN c.resources \ DOMAIN a.resources,
             NEW was \in DOMAIN a.resources, was[1] = id[1]
      PROVE  id[2] > was[2]
  <2>1. CASE id \in DOMAIN b.resources
    BY <1>6, <2>1 DEF ValidTransition
  <2>2. CASE id \notin DOMAIN b.resources
    BY <1>5, <1>6, <2>2 DEF ValidTransition
  <2>3. QED
    BY <2>1, <2>2
<1>7. InventoryProjection(c) # InventoryProjection(a)
        => c.inventoryRevision > a.inventoryRevision
  <2>1. /\ InventoryProjection(b) # InventoryProjection(a)
             => b.inventoryRevision > a.inventoryRevision
        /\ InventoryProjection(c) # InventoryProjection(b)
             => c.inventoryRevision > b.inventoryRevision
        /\ b.inventoryRevision >= a.inventoryRevision
        /\ c.inventoryRevision >= b.inventoryRevision
    BY DEF ValidTransition
  <2>2. QED
    BY <1>1, <2>1
<1>8. a.source # None => ValidSourceStep(a.source, c.source, a, c)
  <2> SUFFICES ASSUME a.source # None PROVE ValidSourceStep(a.source, c.source, a, c)
    OBVIOUS
  <2>1. ValidSource(a.source) /\ ValidSource(b.source) /\ ValidSource(c.source)
    BY <1>4 DEF ValidSnapshot
  <2>2. /\ ValidSourceStep(a.source, b.source, a, b)
        /\ ValidSourceStep(b.source, c.source, b, c)
    BY <1>4 DEF ValidTransition
  <2>3. /\ a.inventoryRevision <= b.inventoryRevision
        /\ b.inventoryRevision <= c.inventoryRevision
    BY <1>1 DEF ValidTransition
  <2>4. QED
    BY <1>4, <2>1, <2>2, <2>3, SourceStepsCompose
<1>9. ASSUME NEW id \in DOMAIN a.resources
      PROVE  ValidResourceStep(a.resources[id], c.resources[id])
  <2>1. /\ ValidResourceStep(a.resources[id], b.resources[id])
        /\ ValidResourceStep(b.resources[id], c.resources[id])
    BY <1>5 DEF ValidTransition
  <2>2. /\ a.resources[id].revision \in Nat /\ b.resources[id].revision \in Nat
        /\ c.resources[id].revision \in Nat
    BY <1>5 DEF Numbered
  <2>3. QED
    BY <2>1, <2>2, ResourceStepsCompose
<1>10. QED
  BY <1>2, <1>3, <1>4, <1>5, <1>6, <1>7, <1>8, <1>9 DEF ValidTransition

-----------------------------------------------------------------------------
(* What is published after a step succeeds what was before it.             *)

\* What is published of the inventory rests on its rows alone.
LEMMA SameStock ==
    ASSUME StockStays
    PROVE  View'.nodes = View.nodes /\ View'.resources = View.resources
<1>1. slot' = slot /\ retired' = retired /\ nodeRow' = nodeRow
  BY DEF StockStays
<1>2. View.nodes = [n \in {m \in Nodes : nodeRow[m] # "none"} |-> nodeRow[n]]
  BY DEF View
<1>3. View'.nodes = [n \in {m \in Nodes : nodeRow'[m] # "none"} |-> nodeRow'[n]]
  BY DEF View
<1>4. Incarnations' = Incarnations
  BY <1>1 DEF Incarnations
<1>5. /\ \A v : CurrentResource(v)' = CurrentResource(v)
      /\ \A v, g : RetiredResource(v, g)' = RetiredResource(v, g)
  BY <1>1 DEF CurrentResource, RetiredResource
<1>6. View.resources = [id \in Incarnations |->
                           IF id[2] \in DOMAIN retired[id[1]]
                           THEN RetiredResource(id[1], id[2])
                           ELSE CurrentResource(id[1])]
  BY DEF View
<1>7. View'.resources = [id \in Incarnations' |->
                           IF id[2] \in DOMAIN retired'[id[1]]
                           THEN RetiredResource(id[1], id[2])'
                           ELSE CurrentResource(id[1])']
  BY DEF View
<1>8. QED
  BY <1>1, <1>2, <1>3, <1>4, <1>5, <1>6, <1>7

\* Nothing published, nothing changed.
LEMMA QuietViews == Quiet => View' = View
<1> SUFFICES ASSUME Quiet PROVE View' = View
  OBVIOUS
<1>1. View'.nodes = View.nodes /\ View'.resources = View.resources
  BY SameStock DEF Quiet
<1>2. SourceView' = SourceView
  BY DEF Quiet, SourceView, OutcomeOf, healthV
<1>3. invRev' = invRev /\ pubRev' = pubRev
  BY DEF Quiet, revs
<1>4. View = [inventoryRevision |-> invRev, publishedRevision |-> pubRev,
              source |-> SourceView, nodes |-> View.nodes,
              resources |-> View.resources]
  BY DEF View
<1>5. View' = [inventoryRevision |-> invRev', publishedRevision |-> pubRev',
               source |-> SourceView', nodes |-> View'.nodes,
               resources |-> View'.resources]
  BY DEF View
<1>6. QED
  BY <1>1, <1>2, <1>3, <1>4, <1>5

\* What a step may do to the row of a source.
SourceMoves ==
    /\ fresh = "stale" /\ fresh' = "fresh" => committed' > committed
    /\ ValidContextStep(ctx, ctx')
    /\ hctx # None /\ hctx' # None => ValidContextStep(hctx, hctx')
    /\ issued' >= issued /\ latest' >= latest /\ lastHealth' >= lastHealth
    /\ committed' >= committed
    /\ committed' > committed => committed' > latest /\ invRev' > invRev
    /\ latest' = latest => OutcomeOf(latest)' = OutcomeOf(latest)
    /\ lastHealth' = lastHealth => OutcomeOf(lastHealth)' = OutcomeOf(lastHealth)
    /\ committed' = committed => UNCHANGED <<ref, until, hctx>> /\ StockStays

\* The outcome of a run that had a say stays.
LEMMA OutcomeStays ==
    ASSUME IInv, SourceInv, NEW r \in Runs, latest < r, NEW s,
           life' = [life EXCEPT ![r] = s]
    PROVE  /\ latest' = latest => OutcomeOf(latest)' = OutcomeOf(latest)
           /\ lastHealth' = lastHealth => OutcomeOf(lastHealth)' = OutcomeOf(lastHealth)
<1>1. latest # r /\ lastHealth # r
  BY RunTypes DEF SourceInv, Runs
<1>2. /\ latest # 0 => latest \in Runs /\ life'[latest] = life[latest]
      /\ lastHealth # 0 => lastHealth \in Runs /\ life'[lastHealth] = life[lastHealth]
  BY <1>1, RunTypes DEF IInv, TypeOK, Runs
<1>3. QED
  BY <1>2 DEF OutcomeOf

\* Every step moves the row of a source on, never back.
LEMMA SourceMovesOn ==
    ASSUME IInv, SourceInv, Effect, source # None
    PROVE  SourceMoves
<1>0. /\ issued \in Nat /\ latest \in Nat /\ lastHealth \in Nat /\ committed \in Nat
      /\ committed <= lastHealth /\ lastHealth <= latest /\ invRev \in Nat
  BY RunTypes, SourceTypes DEF SourceInv
<1>1. \A c \in Contexts : ValidContextStep(c, c)
  BY DEF ValidContextStep, Contexts
<1>2. ctx \in Contexts /\ hctx \in Contexts \cup {None}
  BY SourceTypes
<1>3. CASE Quiet
  BY <1>0, <1>1, <1>2, <1>3 DEF Quiet, SourceMoves, OutcomeOf, healthV
<1>4. CASE Created
  BY <1>4 DEF Created
<1>5. CASE Moved
  BY <1>0, <1>1, <1>2, <1>5 DEF Moved, SourceMoves, OutcomeOf
<1>6. CASE Expired
  BY <1>0, <1>1, <1>2, <1>6 DEF Expired, SourceMoves, OutcomeOf
<1>7. ASSUME NEW r \in Runs, RunMoved(r) PROVE SourceMoves
  <2>1. /\ latest' = latest => OutcomeOf(latest)' = OutcomeOf(latest)
        /\ lastHealth' = lastHealth => OutcomeOf(lastHealth)' = OutcomeOf(lastHealth)
    BY <1>7, OutcomeStays DEF RunMoved
  <2>2. QED
    BY <1>0, <1>1, <1>2, <1>7, <2>1 DEF RunMoved, SourceMoves, healthV
<1>8. ASSUME NEW r \in Runs, RunFailed(r) PROVE SourceMoves
  <2>1. /\ latest' = latest => OutcomeOf(latest)' = OutcomeOf(latest)
        /\ lastHealth' = lastHealth => OutcomeOf(lastHealth)' = OutcomeOf(lastHealth)
    BY <1>8, OutcomeStays DEF RunFailed
  <2>2. latest' >= latest /\ lastHealth' >= lastHealth
    BY <1>0, <1>8 DEF RunFailed, Runs
  <2>3. QED
    BY <1>0, <1>1, <1>2, <1>8, <2>1, <2>2 DEF RunFailed, SourceMoves
<1>9. ASSUME NEW w \in Workers, Applied(w) PROVE SourceMoves
  <2> DEFINE r == mine[w]
  <2>1. /\ r \in Runs /\ r \in Nat /\ latest < r
        /\ committed' = r /\ lastHealth' = r /\ latest' = r
        /\ life' = [life EXCEPT ![r] = "success"]
        /\ hctx' = ctx /\ ctx' = ctx /\ issued' = issued /\ invRev' = invRev + 1
    BY <1>9 DEF Applied, Commit, Release, Runs, PublishStock
  <2> HIDE DEF r
  <2>2. /\ latest' = latest => OutcomeOf(latest)' = OutcomeOf(latest)
        /\ lastHealth' = lastHealth => OutcomeOf(lastHealth)' = OutcomeOf(lastHealth)
    BY <2>1, OutcomeStays
  <2>3. hctx # None => ValidContextStep(hctx, ctx)
    BY DEF SourceInv
  <2>4. QED
    BY <1>0, <1>1, <1>2, <2>1, <2>2, <2>3 DEF SourceMoves
<1>10. QED
  BY <1>3, <1>4, <1>5, <1>6, <1>7, <1>8, <1>9 DEF Effect

\* A step of the source as its reader sees it.
LEMMA SourceSucceeds ==
    ASSUME IInv, IInv', SourceInv, Effect, Shown, Shown', source # None,
           source' # None
    PROVE  ValidSourceStep(View.source, View'.source, View, View')
<1> DEFINE A == View.source
           B == View'.source
<1>1. SourceMoves
  BY SourceMovesOn
<1>2. /\ A.freshness = fresh /\ A.issued = issued /\ A.latest = latest
      /\ A.latestOutcome = OutcomeOf(latest) /\ A.lastHealth = lastHealth
      /\ A.healthOutcome = OutcomeOf(lastHealth) /\ A.committed = committed
      /\ A.reference = ref /\ A.validUntil = until
      /\ A.current = ctx /\ A.committedContext = hctx
      /\ View.inventoryRevision = invRev
  BY DEF Shown, SourceShown
<1>3. /\ B.freshness = fresh' /\ B.issued = issued' /\ B.latest = latest'
      /\ B.latestOutcome = OutcomeOf(latest)' /\ B.lastHealth = lastHealth'
      /\ B.healthOutcome = OutcomeOf(lastHealth)' /\ B.committed = committed'
      /\ B.reference = ref' /\ B.validUntil = until'
      /\ B.current = ctx' /\ B.committedContext = hctx'
      /\ View'.inventoryRevision = invRev'
  BY DEF Shown, SourceShown
<1>4. StockStays => ReconciliationProjection(View') = ReconciliationProjection(View)
  BY SameStock DEF ReconciliationProjection
<1>5. committed \in Nat /\ committed' \in Nat
  BY RunTypes DEF IInv, TypeOK
<1> HIDE DEF A, B
<1>6. ReconciliationProjection(View') # ReconciliationProjection(View) => NewCommit(A, B)
  BY <1>1, <1>2, <1>3, <1>4, <1>5 DEF SourceMoves, NewCommit
<1>7. ValidSourceStep(A, B, View, View')
  BY <1>1, <1>2, <1>3, <1>6 DEF SourceMoves, ValidSourceStep, NewCommit, Advances
<1>8. QED
  BY <1>7 DEF A, B

-----------------------------------------------------------------------------

\* The resources of a locator when a baseline is applied.
LEMMA ResourceSucceeds ==
    ASSUME IInv, StockInv, IInv', StockInv', NEW w \in Workers, Applied(w),
           NEW id \in DOMAIN View.resources
    PROVE  /\ id \in DOMAIN View'.resources
           /\ ValidResourceStep(View.resources[id], View'.resources[id])
<1>0. StockShown /\ StockShown'
  BY ViewShowsStock, ViewShowsNext DEF Shown
<1>1. PICK v \in Vmids, g \in Nat :
           /\ id = <<v, g>> /\ slot[v] \in Slots /\ slot[v] # None /\ 1 <= g
           /\ slot[v].gen = Len(retired[v]) + 1 /\ Len(retired[v]) \in Nat
           /\ \/ g = slot[v].gen /\ View.resources[id] = CurrentResource(v)
              \/ /\ g \in 1 .. Len(retired[v]) /\ g \in DOMAIN retired[v]
                 /\ View.resources[id] = RetiredResource(v, g)
  BY ShownResource
<1>2. RowEffect(v, rd[w].guests[v], mine[w])
  BY RowStep
<1>3. /\ RowReplaced(v, rd[w].guests[v], mine[w]) \/ RowMissed(v)
           \/ RowSeen(v, rd[w].guests[v])
  BY <1>1, <1>2 DEF RowEffect, RowFirst
<1>4. slot'[v] \in Slots /\ slot'[v] # None
  BY <1>3, NoneAssumption DEF RowReplaced, RowNew, RowMissed, RowSeen
<1>5. slot'[v].gen = Len(retired'[v]) + 1 /\ Len(retired'[v]) \in Nat
  BY <1>4, RetiredNext DEF StockInv, RowInv
<1>6. \/ retired'[v] = retired[v] /\ slot'[v].gen = slot[v].gen
      \/ RowReplaced(v, rd[w].guests[v], mine[w]) /\ slot'[v].gen = slot[v].gen + 1
  BY <1>1, <1>3, <1>5 DEF RowReplaced, RowMissed, RowSeen
<1>7. g <= slot'[v].gen
  BY <1>1, <1>5, <1>6
<1>8. id \in DOMAIN View'.resources
  BY <1>0, <1>1, <1>4, <1>7 DEF StockShown
<1>9. CASE g \in 1 .. Len(retired[v]) /\ View.resources[id] = RetiredResource(v, g)
  <2>1. g \in 1 .. Len(retired'[v]) /\ retired'[v][g] = retired[v][g]
    BY <1>1, <1>5, <1>6, <1>9 DEF RowReplaced
  <2>2. View'.resources[id] = RetiredResource(v, g)'
    BY <1>0, <1>1, <1>4, <2>1 DEF StockShown
  <2>3. RetiredResource(v, g)' = RetiredResource(v, g)
    BY <2>1 DEF RetiredResource
  <2>4. View.resources[id].revision \in Nat
    BY ViewIsNumbered DEF Numbered
  <2>5. View'.resources[id] = View.resources[id]
    BY <1>9, <2>2, <2>3
  <2>6. QED
    BY <1>8, <2>4, <2>5 DEF ValidResourceStep, SecurityRelevant, Terminal
<1>10. CASE g = slot[v].gen /\ View.resources[id] = CurrentResource(v)
  <2> DEFINE A == View.resources[id]
             B == View'.resources[id]
  <2>1. /\ A.type = slot[v].type /\ A.binding = <<v, slot[v].gen>>
        /\ A.revision = slot[v].rev /\ A.lifecycle = slot[v].lifecycle
        /\ A.presence = IF slot[v].present THEN "present" ELSE "missing"
        /\ A.continuity = IF slot[v].lifecycle = "active" THEN "consistent"
                          ELSE "uncertain"
    BY <1>10 DEF CurrentResource
  <2>2. slot[v].rev \in Nat /\ ~Terminal(A)
    BY <1>1, <2>1 DEF Slots, Terminal
  <2>3. CASE RowReplaced(v, rd[w].guests[v], mine[w])
    <3>1. g = Len(retired[v]) + 1 /\ g \in 1 .. Len(retired'[v])
      BY <1>1, <1>10, <2>3 DEF RowReplaced
    <3>2. B = RetiredResource(v, g)'
      BY <1>0, <1>1, <1>4, <3>1 DEF StockShown
    <3>3. retired'[v][g].type = slot[v].type /\ retired'[v][g].rev = slot[v].rev + 1
      BY <2>3, <3>1 DEF RowReplaced
    <3>4. B.type = A.type /\ B.revision = slot[v].rev + 1 /\ Terminal(B)
      BY <2>1, <3>2, <3>3 DEF RetiredResource, Terminal
    <3> HIDE DEF A, B
    <3>5. ValidResourceStep(A, B)
      BY <2>1, <2>2, <3>4 DEF ValidResourceStep
    <3>6. QED
      BY <1>8, <3>5 DEF A, B
  <2>4. CASE RowMissed(v) \/ RowSeen(v, rd[w].guests[v])
    <3>1. /\ slot'[v].gen = slot[v].gen /\ slot'[v].type = slot[v].type
          /\ \/ slot'[v].rev = slot[v].rev /\ slot'[v].lifecycle = slot[v].lifecycle
             \/ slot'[v].rev = slot[v].rev + 1
      BY <2>4 DEF RowMissed, RowSeen
    <3>2. B = CurrentResource(v)'
      BY <1>0, <1>1, <1>4, <1>10, <3>1 DEF StockShown
    <3>3. /\ B.type = slot'[v].type /\ B.binding = <<v, slot'[v].gen>>
          /\ B.revision = slot'[v].rev /\ B.lifecycle = slot'[v].lifecycle
          /\ B.presence = IF slot'[v].present THEN "present" ELSE "missing"
          /\ B.continuity = IF slot'[v].lifecycle = "active" THEN "consistent"
                            ELSE "uncertain"
      BY <3>2 DEF CurrentResource
    <3>4. ~Terminal(B)
      BY <3>3 DEF Terminal
    <3> HIDE DEF A, B
    <3>5. B.type = A.type /\ B.binding = A.binding
      BY <2>1, <3>1, <3>3
    <3>6. /\ B.revision >= A.revision
          /\ SecurityRelevant(A, B) => B.revision > A.revision
      BY <2>1, <2>2, <3>1, <3>3, <3>4 DEF SecurityRelevant
    <3>7. ValidResourceStep(A, B)
      BY <2>2, <3>4, <3>5, <3>6 DEF ValidResourceStep
    <3>8. QED
      BY <1>8, <3>7 DEF A, B
  <2>5. QED
    BY <1>3, <2>3, <2>4
<1>11. QED
  BY <1>1, <1>9, <1>10

\* A resource that appears is a later generation than all before it.
LEMMA ResourceAppears ==
    ASSUME IInv, StockInv, IInv', StockInv',
           NEW id \in DOMAIN View'.resources \ DOMAIN View.resources,
           NEW was \in DOMAIN View.resources, was[1] = id[1]
    PROVE  id[2] > was[2]
<1>0. StockShown /\ StockShown'
  BY ViewShowsStock, ViewShowsNext DEF Shown
<1>1. /\ id = <<id[1], id[2]>> /\ id[1] \in Vmids /\ id[2] \in Nat
      /\ was = <<was[1], was[2]>> /\ was[2] \in Nat
  BY <1>0 DEF StockShown
<1> DEFINE v == id[1]
           g == id[2]
           h == was[2]
<1>2. <<v, h>> \in DOMAIN View.resources /\ <<v, g>> \notin DOMAIN View.resources
      /\ <<v, g>> \in DOMAIN View'.resources
  BY <1>1
<1>3. v \in Vmids /\ g \in Nat /\ h \in Nat
  BY <1>1
<1> HIDE DEF v, g, h
<1>4. /\ slot[v] # None /\ h <= slot[v].gen /\ 1 <= g
      /\ ~(1 <= g /\ g <= slot[v].gen)
  BY <1>0, <1>2, <1>3 DEF StockShown
<1>5. slot[v].gen \in Nat
  BY <1>3, <1>4 DEF IInv, TypeOK, Slots
<1>6. g > h
  BY <1>3, <1>4, <1>5
<1>7. QED
  BY <1>6 DEF g, h

\* A view succeeds itself.
LEMMA TransitionIsReflexive ==
    ASSUME NEW a, Numbered(a)
    PROVE  ValidTransition(a, a)
<1>1. a.source # None => ValidSourceStep(a.source, a.source, a, a)
  <2> SUFFICES ASSUME a.source # None PROVE ValidSourceStep(a.source, a.source, a, a)
    OBVIOUS
  <2> DEFINE A == a.source
  <2>1. A \in SourceViews
    BY DEF Numbered
  <2> HIDE DEF A
  <2>2. /\ A.committed \in Nat /\ A.latest \in Nat /\ A.lastHealth \in Nat
        /\ A.issued \in Nat /\ A.current \in Contexts
        /\ A.committedContext \in Contexts \cup {None}
    BY <2>1 DEF SourceViews
  <2>3. \A c \in Contexts : ValidContextStep(c, c)
    BY DEF ValidContextStep, Contexts
  <2>4. ~(A.freshness = "stale" /\ A.freshness = "fresh")
    OBVIOUS
  <2>5. ValidSourceStep(A, A, a, a)
    BY <2>2, <2>3, <2>4 DEF ValidSourceStep, NewCommit, Advances
  <2>6. QED
    BY <2>5 DEF A
<1>2. ASSUME NEW id \in DOMAIN a.resources
      PROVE  ValidResourceStep(a.resources[id], a.resources[id])
  BY DEF Numbered, ValidResourceStep, SecurityRelevant, Terminal
<1>3. a.inventoryRevision >= a.inventoryRevision
      /\ a.publishedRevision >= a.publishedRevision
  BY DEF Numbered
<1>4. QED
  BY <1>1, <1>2, <1>3 DEF ValidTransition

\* Whatever a step does, what is published after it is a valid successor.
LEMMA StepSucceeds ==
    ASSUME IInv, SourceInv, StockInv, IInv', SourceInv', StockInv', Effect
    PROVE  ValidTransition(View, View')
<1>1. Shown /\ Shown' /\ Numbered(View)
  BY ViewShows, ViewShowsNext, ViewIsNumbered
<1>2. CASE Quiet
  BY <1>1, <1>2, QuietViews, TransitionIsReflexive
<1>3. CASE ~Quiet
  <2>1. /\ View'.inventoryRevision >= View.inventoryRevision
        /\ View'.publishedRevision >= View.publishedRevision
        /\ View'.publishedRevision # View.publishedRevision
    BY <1>1, <1>3, StepPublishes DEF Shown
  <2>2. source # None => source' # None
    <3>1. Created \/ Moved => source' # None
      BY SourceTypes DEF Created, Moved
    <3>2. QED
      BY <3>1 DEF Effect, Quiet, Expired, RunMoved, RunFailed, Applied
  <2>3. /\ View.source # None => View'.source # None
        /\ View.source # None
             => ValidSourceStep(View.source, View'.source, View, View')
    BY <1>1, <2>2, SourceSucceeds DEF Shown, SourceShown
  <2>4. CASE StockStays
    <3>1. View'.nodes = View.nodes /\ View'.resources = View.resources
      BY <2>4, SameStock
    <3>2. InventoryProjection(View') = InventoryProjection(View)
      BY <3>1 DEF InventoryProjection
    <3>3. ASSUME NEW id \in DOMAIN View.resources
          PROVE  ValidResourceStep(View.resources[id], View'.resources[id])
      BY <1>1, <3>1 DEF Numbered, ValidResourceStep, SecurityRelevant, Terminal
    <3>4. QED
      BY <2>1, <2>3, <3>1, <3>2, <3>3 DEF ValidTransition
  <2>5. ASSUME NEW w \in Workers, Applied(w) PROVE ValidTransition(View, View')
    <3>1. View'.inventoryRevision > View.inventoryRevision
      BY <1>1, <2>5, SourceTypes DEF Shown, Applied, Commit, PublishStock
    <3>2. DOMAIN View.nodes \subseteq DOMAIN View'.nodes
      BY <1>1, <2>5, NodeStep DEF Shown, StockShown
    <3>3. \A id \in DOMAIN View.resources :
             /\ id \in DOMAIN View'.resources
             /\ ValidResourceStep(View.resources[id], View'.resources[id])
      BY <2>5, ResourceSucceeds
    <3>4. \A id \in DOMAIN View'.resources \ DOMAIN View.resources :
             \A was \in DOMAIN View.resources : was[1] = id[1] => id[2] > was[2]
      BY ResourceAppears
    <3>5. QED
      BY <2>1, <2>3, <3>1, <3>2, <3>3, <3>4 DEF ValidTransition
  <2>6. QED
    BY <1>3, <2>4, <2>5 DEF Effect, Created, Moved, Expired, RunMoved, RunFailed
<1>4. QED
  BY <1>2, <1>3

-----------------------------------------------------------------------------
(* The view the reader holds.                                              *)

\* What the reader holds stays a predecessor, whatever it misses.
LEMMA HeldStays ==
    ASSUME ReaderInv, IInv', SourceInv', StockInv', Effect, held # None
    PROVE  /\ ValidTransition(held, View')
           /\ \A id \in DOMAIN held.resources :
                slot'[id[1]].gen = id[2]
                  => slot'[id[1]].since <= held.source.committed
<1> IInv /\ SourceInv /\ StockInv /\ HeldInv
  BY DEF ReaderInv
<1>1. Numbered(held) /\ ValidSnapshot(held) /\ ValidTransition(held, View)
  BY DEF HeldInv
<1>2. ValidTransition(held, View')
  <2>1. Numbered(View) /\ Numbered(View')
    BY ViewIsNumbered, ViewIsNumberedNext
  <2>2. ValidSnapshot(View) /\ ValidSnapshot(View')
    BY SnapshotIsValid, SnapshotIsValidNext
  <2>3. QED
    BY <1>1, <2>1, <2>2, StepSucceeds, TransitionsCompose
<1>3. ASSUME NEW id \in DOMAIN held.resources, slot'[id[1]].gen = id[2]
      PROVE  slot'[id[1]].since <= held.source.committed
  <2>1. id \in DOMAIN View.resources
    BY <1>1 DEF ValidTransition
  <2>2. PICK v \in Vmids, g \in Nat :
           /\ id = <<v, g>> /\ slot[v] \in Slots /\ slot[v] # None
           /\ slot[v].gen = Len(retired[v]) + 1 /\ Len(retired[v]) \in Nat
           /\ g = slot[v].gen \/ g \in 1 .. Len(retired[v])
    BY <2>1, ShownResource
  <2>3. slot[v].gen = g => slot[v].since <= held.source.committed
    BY <2>2 DEF HeldInv
  <2>4. CASE StockStays
    BY <1>3, <2>2, <2>3, <2>4 DEF StockStays
  <2>5. ASSUME NEW w \in Workers, Applied(w)
        PROVE  slot'[v].since <= held.source.committed
    <3>1. RowEffect(v, rd[w].guests[v], mine[w])
      BY <2>5, RowStep
    <3>2. ~RowReplaced(v, rd[w].guests[v], mine[w])
      BY <1>3, <2>2 DEF RowReplaced, RowNew
    <3>3. slot'[v].gen = slot[v].gen /\ slot'[v].since = slot[v].since
      BY <2>2, <3>1, <3>2 DEF RowEffect, RowFirst, RowMissed, RowSeen
    <3>4. QED
      BY <1>3, <2>2, <2>3, <3>3
  <2>6. QED
    BY <2>2, <2>4, <2>5
    DEF Effect, Quiet, Created, Moved, Expired, RunMoved, RunFailed
<1>4. QED
  BY <1>2, <1>3

\* A poll accepts what is published.
LEMMA PollAccepts ==
    ASSUME ReaderInv, IInv', SourceInv', StockInv', Poll
    PROVE  held' = View' /\ UNCHANGED refused
<1>1. Effect
  BY StepEffect DEF ReaderInv
<1>2. ValidSnapshot(View')
  BY SnapshotIsValidNext
<1>3. held # None => ValidTransition(held, View')
  BY <1>1, HeldStays
<1>4. QED
  BY <1>2, <1>3 DEF Poll

\* The reader holds a valid predecessor after every step and every poll.
LEMMA HeldStep ==
    ASSUME ReaderInv, IInv', SourceInv', StockInv', TraceInv',
           \/ [Next]_vars /\ UNCHANGED <<held, refused>>
           \/ Poll
    PROVE  HeldInv'
<1>1. CASE [Next]_vars /\ UNCHANGED <<held, refused>>
  <2>1. Effect
    BY <1>1, StepEffect DEF ReaderInv
  <2>2. QED
    BY <1>1, <2>1, HeldStays DEF ReaderInv, HeldInv
<1>2. CASE Poll
  <2>1. held' = View' /\ ~refused'
    BY <1>2, PollAccepts DEF ReaderInv, HeldInv
  <2>2. Numbered(View') /\ ValidSnapshot(View') /\ ValidTransition(View', View')
    BY ViewIsNumberedNext, SnapshotIsValidNext, TransitionIsReflexive
  <2>3. ASSUME NEW id \in DOMAIN View'.resources, slot'[id[1]].gen = id[2]
        PROVE  slot'[id[1]].since <= View'.source.committed
    <3>1. Shown'
      BY ViewShowsNext
    <3>2. View'.source # None
      BY <2>2, <2>3 DEF ValidSnapshot
    <3>3. View'.source.committed = committed'
      BY <3>1, <3>2 DEF Shown, SourceShown
    <3>4. id[1] \in Vmids /\ id = <<id[1], id[2]>> /\ id[2] \in Nat
      BY <2>3, <3>1 DEF Shown, StockShown
    <3>5. slot'[id[1]] # None
      BY <2>3, <3>1, <3>4 DEF Shown, StockShown
    <3>6. QED
      BY <3>3, <3>4, <3>5 DEF TraceInv
  <2>4. QED
    BY <2>1, <2>2, <2>3 DEF HeldInv
<1>3. QED
  BY <1>1, <1>2

\* The invariant holds before the first start.
LEMMA InitReader == ReaderInit => ReaderInv
<1> SUFFICES ASSUME ReaderInit PROVE ReaderInv
  OBVIOUS
<1>1. Init /\ IInv
  BY InitIInv DEF ReaderInit
<1>2. SourceInv
  BY <1>1 DEF Init, SourceInv
<1>3. StockInv
  BY <1>1 DEF Init, StockInv
<1>4. TraceInv
  BY <1>1 DEF Init, TraceInv
<1>5. ReadInv
  BY <1>1 DEF Init, ReadInv, NodesRead
<1>6. HeldInv
  BY DEF ReaderInit, HeldInv
<1>7. QED
  BY <1>1, <1>2, <1>3, <1>4, <1>5, <1>6 DEF ReaderInv

-----------------------------------------------------------------------------
(* The theorems.                                                           *)

\* The invariant is inductive: between any two steps of discovery and polls,
\* what is published is valid and succeeds what the reader holds.
THEOREM ReaderInductive == ReaderSpec => []ReaderInv
<1>1. ReaderInv /\ [ReaderNext]_readerVars => ReaderInv'
  <2> SUFFICES ASSUME ReaderInv, [ReaderNext]_readerVars PROVE ReaderInv'
    OBVIOUS
  <2>1. \/ [Next]_vars /\ UNCHANGED <<held, refused>>
        \/ Poll
    BY DEF ReaderNext, readerVars
  <2>2. Effect
    BY <2>1, StepEffect DEF ReaderInv
  <2>3. IInv'
    <3>1. IInv
      BY DEF ReaderInv
    <3>2. CASE [Next]_vars
      BY <3>1, <3>2, TypeStep, OwnerStep, WorkStep, ContextStep, HealthStep,
         FreshStep, ClockStep DEF IInv
    <3>3. CASE Poll
      BY <3>1, <3>3, PollKeeps
    <3>4. QED
      BY <2>1, <3>2, <3>3
  <2>4. SourceInv'
    BY <2>2, SourceStep DEF ReaderInv
  <2>5. StockInv'
    BY <2>2, StockStep DEF ReaderInv
  <2>6. TraceInv'
    BY <2>2, TraceStep DEF ReaderInv
  <2>7. ReadInv'
    BY <2>1, ReadStep DEF ReaderInv
  <2>8. HeldInv'
    BY <2>1, <2>3, <2>4, <2>5, <2>6, HeldStep
  <2>9. QED
    BY <2>3, <2>4, <2>5, <2>6, <2>7, <2>8 DEF ReaderInv
<1>2. QED
  BY <1>1, InitReader, PTL DEF ReaderSpec

\* The reader never refuses a view of its own backend, whatever runs,
\* restarts, edits, expiries and clock changes lie between two polls.
THEOREM NeverRefused == ReaderSpec => []ReaderAccepts
<1>1. ReaderInv => ReaderAccepts
  BY DEF ReaderInv, HeldInv, ReaderAccepts
<1>2. QED
  BY <1>1, ReaderInductive, PTL

\* Whoever reads, and whenever: what is published is valid on its own, and
\* each step leaves a valid successor of what was published before it.
THEOREM ViewsSucceed ==
    ReaderSpec => []ValidSnapshot(View) /\ [][ValidTransition(View, View')]_readerVars
<1> DEFINE Valid == ValidSnapshot(View)
           Step  == ValidTransition(View, View')
<1>1. ReaderInv => Valid
  BY SnapshotIsValid DEF ReaderInv
<1>2. ReaderInv /\ ReaderInv' /\ [ReaderNext]_readerVars => [Step]_readerVars
  <2> SUFFICES ASSUME ReaderInv, ReaderInv', ReaderNext PROVE Step
    OBVIOUS
  <2>1. Effect
    BY StepEffect DEF ReaderNext, ReaderInv
  <2>2. QED
    BY <2>1, StepSucceeds DEF ReaderInv
<1> HIDE DEF Valid, Step
<1>3. ReaderSpec => []Valid /\ [][Step]_readerVars
  BY <1>1, <1>2, ReaderInductive, PTL DEF ReaderSpec
<1>4. QED
  BY <1>3 DEF Valid, Step

\* A resource shown active in two accepted views was in every baseline
\* committed between them, with its type.
THEOREM GapsAreShown == ReaderSpec => NoGapHidden
<1> DEFINE Gap == held # None /\ held' # held =>
                    \A id \in DOMAIN held.resources :
                        held.resources[id].lifecycle = "active"
                          /\ held'.resources[id].lifecycle = "active"
                        => \A i \in DOMAIN log :
                             log[i].run > held.source.committed
                               => /\ Sighted(id[1], i)
                                  /\ KindAt(id[1], i) = held.resources[id].type
<1>1. ReaderInv /\ ReaderInv' /\ [ReaderNext]_readerVars => [Gap]_readerVars
  <2> SUFFICES ASSUME ReaderInv, ReaderInv', ReaderNext, held # None, held' # held,
                      NEW id \in DOMAIN held.resources,
                      held.resources[id].lifecycle = "active",
                      held'.resources[id].lifecycle = "active",
                      NEW i \in DOMAIN log, log[i].run > held.source.committed
               PROVE  Sighted(id[1], i) /\ KindAt(id[1], i) = held.resources[id].type
    BY DEF readerVars
  <2>1. Poll /\ held' = View'
    BY PollAccepts DEF ReaderNext, ReaderInv
  <2>2. View'.resources = View.resources
    <3>1. StockStays
      BY <2>1 DEF Poll, StockStays, stock
    <3>2. QED
      BY <3>1, SameStock
  <2>3. Numbered(held) /\ ValidSnapshot(held) /\ ValidTransition(held, View)
    BY DEF ReaderInv, HeldInv
  <2>4. /\ id \in DOMAIN View.resources
        /\ View.resources[id].type = held.resources[id].type
    BY <2>3 DEF ValidTransition, ValidResourceStep
  <2>5. PICK v \in Vmids, g \in Nat :
           /\ id = <<v, g>> /\ slot[v] \in Slots /\ slot[v] # None
           /\ \/ g = slot[v].gen /\ View.resources[id] = CurrentResource(v)
              \/ View.resources[id] = RetiredResource(v, g)
    BY <2>4, ShownResource DEF ReaderInv
  <2>6. View.resources[id].lifecycle = "active"
    BY <2>1, <2>2
  <2>7. RetiredResource(v, g).lifecycle = "retired"
    BY DEF RetiredResource
  <2>8. g = slot[v].gen /\ View.resources[id] = CurrentResource(v)
    BY <2>5, <2>6, <2>7
  <2>9. slot[v].lifecycle = "active" /\ slot[v].type = held.resources[id].type
    BY <2>4, <2>6, <2>8 DEF CurrentResource
  <2>10. slot[v].since <= held.source.committed
    BY <2>5, <2>8 DEF ReaderInv, HeldInv
  <2>11. held.source.committed \in Nat
    <3>1. held.source # None
      BY <2>3 DEF ValidSnapshot
    <3>2. held.source \in SourceViews
      BY <2>3, <3>1 DEF Numbered
    <3>3. QED
      BY <3>2 DEF SourceViews
  <2>12. log[i].run \in Nat
    <3>1. log \in Seq(Baseline)
      BY DEF ReaderInv, IInv, ClockInv
    <3>2. log[i] \in Baseline
      BY <3>1
    <3>3. QED
      BY <3>2 DEF Baseline, Runs
  <2>13. slot[v].since \in Nat
    BY <2>5 DEF Slots
  <2>14. log[i].run >= slot[v].since
    BY <2>10, <2>11, <2>12, <2>13
  <2>15. QED
    BY <2>5, <2>9, <2>14 DEF ReaderInv, TraceInv
<1>2. QED
  BY <1>1, ReaderInductive, PTL DEF ReaderSpec, NoGapHidden
=============================================================================
