------------------------- MODULE ProductUpdateProofs -------------------------
(***************************************************************************)
(* Proofs about the product updater, for every set of plans and            *)
(* installations and every number of runs and faults: each run ends in one *)
(* whole installation (EndsWhole), the maintenance fence is there for      *)
(* exactly as long as a run needs it (FenceIsTheRuns), and a replayed      *)
(* rollback keeps what the restored service wrote (WritesSurvive).         *)
(*                                                                         *)
(* The argument.  While a journal is active, the journaled ledger is an    *)
(* upper bound of what was touched, and every state a power loss may leave *)
(* a path in can be undone (LedgerInv); boot activation is away whenever   *)
(* something was touched and the run has not restored it (BootInv).        *)
(* Forwards, an artifact is untouched, in hand or new (SwapInv, SwapHand); *)
(* backwards, it is still to be undone, in hand or back (UndoneInv,        *)
(* UndoHand).  The rest follows from where the process is (PcInv).         *)
(***************************************************************************)
EXTENDS ProductUpdate, TLAPS

\* What the updater works on.
Things == Artifacts \cup {"db"}

\* The operation o is among those still to do.
Todo(t, o) == \E i \in 1..Len(t) : t[i] = o

\* Whatever a power loss makes of it, the artifact is the old or the new one.
ArtOld(a) == \A s \in may[a] : s.live = OldLive(a)
ArtNew(a) == \A s \in may[a] : s.live = "new"
DbOld     == mayDb \subseteq {"old", "oldw"}

\* The journal arms the rollback of the artifact.
Attempted(a) == MarkerOf(a) \in journal.ledger

\* A rollback finds the way back from s: the old content is live or preserved.
Fixable(a, s) == OldLive(a) = "none" \/ s.live = "old" \/ s.rb = "old"

\* Whatever a power loss makes of it, the artifact can be undone, and it is
\* untouched unless its attempt was journaled.
Safe(a) == \A s \in may[a] : Fixable(a, s) /\ (Attempted(a) \/ s.live = OldLive(a))

\* The artifact in hand, with operations left to do.
InHand(a) == a = art /\ todo # <<>>

\* Before the fence, after the acceptance, while the window is open, and on
\* the way back.
Early    == {"begun", "planned", "fencewait"}
Accepted == {"enable", "enabled", "completing"}
Window   == {"disabling", "disabled", "stop", "stopping", "swap", "start", "mark"} \cup Accepted
Backward == {"rbstop", "rb", "rbsync", "rbstart", "rbdone"}

----------------------------------------------------------------------------
(* The inductive invariant.                                                *)

\* Where the process is and what its journal says go together.
PcInv ==
    /\ journal.state = "none" <=> journal = NoJournal
    /\ journal # NoJournal => journal.run = runs /\ runs > 0
    /\ pc \in {"off", "done"} \/ (journal # NoJournal /\ ledger = journal.ledger)
    /\ pc \in Early => journal.state = "active" /\ journal.ledger = {}
    /\ pc = "disable" => journal.state = "active" /\ journal.ledger = {"fenceheld"}
    /\ pc \in {"disabling", "disabled", "stop"} => journal.ledger = {"fenceheld", "autostart"}
    /\ pc = "stopping" => journal.ledger = {"fenceheld", "autostart", "stop"}
    /\ pc \in Window => journal.state = "active" /\ journal.armed
                        /\ "restored" \notin journal.ledger
    /\ pc \in Backward => journal.state = "active" /\ journal.armed
    /\ pc \in {"trap", "untouched"} => journal.state = "active"
    /\ pc = "untouched" => ~journal.armed
    /\ pc \in {"release1", "cleanup1"} => journal.state = "completed"
    /\ pc \in {"cleanup2", "release2", "clear"} => journal.state \in {"completed", "recovered"}
    /\ pc = "done" => journal = NoJournal
    /\ pc \in {"planned", "fencewait", "disable"} \/ journal.armed => plan \in Plans
    /\ IF journal.armed THEN {"autostart", "fenceheld"} \subseteq journal.ledger
       ELSE journal.ledger \subseteq {"fenceheld"}
    /\ pc \in {"swap", "mark", "rb"} \/ todo = <<>>

\* While the journal is active, its ledger names every artifact that may have
\* been touched, and whatever was touched can be undone.
LedgerInv ==
    journal.state = "active" =>
        /\ \A a \in Artifacts : Safe(a)
        /\ "unit" \in journal.ledger \/ loaded = "old"
        /\ "marker-absent" \in journal.ledger <=> "marker" \in journal.ledger /\ ~MarkerExisted
        /\ "db" \in journal.ledger \/ (mayDb = {"old"} /\ "restored" \notin journal.ledger)
        /\ "restored" \in journal.ledger => DbOld
        /\ db = "oldw" => "restored" \in journal.ledger

\* Boot activation: away from before the first swap until the run restores it.
BootInv ==
    /\ journal.state = "active" /\ ~reenabled /\ TRUE \in mayEnable =>
          journal.ledger \cap Things = {}
    /\ pc = "disabled" => enable = FALSE
    /\ pc \in {"stop", "stopping", "swap", "start", "mark", "enable"} => mayEnable = {FALSE}
    /\ pc \in {"enabled", "completing", "rbsync", "rbstart", "rbdone"} => reenabled /\ enable
    /\ pc \in {"completing", "rbstart", "rbdone"} => mayEnable = {TRUE}
    /\ ran = "mixed" => reenabled

\* Nothing of the target was touched, or everything was undone.
Calm == \/ journal.state \in {"none", "recovered"} /\ pc # "done"
        \/ journal.state = "active" /\ ~journal.armed
        \/ journal.state = "completed" /\ plan = NoPlan

\* Where nothing is touched the old service runs; what it wrote is the only
\* state of the database.
CalmInv ==
    /\ Calm => OldForSure /\ ran = "old" /\ loaded = "old" /\ (~OldHasRoute => ~job)
    /\ "oldw" \in mayDb => mayDb = {"oldw"}

\* The target was accepted and recorded as complete.
DoneInv ==
    (journal.state = "completed" /\ plan # NoPlan) \/ pc = "done" =>
        NewForSure /\ reenabled /\ plan \in Plans

\* Forwards: an artifact of the plan is untouched, in hand or new; what was
\* accepted is new and gets durable file system by file system.
SwapInv ==
    /\ pc = "swap" => left \subseteq ToSwap /\ (todo # <<>> => art \in ToSwap)
    /\ pc = "mark" => left \subseteq {"marker"} /\ (todo # <<>> => art = "marker")
    /\ pc \in {"swap", "mark"} =>
          /\ \A a \in left \cap Artifacts : ArtOld(a)
          /\ todo # <<>> => art \notin left
    /\ pc \in {"swap", "start"} => ArtOld("marker") /\ (plan.reset \/ "db" \notin journal.ledger)
    /\ pc = "swap" =>
          /\ \A a \in plan.changed : a \in left \/ InHand(a) \/ now[a].live = "new"
          /\ plan.reset => "db" \in left \/ InHand("db") \/ db = "none"
          /\ "db" \in left => "db" \notin journal.ledger
          /\ InHand("unit") \/ loaded = now["unit"].live
    /\ pc = "start" => loaded = now["unit"].live /\ (plan.reset => db = "none")
    /\ pc \in {"start", "mark"} \cup Accepted => \A a \in plan.changed : now[a].live = "new"
    /\ pc = "mark" => "marker" \in left \/ InHand("marker") \/ now["marker"].live = "new"
    /\ pc \in {"mark"} \cup Accepted => (plan.reset => db = "new")
    /\ pc \in Accepted =>
          /\ now["marker"].live = "new"
          /\ \A a \in plan.changed \cup {"marker"} :
                FsOf(a) = "opt" \/ (pc = "completing" /\ FsOf(a) = "etc") => ArtNew(a)
          /\ plan.reset => mayDb = {"new"}

\* What may be left to do of the operations that activate an artifact.
SwapLeft(a) ==
    CASE a = "app" \/ (a = "marker" /\ MarkerExisted) ->
           {<<"record", "aside", "sync", "activate">>,
            <<"aside", "sync", "activate">>, <<"sync", "activate">>, <<"activate">>}
      [] a = "venv" ->
           {<<"record", "aside", "sync", "build", "activate">>,
            <<"aside", "sync", "build", "activate">>,
            <<"sync", "build", "activate">>, <<"build", "activate">>, <<"activate">>}
      [] a = "req" ->
           {<<"aside", "sync", "activate">>, <<"sync", "activate">>, <<"activate">>}
      [] a = "unit" ->
           {<<"preserve", "sync", "record", "activate", "reload">>,
            <<"sync", "record", "activate", "reload">>,
            <<"record", "activate", "reload">>, <<"activate", "reload">>,
            <<"reload">>}
      [] a = "access" ->
           {<<"record", "activate", "sync">>, <<"activate", "sync">>, <<"sync">>}
      [] a = "config" ->
           {<<"preserve", "sync", "record", "build", "activate", "sync">>,
            <<"sync", "record", "build", "activate", "sync">>,
            <<"record", "build", "activate", "sync">>,
            <<"build", "activate", "sync">>, <<"activate", "sync">>, <<"sync">>}
      [] a = "db" ->
           {<<"backup", "record", "erase", "erased">>,
            <<"record", "erase", "erased">>, <<"erase", "erased">>, <<"erased">>}
      [] a = "marker" /\ ~MarkerExisted ->
           {<<"record", "activate">>, <<"activate">>}
      [] OTHER ->
           {<<"preserve", "sync", "record", "activate">>,
            <<"sync", "record", "activate">>, <<"record", "activate">>,
            <<"activate">>}

\* The artifact in hand, forwards: untouched until its attempt is journaled,
\* preserved before it is replaced.
SwapHand ==
    pc \in {"swap", "mark"} /\ todo # <<>> =>
        /\ todo \in SwapLeft(art)
        /\ Todo(todo, "record") \/ Attempted(art)
        /\ art = "db" /\ Todo(todo, "record") => "db" \notin journal.ledger
        /\ art # "db" =>
              /\ Todo(todo, "record") \/ Todo(todo, "aside") \/ Todo(todo, "preserve") => ArtOld(art)
              /\ \/ Todo(todo, "aside") \/ Todo(todo, "preserve")
                 \/ OldLive(art) = "none" \/ now[art].rb = "old"
              /\ Todo(todo, "activate") \/ now[art].live = "new"

\* Backwards: the artifact holds its old content, durably unless the host's
\* next checkpoint makes it so.
Back(a) == now[a].live = OldLive(a) /\ (FsOf(a) = "host" \/ ArtOld(a))

\* An artifact is still to be undone, in hand or back.
UndoneInv ==
    /\ pc = "rb" =>
          /\ \A a \in left : Attempted(a)
          /\ \A a \in Artifacts : a \in left \/ InHand(a) \/ Back(a)
          /\ "unit" \in left \/ InHand("unit") \/ loaded = "old"
          /\ "db" \in left \/ InHand("db") \/ DbOld
          /\ todo # <<>> => art \notin left
    /\ pc \in {"rbsync", "rbstart", "rbdone"} =>
          (\A a \in Artifacts : Back(a)) /\ loaded = "old" /\ DbOld
    /\ pc = "rbdone" => ran = "old"

\* What may be left to do of the operations that undo an artifact.
UndoLeft(a) ==
    CASE a = "unit" ->
           {<<"remove", "restore", "sync", "reload">>,
            <<"restore", "sync", "reload">>, <<"sync", "reload">>, <<"reload">>}
      [] a \in {"helper", "boundary"} ->
           {<<"replace", "sync">>, <<"sync">>}
      [] a = "access" ->
           {<<"remove">>}
      [] a = "config" ->
           {<<"build", "replace", "sync">>, <<"replace", "sync">>, <<"sync">>}
      [] a = "marker" /\ ~MarkerExisted ->
           {<<"remove", "sync">>, <<"sync">>}
      [] OTHER ->
           {<<"remove", "restore", "sync">>, <<"restore", "sync">>, <<"sync">>}

\* What may be left to do of the restoration of the database.
DbLeft ==
    {<<"erase", "erased", "copy", "copied", "sync", "lineage", "restored">>,
     <<"erased", "copy", "copied", "sync", "lineage", "restored">>,
     <<"copy", "copied", "sync", "lineage", "restored">>,
     <<"copied", "sync", "lineage", "restored">>, <<"sync", "lineage", "restored">>,
     <<"lineage", "restored">>, <<"restored">>}

\* The artifact in hand, backwards.
UndoHand ==
    pc = "rb" /\ todo # <<>> =>
        /\ Attempted(art)
        /\ art # "db" =>
              /\ todo \in UndoLeft(art)
              /\ Todo(todo, "restore") \/ Todo(todo, "replace") => now[art].rb = "old"
              /\ \/ Todo(todo, "restore") \/ Todo(todo, "replace") \/ Todo(todo, "remove")
                 \/ now[art].live = OldLive(art)
              /\ Todo(todo, "sync") \/ Todo(todo, "remove") \/ ArtOld(art)
        /\ art = "db" =>
              \/ todo = <<"lineage">> /\ "restored" \in journal.ledger
              \/ /\ todo \in DbLeft /\ "restored" \notin journal.ledger
                 /\ Todo(todo, "copied") \/ db = "old"
                 /\ Todo(todo, "sync") \/ mayDb = {"old"}

\* The fence: asked for in the name of the running run, held by it from the
\* answer on, and, unless an interrupted client leaves a request behind,
\* nowhere else.
FenceInv ==
    /\ "fenceheld" \in journal.ledger /\ journal.state = "active" =>
          mayFence = {journal.run} /\ ~job
    /\ pc = "fencewait" /\ ans = "ok" => mayFence = {journal.run} /\ ~job
    /\ pc = "fencewait" /\ req # 0 => req = journal.run /\ ans = "none"
    /\ req # 0 => OldHasRoute
    /\ ~ClientMayDie =>
          /\ NoOrphanFence
          /\ req # 0 => req = journal.run /\ pc \in {"off", "fencewait"}
          /\ pc \in {"begun", "planned", "cleanup1", "clear"} => mayFence = {0}

\* The inductive invariant.
IInv == TypeOK /\ PcInv /\ LedgerInv /\ BootInv /\ CalmInv /\ DoneInv /\ SwapInv /\ SwapHand
        /\ UndoneInv /\ UndoHand /\ FenceInv

----------------------------------------------------------------------------
(* Sequences of operations.                                                *)

\* The operations of a sequence of none.
LEMMA TodoNone ==
    ASSUME NEW o
    PROVE  Todo(<<>>, o) <=> FALSE
  BY DEF Todo

\* The operations of a sequence of one.
LEMMA TodoOne ==
    ASSUME NEW x, NEW o
    PROVE  Todo(<<x>>, o) <=> o = x
  BY DEF Todo

\* The operations of a sequence of two.
LEMMA TodoTwo ==
    ASSUME NEW x, NEW y, NEW o
    PROVE  Todo(<<x, y>>, o) <=> o \in {x, y}
  BY DEF Todo

\* The operations of a sequence of three.
LEMMA TodoThree ==
    ASSUME NEW x, NEW y, NEW z, NEW o
    PROVE  Todo(<<x, y, z>>, o) <=> o \in {x, y, z}
  BY DEF Todo

\* The operations of a sequence of four.
LEMMA TodoFour ==
    ASSUME NEW x, NEW y, NEW z, NEW u, NEW o
    PROVE  Todo(<<x, y, z, u>>, o) <=> o \in {x, y, z, u}
  BY DEF Todo

\* The operations of a sequence of five.
LEMMA TodoFive ==
    ASSUME NEW x, NEW y, NEW z, NEW u, NEW v, NEW o
    PROVE  Todo(<<x, y, z, u, v>>, o) <=> o \in {x, y, z, u, v}
  BY DEF Todo

\* The operations of a sequence of six.
LEMMA TodoSix ==
    ASSUME NEW x, NEW y, NEW z, NEW u, NEW v, NEW w, NEW o
    PROVE  Todo(<<x, y, z, u, v, w>>, o) <=> o \in {x, y, z, u, v, w}
  BY DEF Todo

\* The operations of a sequence of seven.
LEMMA TodoSeven ==
    ASSUME NEW x, NEW y, NEW z, NEW u, NEW v, NEW w, NEW r, NEW o
    PROVE  Todo(<<x, y, z, u, v, w, r>>, o) <=> o \in {x, y, z, u, v, w, r}
  BY DEF Todo

\* The shape of what is left to do forwards: the attempt is journaled and the
\* original set aside or copied before the live path changes.
SwapShape(a, t) ==
    /\ Tail(t) = <<>> \/ Tail(t) \in SwapLeft(a)
    /\ \A o : Todo(t, o) <=> o = Head(t) \/ Todo(Tail(t), o)
    /\ IF a = "db" THEN Head(t) \in {"backup", "record", "erase", "erased"}
       ELSE Head(t) \in {"record", "aside", "preserve", "sync", "build", "activate", "reload"}
    /\ Head(t) \in {"aside", "preserve"} => OldLive(a) = "old"
    /\ Head(t) = "aside" => ~Todo(t, "record") /\ ~Todo(Tail(t), "aside")
                            /\ ~Todo(Tail(t), "preserve")
    /\ Head(t) \in {"build", "activate"} =>
          ~Todo(t, "record") /\ ~Todo(t, "aside") /\ ~Todo(t, "preserve")
    /\ Head(t) = "build" => Todo(Tail(t), "activate")
    /\ Head(t) = "reload" => a = "unit" /\ ~Todo(t, "record")
    /\ Head(t) \in {"erase", "erased"} => ~Todo(t, "record")
    /\ Head(t) = "record" => ~Todo(Tail(t), "record")
    /\ Tail(t) = <<>> => /\ a = "unit" => Head(t) = "reload"
                         /\ a = "db" => Head(t) = "erased"
                         /\ a # "db" => Head(t) \in {"activate", "sync", "reload"}

\* Whatever is left to do forwards has that shape.
LEMMA SwapLeftShape ==
    ASSUME NEW a \in Things, NEW t \in SwapLeft(a), install.marker \in BOOLEAN
    PROVE  SwapShape(a, t)
<1>1. CASE a = "app" \/ (a = "marker" /\ MarkerExisted)
  <2>1. SwapLeft(a) = {<<"record", "aside", "sync", "activate">>, <<"aside", "sync", "activate">>,
         <<"sync", "activate">>, <<"activate">>}
    BY <1>1 DEF SwapLeft, MarkerExisted
  <2>2. OldLive(a) = "old"
    BY <1>1 DEF OldLive, MarkerExisted
  <2>3. CASE t = <<"record", "aside", "sync", "activate">>
    BY <1>1, <2>1, <2>2, <2>3, TodoFour, TodoThree DEF SwapShape
  <2>4. CASE t = <<"aside", "sync", "activate">>
    BY <1>1, <2>1, <2>2, <2>4, TodoThree, TodoTwo DEF SwapShape
  <2>5. CASE t = <<"sync", "activate">>
    BY <1>1, <2>1, <2>2, <2>5, TodoTwo, TodoOne DEF SwapShape
  <2>6. CASE t = <<"activate">>
    BY <1>1, <2>1, <2>2, <2>6, TodoOne, TodoNone DEF SwapShape
  <2> QED
    BY <2>1, <2>3, <2>4, <2>5, <2>6
<1>2. CASE a = "venv"
  <2>1. SwapLeft(a) = {<<"record", "aside", "sync", "build", "activate">>,
         <<"aside", "sync", "build", "activate">>, <<"sync", "build", "activate">>,
         <<"build", "activate">>, <<"activate">>}
    BY <1>2 DEF SwapLeft, MarkerExisted
  <2>2. OldLive(a) = "old"
    BY <1>2 DEF OldLive, Things, Artifacts
  <2>3. CASE t = <<"record", "aside", "sync", "build", "activate">>
    BY <1>2, <2>1, <2>2, <2>3, TodoFive, TodoFour DEF SwapShape
  <2>4. CASE t = <<"aside", "sync", "build", "activate">>
    BY <1>2, <2>1, <2>2, <2>4, TodoFour, TodoThree DEF SwapShape
  <2>5. CASE t = <<"sync", "build", "activate">>
    BY <1>2, <2>1, <2>2, <2>5, TodoThree, TodoTwo DEF SwapShape
  <2>6. CASE t = <<"build", "activate">>
    BY <1>2, <2>1, <2>2, <2>6, TodoTwo, TodoOne DEF SwapShape
  <2>7. CASE t = <<"activate">>
    BY <1>2, <2>1, <2>2, <2>7, TodoOne, TodoNone DEF SwapShape
  <2> QED
    BY <2>1, <2>3, <2>4, <2>5, <2>6, <2>7
<1>3. CASE a = "req"
  <2>1. SwapLeft(a) = {<<"aside", "sync", "activate">>, <<"sync", "activate">>, <<"activate">>}
    BY <1>3 DEF SwapLeft, MarkerExisted
  <2>2. OldLive(a) = "old"
    BY <1>3 DEF OldLive, Things, Artifacts
  <2>3. CASE t = <<"aside", "sync", "activate">>
    BY <1>3, <2>1, <2>2, <2>3, TodoThree, TodoTwo DEF SwapShape
  <2>4. CASE t = <<"sync", "activate">>
    BY <1>3, <2>1, <2>2, <2>4, TodoTwo, TodoOne DEF SwapShape
  <2>5. CASE t = <<"activate">>
    BY <1>3, <2>1, <2>2, <2>5, TodoOne, TodoNone DEF SwapShape
  <2> QED
    BY <2>1, <2>3, <2>4, <2>5
<1>4. CASE a = "unit"
  <2>1. SwapLeft(a) = {<<"preserve", "sync", "record", "activate", "reload">>,
         <<"sync", "record", "activate", "reload">>,
         <<"record", "activate", "reload">>, <<"activate", "reload">>, <<"reload">>}
    BY <1>4 DEF SwapLeft, MarkerExisted
  <2>2. OldLive(a) = "old"
    BY <1>4 DEF OldLive, Things, Artifacts
  <2>3. CASE t = <<"preserve", "sync", "record", "activate", "reload">>
    BY <1>4, <2>1, <2>2, <2>3, TodoFive, TodoFour DEF SwapShape
  <2>4. CASE t = <<"sync", "record", "activate", "reload">>
    BY <1>4, <2>1, <2>2, <2>4, TodoFour, TodoThree DEF SwapShape
  <2>5. CASE t = <<"record", "activate", "reload">>
    BY <1>4, <2>1, <2>2, <2>5, TodoThree, TodoTwo DEF SwapShape
  <2>6. CASE t = <<"activate", "reload">>
    BY <1>4, <2>1, <2>2, <2>6, TodoTwo, TodoOne DEF SwapShape
  <2>7. CASE t = <<"reload">>
    BY <1>4, <2>1, <2>2, <2>7, TodoOne, TodoNone DEF SwapShape
  <2> QED
    BY <2>1, <2>3, <2>4, <2>5, <2>6, <2>7
<1>5. CASE a = "access"
  <2>1. SwapLeft(a) = {<<"record", "activate", "sync">>, <<"activate", "sync">>, <<"sync">>}
    BY <1>5 DEF SwapLeft, MarkerExisted
  <2>2. OldLive(a) = "none"
    BY <1>5 DEF OldLive, Things, Artifacts
  <2>3. CASE t = <<"record", "activate", "sync">>
    BY <1>5, <2>1, <2>2, <2>3, TodoThree, TodoTwo DEF SwapShape
  <2>4. CASE t = <<"activate", "sync">>
    BY <1>5, <2>1, <2>2, <2>4, TodoTwo, TodoOne DEF SwapShape
  <2>5. CASE t = <<"sync">>
    BY <1>5, <2>1, <2>2, <2>5, TodoOne, TodoNone DEF SwapShape
  <2> QED
    BY <2>1, <2>3, <2>4, <2>5
<1>6. CASE a = "config"
  <2>1. SwapLeft(a) = {<<"preserve", "sync", "record", "build", "activate", "sync">>,
         <<"sync", "record", "build", "activate", "sync">>,
         <<"record", "build", "activate", "sync">>, <<"build", "activate", "sync">>,
         <<"activate", "sync">>, <<"sync">>}
    BY <1>6 DEF SwapLeft, MarkerExisted
  <2>2. OldLive(a) = "old"
    BY <1>6 DEF OldLive, Things, Artifacts
  <2>3. CASE t = <<"preserve", "sync", "record", "build", "activate", "sync">>
    BY <1>6, <2>1, <2>2, <2>3, TodoSix, TodoFive DEF SwapShape
  <2>4. CASE t = <<"sync", "record", "build", "activate", "sync">>
    BY <1>6, <2>1, <2>2, <2>4, TodoFive, TodoFour DEF SwapShape
  <2>5. CASE t = <<"record", "build", "activate", "sync">>
    BY <1>6, <2>1, <2>2, <2>5, TodoFour, TodoThree DEF SwapShape
  <2>6. CASE t = <<"build", "activate", "sync">>
    BY <1>6, <2>1, <2>2, <2>6, TodoThree, TodoTwo DEF SwapShape
  <2>7. CASE t = <<"activate", "sync">>
    BY <1>6, <2>1, <2>2, <2>7, TodoTwo, TodoOne DEF SwapShape
  <2>8. CASE t = <<"sync">>
    BY <1>6, <2>1, <2>2, <2>8, TodoOne, TodoNone DEF SwapShape
  <2> QED
    BY <2>1, <2>3, <2>4, <2>5, <2>6, <2>7, <2>8
<1>7. CASE a = "db"
  <2>1. SwapLeft(a) = {<<"backup", "record", "erase", "erased">>, <<"record", "erase", "erased">>,
         <<"erase", "erased">>, <<"erased">>}
    BY <1>7 DEF SwapLeft, MarkerExisted
  <2>2. OldLive(a) = "old"
    BY <1>7 DEF OldLive, Things, Artifacts
  <2>3. CASE t = <<"backup", "record", "erase", "erased">>
    BY <1>7, <2>1, <2>2, <2>3, TodoFour, TodoThree DEF SwapShape
  <2>4. CASE t = <<"record", "erase", "erased">>
    BY <1>7, <2>1, <2>2, <2>4, TodoThree, TodoTwo DEF SwapShape
  <2>5. CASE t = <<"erase", "erased">>
    BY <1>7, <2>1, <2>2, <2>5, TodoTwo, TodoOne DEF SwapShape
  <2>6. CASE t = <<"erased">>
    BY <1>7, <2>1, <2>2, <2>6, TodoOne, TodoNone DEF SwapShape
  <2> QED
    BY <2>1, <2>3, <2>4, <2>5, <2>6
<1>8. CASE a = "marker" /\ ~MarkerExisted
  <2>1. SwapLeft(a) = {<<"record", "activate">>, <<"activate">>}
    BY <1>8 DEF SwapLeft, MarkerExisted
  <2>2. OldLive(a) = "none"
    BY <1>8 DEF OldLive, MarkerExisted
  <2>3. CASE t = <<"record", "activate">>
    BY <1>8, <2>1, <2>2, <2>3, TodoTwo, TodoOne DEF SwapShape
  <2>4. CASE t = <<"activate">>
    BY <1>8, <2>1, <2>2, <2>4, TodoOne, TodoNone DEF SwapShape
  <2> QED
    BY <2>1, <2>3, <2>4
<1>9. CASE a \in {"helper", "boundary"}
  <2>1. SwapLeft(a) = {<<"preserve", "sync", "record", "activate">>,
         <<"sync", "record", "activate">>, <<"record", "activate">>, <<"activate">>}
    BY <1>9 DEF SwapLeft, MarkerExisted
  <2>2. OldLive(a) = "old"
    BY <1>9 DEF OldLive, Things, Artifacts
  <2>3. CASE t = <<"preserve", "sync", "record", "activate">>
    BY <1>9, <2>1, <2>2, <2>3, TodoFour, TodoThree DEF SwapShape
  <2>4. CASE t = <<"sync", "record", "activate">>
    BY <1>9, <2>1, <2>2, <2>4, TodoThree, TodoTwo DEF SwapShape
  <2>5. CASE t = <<"record", "activate">>
    BY <1>9, <2>1, <2>2, <2>5, TodoTwo, TodoOne DEF SwapShape
  <2>6. CASE t = <<"activate">>
    BY <1>9, <2>1, <2>2, <2>6, TodoOne, TodoNone DEF SwapShape
  <2> QED
    BY <2>1, <2>3, <2>4, <2>5, <2>6
<1> QED
  BY <1>1, <1>2, <1>3, <1>4, <1>5, <1>6, <1>7, <1>8, <1>9 DEF Things, Artifacts, MarkerExisted

\* Where the work on an artifact begins forwards.
LEMMA SwapBegins ==
    ASSUME NEW a \in Things, install.marker \in BOOLEAN
    PROVE  /\ SwapOps(a) \in SwapLeft(a) /\ SwapOps(a) # <<>>
           /\ a = "req" \/ Todo(SwapOps(a), "record")
           /\ a = "db" \/ Todo(SwapOps(a), "activate")
           /\ \/ a = "db" \/ OldLive(a) = "none"
              \/ Todo(SwapOps(a), "aside") \/ Todo(SwapOps(a), "preserve")
<1>1. CASE a = "app" \/ (a = "marker" /\ MarkerExisted)
  <2>1. SwapOps(a) = <<"record", "aside", "sync", "activate">>
    BY <1>1 DEF SwapOps, PayloadOps, MarkerOps, MarkerExisted
  <2>2. <<"record", "aside", "sync", "activate">> \in SwapLeft(a)
    BY <1>1 DEF SwapLeft, MarkerExisted
  <2>3. Todo(SwapOps(a), "record") /\ Todo(SwapOps(a), "activate") /\ Todo(SwapOps(a), "aside")
    BY <2>1, TodoFour
  <2>4. SwapOps(a) # <<>>
    BY <2>1
  <2> QED
    BY <1>1, <2>1, <2>2, <2>3, <2>4
<1>2. CASE a = "venv"
  <2>1. SwapOps(a) = <<"record", "aside", "sync", "build", "activate">>
    BY <1>2 DEF SwapOps, VenvOps, MarkerExisted
  <2>2. <<"record", "aside", "sync", "build", "activate">> \in SwapLeft(a)
    BY <1>2 DEF SwapLeft, MarkerExisted
  <2>3. Todo(SwapOps(a), "record") /\ Todo(SwapOps(a), "activate") /\ Todo(SwapOps(a), "aside")
    BY <2>1, TodoFive
  <2>4. SwapOps(a) # <<>>
    BY <2>1
  <2> QED
    BY <1>2, <2>1, <2>2, <2>3, <2>4
<1>3. CASE a = "req"
  <2>1. SwapOps(a) = <<"aside", "sync", "activate">>
    BY <1>3 DEF SwapOps, PayloadOps, MarkerExisted
  <2>2. <<"aside", "sync", "activate">> \in SwapLeft(a)
    BY <1>3 DEF SwapLeft, MarkerExisted
  <2>3. Todo(SwapOps(a), "activate") /\ Todo(SwapOps(a), "aside")
    BY <2>1, TodoThree
  <2>4. SwapOps(a) # <<>>
    BY <2>1
  <2> QED
    BY <1>3, <2>1, <2>2, <2>3, <2>4
<1>4. CASE a = "unit"
  <2>1. SwapOps(a) = <<"preserve", "sync", "record", "activate", "reload">>
    BY <1>4 DEF SwapOps, UnitOps, MarkerExisted
  <2>2. <<"preserve", "sync", "record", "activate", "reload">> \in SwapLeft(a)
    BY <1>4 DEF SwapLeft, MarkerExisted
  <2>3. Todo(SwapOps(a), "record") /\ Todo(SwapOps(a), "activate") /\ Todo(SwapOps(a), "preserve")
    BY <2>1, TodoFive
  <2>4. SwapOps(a) # <<>>
    BY <2>1
  <2> QED
    BY <1>4, <2>1, <2>2, <2>3, <2>4
<1>5. CASE a = "access"
  <2>1. SwapOps(a) = <<"record", "activate", "sync">>
    BY <1>5 DEF SwapOps, AccessOps, MarkerExisted
  <2>2. <<"record", "activate", "sync">> \in SwapLeft(a)
    BY <1>5 DEF SwapLeft, MarkerExisted
  <2>3. Todo(SwapOps(a), "record") /\ Todo(SwapOps(a), "activate")
    BY <2>1, TodoThree
  <2>4. SwapOps(a) # <<>>
    BY <2>1
  <2>5. OldLive(a) = "none"
    BY <1>5 DEF OldLive, MarkerExisted
  <2> QED
    BY <1>5, <2>1, <2>2, <2>3, <2>4, <2>5
<1>6. CASE a = "config"
  <2>1. SwapOps(a) = <<"preserve", "sync", "record", "build", "activate", "sync">>
    BY <1>6 DEF SwapOps, ConfigOps, MarkerExisted
  <2>2. <<"preserve", "sync", "record", "build", "activate", "sync">> \in SwapLeft(a)
    BY <1>6 DEF SwapLeft, MarkerExisted
  <2>3. Todo(SwapOps(a), "record") /\ Todo(SwapOps(a), "activate") /\ Todo(SwapOps(a), "preserve")
    BY <2>1, TodoSix
  <2>4. SwapOps(a) # <<>>
    BY <2>1
  <2> QED
    BY <1>6, <2>1, <2>2, <2>3, <2>4
<1>7. CASE a = "db"
  <2>1. SwapOps(a) = <<"backup", "record", "erase", "erased">>
    BY <1>7 DEF SwapOps, ResetOps, MarkerExisted
  <2>2. <<"backup", "record", "erase", "erased">> \in SwapLeft(a)
    BY <1>7 DEF SwapLeft, MarkerExisted
  <2>3. Todo(SwapOps(a), "record")
    BY <2>1, TodoFour
  <2>4. SwapOps(a) # <<>>
    BY <2>1
  <2> QED
    BY <1>7, <2>1, <2>2, <2>3, <2>4
<1>8. CASE a = "marker" /\ ~MarkerExisted
  <2>1. SwapOps(a) = <<"record", "activate">>
    BY <1>8 DEF SwapOps, MarkerOps, MarkerExisted
  <2>2. <<"record", "activate">> \in SwapLeft(a)
    BY <1>8 DEF SwapLeft, MarkerExisted
  <2>3. Todo(SwapOps(a), "record") /\ Todo(SwapOps(a), "activate")
    BY <2>1, TodoTwo
  <2>4. SwapOps(a) # <<>>
    BY <2>1
  <2>5. OldLive(a) = "none"
    BY <1>8 DEF OldLive, MarkerExisted
  <2> QED
    BY <1>8, <2>1, <2>2, <2>3, <2>4, <2>5
<1>9. CASE a \in {"helper", "boundary"}
  <2>1. SwapOps(a) = <<"preserve", "sync", "record", "activate">>
    BY <1>9 DEF SwapOps, HelperOps, MarkerExisted
  <2>2. <<"preserve", "sync", "record", "activate">> \in SwapLeft(a)
    BY <1>9 DEF SwapLeft, MarkerExisted
  <2>3. Todo(SwapOps(a), "record") /\ Todo(SwapOps(a), "activate") /\ Todo(SwapOps(a), "preserve")
    BY <2>1, TodoFour
  <2>4. SwapOps(a) # <<>>
    BY <2>1
  <2> QED
    BY <1>9, <2>1, <2>2, <2>3, <2>4
<1> QED
  BY <1>1, <1>2, <1>3, <1>4, <1>5, <1>6, <1>7, <1>8, <1>9 DEF Things, Artifacts, MarkerExisted

\* The shape of what is left to do backwards: the live path is given up only
\* where the original is preserved or there was none.
UndoShape(a, t) ==
    /\ Tail(t) = <<>> \/ Tail(t) \in UndoLeft(a)
    /\ \A o : Todo(t, o) <=> o = Head(t) \/ Todo(Tail(t), o)
    /\ Head(t) \in {"remove", "restore", "replace", "build", "sync", "reload"}
    /\ Head(t) = "remove" => OldLive(a) = "none" \/ Todo(Tail(t), "restore")
    /\ Head(t) = "build" => Todo(Tail(t), "replace")
    /\ Head(t) \in {"restore", "replace"} =>
          /\ OldLive(a) = "old" /\ Todo(Tail(t), "sync")
          /\ ~Todo(Tail(t), "restore") /\ ~Todo(Tail(t), "replace") /\ ~Todo(Tail(t), "remove")
    /\ Head(t) \in {"remove", "build"} =>
          Todo(Tail(t), "sync") \/ (FsOf(a) = "host" /\ Tail(t) = <<>>)
    /\ Head(t) \in {"sync", "reload"} =>
          ~Todo(t, "restore") /\ ~Todo(t, "replace") /\ ~Todo(t, "remove")
    /\ Head(t) = "reload" => a = "unit" /\ ~Todo(t, "sync")
    /\ Tail(t) = <<>> => /\ a = "unit" => Head(t) = "reload"
                         /\ a # "unit" => Head(t) = "sync" \/ FsOf(a) = "host"

\* Whatever is left to do backwards has that shape.
LEMMA UndoLeftShape ==
    ASSUME NEW a \in Artifacts, NEW t \in UndoLeft(a), install.marker \in BOOLEAN
    PROVE  UndoShape(a, t)
<1>1. CASE a = "unit"
  <2>1. UndoLeft(a) = {<<"remove", "restore", "sync", "reload">>, <<"restore", "sync", "reload">>,
         <<"sync", "reload">>, <<"reload">>}
    BY <1>1 DEF UndoLeft, MarkerExisted
  <2>2. OldLive(a) = "old" /\ FsOf(a) = "etc"
    BY <1>1 DEF OldLive, FsOf, MarkerExisted
  <2>3. CASE t = <<"remove", "restore", "sync", "reload">>
    BY <1>1, <2>1, <2>2, <2>3, TodoFour, TodoThree DEF UndoShape
  <2>4. CASE t = <<"restore", "sync", "reload">>
    BY <1>1, <2>1, <2>2, <2>4, TodoThree, TodoTwo DEF UndoShape
  <2>5. CASE t = <<"sync", "reload">>
    BY <1>1, <2>1, <2>2, <2>5, TodoTwo, TodoOne DEF UndoShape
  <2>6. CASE t = <<"reload">>
    BY <1>1, <2>1, <2>2, <2>6, TodoOne, TodoNone DEF UndoShape
  <2> QED
    BY <2>1, <2>3, <2>4, <2>5, <2>6
<1>2. CASE a \in {"helper", "boundary"}
  <2>1. UndoLeft(a) = {<<"replace", "sync">>, <<"sync">>}
    BY <1>2 DEF UndoLeft, MarkerExisted
  <2>2. OldLive(a) = "old" /\ FsOf(a) = "host"
    BY <1>2 DEF OldLive, FsOf, MarkerExisted
  <2>3. CASE t = <<"replace", "sync">>
    BY <1>2, <2>1, <2>2, <2>3, TodoTwo, TodoOne DEF UndoShape
  <2>4. CASE t = <<"sync">>
    BY <1>2, <2>1, <2>2, <2>4, TodoOne, TodoNone DEF UndoShape
  <2> QED
    BY <2>1, <2>3, <2>4
<1>3. CASE a = "access"
  <2>1. UndoLeft(a) = {<<"remove">>}
    BY <1>3 DEF UndoLeft, MarkerExisted
  <2>2. OldLive(a) = "none" /\ FsOf(a) = "host"
    BY <1>3 DEF OldLive, FsOf, MarkerExisted
  <2>3. CASE t = <<"remove">>
    BY <1>3, <2>1, <2>2, <2>3, TodoOne, TodoNone DEF UndoShape
  <2> QED
    BY <2>1, <2>3
<1>4. CASE a = "config"
  <2>1. UndoLeft(a) = {<<"build", "replace", "sync">>, <<"replace", "sync">>, <<"sync">>}
    BY <1>4 DEF UndoLeft, MarkerExisted
  <2>2. OldLive(a) = "old" /\ FsOf(a) = "etc"
    BY <1>4 DEF OldLive, FsOf, MarkerExisted
  <2>3. CASE t = <<"build", "replace", "sync">>
    BY <1>4, <2>1, <2>2, <2>3, TodoThree, TodoTwo DEF UndoShape
  <2>4. CASE t = <<"replace", "sync">>
    BY <1>4, <2>1, <2>2, <2>4, TodoTwo, TodoOne DEF UndoShape
  <2>5. CASE t = <<"sync">>
    BY <1>4, <2>1, <2>2, <2>5, TodoOne, TodoNone DEF UndoShape
  <2> QED
    BY <2>1, <2>3, <2>4, <2>5
<1>5. CASE a = "marker" /\ ~MarkerExisted
  <2>1. UndoLeft(a) = {<<"remove", "sync">>, <<"sync">>}
    BY <1>5 DEF UndoLeft, MarkerExisted
  <2>2. OldLive(a) = "none" /\ FsOf(a) = "opt"
    BY <1>5 DEF OldLive, FsOf, MarkerExisted
  <2>3. CASE t = <<"remove", "sync">>
    BY <1>5, <2>1, <2>2, <2>3, TodoTwo, TodoOne DEF UndoShape
  <2>4. CASE t = <<"sync">>
    BY <1>5, <2>1, <2>2, <2>4, TodoOne, TodoNone DEF UndoShape
  <2> QED
    BY <2>1, <2>3, <2>4
<1>6. CASE a \in {"app", "venv", "req"} \/ (a = "marker" /\ MarkerExisted)
  <2>1. UndoLeft(a) = {<<"remove", "restore", "sync">>, <<"restore", "sync">>, <<"sync">>}
    BY <1>6 DEF UndoLeft, MarkerExisted
  <2>2. OldLive(a) = "old" /\ FsOf(a) = "opt"
    BY <1>6 DEF OldLive, FsOf, MarkerExisted
  <2>3. CASE t = <<"remove", "restore", "sync">>
    BY <1>6, <2>1, <2>2, <2>3, TodoThree, TodoTwo DEF UndoShape
  <2>4. CASE t = <<"restore", "sync">>
    BY <1>6, <2>1, <2>2, <2>4, TodoTwo, TodoOne DEF UndoShape
  <2>5. CASE t = <<"sync">>
    BY <1>6, <2>1, <2>2, <2>5, TodoOne, TodoNone DEF UndoShape
  <2> QED
    BY <2>1, <2>3, <2>4, <2>5
<1> QED
  BY <1>1, <1>2, <1>3, <1>4, <1>5, <1>6 DEF Artifacts, MarkerExisted

\* Where the work on an artifact begins backwards: with its removal if the
\* original is preserved, with a flush or a reload if it is back.
LEMMA UndoBegins ==
    ASSUME NEW a \in Artifacts, install.marker \in BOOLEAN, now \in [Artifacts -> States],
           a = "marker" => (MarkerExisted <=> "marker-absent" \notin ledger),
           ~Stuck(a), Fixable(a, now[a])
    PROVE  /\ UndoOps(a) \in UndoLeft(a) /\ UndoOps(a) # <<>>
           /\ Todo(UndoOps(a), "restore") \/ Todo(UndoOps(a), "replace") => now[a].rb = "old"
           /\ \/ Todo(UndoOps(a), "restore") \/ Todo(UndoOps(a), "replace")
              \/ Todo(UndoOps(a), "remove") \/ now[a].live = OldLive(a)
           /\ Todo(UndoOps(a), "sync") \/ Todo(UndoOps(a), "remove")
<1>0. now[a].rb \in {"old", "none"}
  BY DEF States
<1>1. CASE a = "unit"
  <2>1. CASE now[a].rb = "old"
    <3>1. UndoOps(a) = <<"remove", "restore", "sync", "reload">>
      BY <1>1, <2>1 DEF UndoOps, UndoUnit, Preserved, MarkerExisted
    <3>2. <<"remove", "restore", "sync", "reload">> \in UndoLeft(a)
      BY <1>1 DEF UndoLeft, MarkerExisted
    <3>3. UndoOps(a) # <<>> /\ \A x : Todo(UndoOps(a), x) <=> x \in {"remove", "restore", "sync", "reload"}
      BY <3>1, TodoFour
    <3> QED
      BY <2>1, <3>1, <3>2, <3>3
  <2>2. CASE now[a].rb = "none"
    <3>1. UndoOps(a) = <<"sync", "reload">>
      BY <1>1, <2>2 DEF UndoOps, UndoUnit, Preserved, MarkerExisted
    <3>2. <<"sync", "reload">> \in UndoLeft(a)
      BY <1>1 DEF UndoLeft, MarkerExisted
    <3>3. now[a].live = OldLive(a)
      BY <1>1, <2>2 DEF Fixable, OldLive, MarkerExisted
    <3>4. UndoOps(a) # <<>> /\ \A x : Todo(UndoOps(a), x) <=> x \in {"sync", "reload"}
      BY <3>1, TodoTwo
    <3> QED
      BY <2>2, <3>1, <3>2, <3>3, <3>4
  <2> QED
    BY <1>0, <2>1, <2>2
<1>2. CASE a = "helper"
  <2>1. CASE now[a].rb = "old"
    <3>1. UndoOps(a) = <<"replace", "sync">>
      BY <1>2, <2>1 DEF UndoOps, UndoHelper, Preserved, MarkerExisted
    <3>2. <<"replace", "sync">> \in UndoLeft(a)
      BY <1>2 DEF UndoLeft, MarkerExisted
    <3>3. UndoOps(a) # <<>> /\ \A x : Todo(UndoOps(a), x) <=> x \in {"replace", "sync"}
      BY <3>1, TodoTwo
    <3> QED
      BY <2>1, <3>1, <3>2, <3>3
  <2>2. CASE now[a].rb = "none"
    <3>1. UndoOps(a) = <<"sync">>
      BY <1>2, <2>2 DEF UndoOps, UndoHelper, Preserved, MarkerExisted
    <3>2. <<"sync">> \in UndoLeft(a)
      BY <1>2 DEF UndoLeft, MarkerExisted
    <3>3. now[a].live = OldLive(a)
      BY <1>2, <2>2 DEF Fixable, OldLive, MarkerExisted
    <3>4. UndoOps(a) # <<>> /\ \A x : Todo(UndoOps(a), x) <=> x = "sync"
      BY <3>1, TodoOne
    <3> QED
      BY <2>2, <3>1, <3>2, <3>3, <3>4
  <2> QED
    BY <1>0, <2>1, <2>2
<1>3. CASE a = "boundary"
  <2>1. CASE now[a].rb = "old"
    <3>1. UndoOps(a) = <<"replace", "sync">>
      BY <1>3, <2>1 DEF UndoOps, UndoBoundary, Preserved, MarkerExisted
    <3>2. <<"replace", "sync">> \in UndoLeft(a)
      BY <1>3 DEF UndoLeft, MarkerExisted
    <3>3. UndoOps(a) # <<>> /\ \A x : Todo(UndoOps(a), x) <=> x \in {"replace", "sync"}
      BY <3>1, TodoTwo
    <3> QED
      BY <2>1, <3>1, <3>2, <3>3
  <2>2. CASE now[a].rb = "none"
    <3>1. UndoOps(a) = <<"sync">>
      BY <1>3, <2>2 DEF UndoOps, UndoBoundary, Preserved, MarkerExisted
    <3>2. <<"sync">> \in UndoLeft(a)
      BY <1>3 DEF UndoLeft, MarkerExisted
    <3>3. now[a].live = OldLive(a)
      BY <1>3, <2>2 DEF Fixable, OldLive, MarkerExisted
    <3>4. UndoOps(a) # <<>> /\ \A x : Todo(UndoOps(a), x) <=> x = "sync"
      BY <3>1, TodoOne
    <3> QED
      BY <2>2, <3>1, <3>2, <3>3, <3>4
  <2> QED
    BY <1>0, <2>1, <2>2
<1>4. CASE a = "access"
  <2>1. UndoOps(a) = <<"remove">>
    BY <1>4 DEF UndoOps, UndoBoundary, MarkerExisted
  <2>2. <<"remove">> \in UndoLeft(a)
    BY <1>4 DEF UndoLeft, MarkerExisted
  <2>3. OldLive(a) = "none" \/ now[a].rb = "old"
    BY <1>0, <1>4 DEF OldLive, MarkerExisted, Stuck, Artifacts
  <2>4. \A x : Todo(UndoOps(a), x) <=> x = "remove"
    BY <2>1, TodoOne
  <2>5. UndoOps(a) # <<>>
    BY <2>1
  <2>6. Todo(UndoOps(a), "remove")
    BY <2>4, <1>4 DEF FsOf
  <2>7. ~Todo(UndoOps(a), "restore") /\ ~Todo(UndoOps(a), "replace") /\ Todo(UndoOps(a), "remove")
    BY <2>4
  <2> QED
    BY <2>1, <2>2, <2>4, <2>5, <2>6, <2>7
<1>5. CASE a = "config"
  <2>1. UndoOps(a) = <<"build", "replace", "sync">>
    BY <1>5 DEF UndoOps, UndoBoundary, MarkerExisted
  <2>2. <<"build", "replace", "sync">> \in UndoLeft(a)
    BY <1>5 DEF UndoLeft, MarkerExisted
  <2>3. OldLive(a) = "none" \/ now[a].rb = "old"
    BY <1>0, <1>5 DEF OldLive, MarkerExisted, Stuck, Artifacts
  <2>4. \A x : Todo(UndoOps(a), x) <=> x \in {"build", "replace", "sync"}
    BY <2>1, TodoThree
  <2>5. UndoOps(a) # <<>>
    BY <2>1
  <2>6. Todo(UndoOps(a), "sync")
    BY <2>4, <1>5 DEF FsOf
  <2>7. now[a].rb = "old"
    BY <1>5, <2>3 DEF OldLive
  <2> QED
    BY <2>1, <2>2, <2>4, <2>5, <2>6, <2>7
<1>6. CASE a = "marker" /\ ~MarkerExisted
  <2>1. UndoOps(a) = <<"remove", "sync">>
    BY <1>6 DEF UndoOps, UndoMarker, MarkerExisted
  <2>2. <<"remove", "sync">> \in UndoLeft(a)
    BY <1>6 DEF UndoLeft, MarkerExisted
  <2>3. OldLive(a) = "none" \/ now[a].rb = "old"
    BY <1>0, <1>6 DEF OldLive, MarkerExisted, Stuck, Artifacts
  <2>4. \A x : Todo(UndoOps(a), x) <=> x \in {"remove", "sync"}
    BY <2>1, TodoTwo
  <2>5. UndoOps(a) # <<>>
    BY <2>1
  <2>6. Todo(UndoOps(a), "sync")
    BY <2>4, <1>6 DEF FsOf
  <2>7. ~Todo(UndoOps(a), "restore") /\ ~Todo(UndoOps(a), "replace") /\ Todo(UndoOps(a), "remove")
    BY <2>4
  <2> QED
    BY <2>1, <2>2, <2>4, <2>5, <2>6, <2>7
<1>7. CASE a = "marker" /\ MarkerExisted
  <2>1. CASE now[a].rb = "old"
    <3>1. UndoOps(a) = <<"remove", "restore", "sync">>
      BY <1>7, <2>1 DEF UndoOps, UndoMarker, Preserved, MarkerExisted
    <3>2. <<"remove", "restore", "sync">> \in UndoLeft(a)
      BY <1>7 DEF UndoLeft, MarkerExisted
    <3>3. UndoOps(a) # <<>> /\ \A x : Todo(UndoOps(a), x) <=> x \in {"remove", "restore", "sync"}
      BY <3>1, TodoThree
    <3> QED
      BY <2>1, <3>1, <3>2, <3>3
  <2>2. CASE now[a].rb = "none"
    <3>1. UndoOps(a) = <<"sync">>
      BY <1>7, <2>2 DEF UndoOps, UndoMarker, Preserved, MarkerExisted
    <3>2. <<"sync">> \in UndoLeft(a)
      BY <1>7 DEF UndoLeft, MarkerExisted
    <3>3. now[a].live = OldLive(a)
      BY <1>7, <2>2 DEF Fixable, OldLive, MarkerExisted
    <3>4. UndoOps(a) # <<>> /\ \A x : Todo(UndoOps(a), x) <=> x = "sync"
      BY <3>1, TodoOne
    <3> QED
      BY <2>2, <3>1, <3>2, <3>3, <3>4
  <2> QED
    BY <1>0, <2>1, <2>2
<1>8. CASE a = "app"
  <2>1. CASE now[a].rb = "old"
    <3>1. UndoOps(a) = <<"remove", "restore", "sync">>
      BY <1>8, <2>1 DEF UndoOps, UndoApp, Preserved, MarkerExisted
    <3>2. <<"remove", "restore", "sync">> \in UndoLeft(a)
      BY <1>8 DEF UndoLeft, MarkerExisted
    <3>3. UndoOps(a) # <<>> /\ \A x : Todo(UndoOps(a), x) <=> x \in {"remove", "restore", "sync"}
      BY <3>1, TodoThree
    <3> QED
      BY <2>1, <3>1, <3>2, <3>3
  <2>2. CASE now[a].rb = "none"
    <3>1. UndoOps(a) = <<"sync">>
      BY <1>8, <2>2 DEF UndoOps, UndoApp, Preserved, MarkerExisted
    <3>2. <<"sync">> \in UndoLeft(a)
      BY <1>8 DEF UndoLeft, MarkerExisted
    <3>3. now[a].live = OldLive(a)
      BY <1>8, <2>2 DEF Fixable, OldLive, MarkerExisted
    <3>4. UndoOps(a) # <<>> /\ \A x : Todo(UndoOps(a), x) <=> x = "sync"
      BY <3>1, TodoOne
    <3> QED
      BY <2>2, <3>1, <3>2, <3>3, <3>4
  <2> QED
    BY <1>0, <2>1, <2>2
<1>9. CASE a \in {"venv", "req"}
  <2>1. CASE now[a].rb = "old"
    <3>1. UndoOps(a) = <<"remove", "restore", "sync">>
      BY <1>9, <2>1 DEF UndoOps, UndoVenv, Preserved, MarkerExisted
    <3>2. <<"remove", "restore", "sync">> \in UndoLeft(a)
      BY <1>9 DEF UndoLeft, MarkerExisted
    <3>3. UndoOps(a) # <<>> /\ \A x : Todo(UndoOps(a), x) <=> x \in {"remove", "restore", "sync"}
      BY <3>1, TodoThree
    <3> QED
      BY <2>1, <3>1, <3>2, <3>3
  <2>2. CASE now[a].rb = "none"
    <3>1. UndoOps(a) = <<"sync">>
      BY <1>9, <2>2 DEF UndoOps, UndoVenv, Preserved, MarkerExisted
    <3>2. <<"sync">> \in UndoLeft(a)
      BY <1>9 DEF UndoLeft, MarkerExisted
    <3>3. now[a].live = OldLive(a)
      BY <1>9, <2>2 DEF Fixable, OldLive, MarkerExisted
    <3>4. UndoOps(a) # <<>> /\ \A x : Todo(UndoOps(a), x) <=> x = "sync"
      BY <3>1, TodoOne
    <3> QED
      BY <2>2, <3>1, <3>2, <3>3, <3>4
  <2> QED
    BY <1>0, <2>1, <2>2
<1> QED
  BY <1>1, <1>2, <1>3, <1>4, <1>5, <1>6, <1>7, <1>8, <1>9 DEF Artifacts, MarkerExisted

\* What is left to do of the restoration of the database.
LEMMA DbLeftShape ==
    ASSUME NEW t \in DbLeft
    PROVE  /\ Tail(t) = <<>> \/ Tail(t) \in DbLeft
           /\ \A o : Todo(t, o) <=> o = Head(t) \/ Todo(Tail(t), o)
           /\ Head(t) \in {"erase", "erased", "copy", "copied", "sync", "lineage", "restored"}
           /\ Head(t) \in {"erase", "erased", "copy"} => Todo(Tail(t), "copied")
           /\ Head(t) \in {"erase", "erased", "copy", "copied"} => Todo(Tail(t), "sync")
           /\ Head(t) \in {"sync", "lineage", "restored"} => ~Todo(t, "copied")
           /\ Head(t) \in {"lineage", "restored"} => ~Todo(t, "sync")
           /\ Tail(t) = <<>> <=> Head(t) = "restored"
<1>1. CASE t = <<"erase", "erased", "copy", "copied", "sync", "lineage", "restored">>
  BY <1>1, TodoSeven, TodoSix DEF DbLeft
<1>2. CASE t = <<"erased", "copy", "copied", "sync", "lineage", "restored">>
  BY <1>2, TodoSix, TodoFive DEF DbLeft
<1>3. CASE t = <<"copy", "copied", "sync", "lineage", "restored">>
  BY <1>3, TodoFive, TodoFour DEF DbLeft
<1>4. CASE t = <<"copied", "sync", "lineage", "restored">>
  BY <1>4, TodoFour, TodoThree DEF DbLeft
<1>5. CASE t = <<"sync", "lineage", "restored">>
  BY <1>5, TodoThree, TodoTwo DEF DbLeft
<1>6. CASE t = <<"lineage", "restored">>
  BY <1>6, TodoTwo, TodoOne DEF DbLeft
<1>7. CASE t = <<"restored">>
  BY <1>7, TodoOne, TodoNone DEF DbLeft
<1> QED
  BY <1>1, <1>2, <1>3, <1>4, <1>5, <1>6, <1>7 DEF DbLeft

\* Where the restoration of the database begins.
LEMMA DbBegins ==
    /\ RestoreDbOps \in DbLeft /\ RestoreDbOps # <<>>
    /\ Todo(RestoreDbOps, "copied") /\ Todo(RestoreDbOps, "sync")
<1>1. RestoreDbOps = <<"erase", "erased", "copy", "copied", "sync", "lineage", "restored">>
  BY DEF RestoreDbOps
<1> QED
  BY <1>1, TodoSeven DEF DbLeft

----------------------------------------------------------------------------
(* Operations on the disks.                                                *)

\* A write changes one artifact, and adds one state to those it may be in.
LEMMA WriteFacts ==
    ASSUME TypeOK, NEW a \in Artifacts, NEW v \in States, Write(a, v)
    PROVE  /\ now' \in [Artifacts -> States] /\ may' \in [Artifacts -> SUBSET States]
           /\ \A b \in Artifacts : now'[b] \in may'[b]
           /\ now'[a] = v /\ may'[a] = may[a] \cup {v}
           /\ \A b \in Artifacts : b # a => now'[b] = now[b] /\ may'[b] = may[b]
           /\ enable' = enable /\ mayEnable' = mayEnable
           /\ db' = db /\ mayDb' = mayDb /\ backup' = backup
  BY DEF TypeOK, Write

\* A flush changes no present state; it leaves of the possible states the
\* present one on the file systems flushed, and the others as they are.
LEMMA SyncFacts ==
    ASSUME TypeOK, NEW F, Sync(F)
    PROVE  /\ now' = now /\ may' \in [Artifacts -> SUBSET States]
           /\ \A a \in Artifacts : now'[a] \in may'[a] /\ may'[a] \subseteq may[a]
           /\ \A a \in Artifacts : FsOf(a) \in F => may'[a] = {now[a]}
           /\ enable' = enable /\ enable' \in mayEnable' /\ mayEnable' \subseteq mayEnable
           /\ "etc" \in F => mayEnable' = {enable}
           /\ db' = db /\ db' \in mayDb' /\ mayDb' \subseteq mayDb
           /\ "var" \in F => mayDb' = {db}
           /\ "var" \notin F => mayDb' = mayDb
           /\ "etc" \notin F => mayEnable' = mayEnable
           /\ backup' = backup
  BY DEF TypeOK, Sync

\* What a flush keeps of the old and of the new installation.
LEMMA SyncKeeps ==
    ASSUME TypeOK, NEW F, Sync(F), install' = install
    PROVE  /\ \A a \in Artifacts : OldLive(a)' = OldLive(a)
           /\ \A a \in Artifacts : ArtOld(a) => ArtOld(a)'
           /\ \A a \in Artifacts : ArtNew(a) => ArtNew(a)'
           /\ \A a \in Artifacts : FsOf(a) \in F /\ now[a].live = OldLive(a) => ArtOld(a)'
           /\ \A a \in Artifacts : FsOf(a) \in F /\ now[a].live = "new" => ArtNew(a)'
           /\ \A a \in Artifacts : Back(a) => Back(a)'
           /\ DbOld => DbOld'
<1>1. \A a \in Artifacts : OldLive(a)' = OldLive(a)
  BY DEF OldLive, MarkerExisted
<1>2. \A a \in Artifacts : may'[a] \subseteq may[a] /\ now'[a] = now[a]
  BY SyncFacts
<1>3. \A a \in Artifacts : FsOf(a) \in F => may'[a] = {now[a]}
  BY SyncFacts
<1>4. mayDb' \subseteq mayDb
  BY SyncFacts
<1>5. \A a \in Artifacts : ArtOld(a) => ArtOld(a)'
  BY <1>1, <1>2 DEF ArtOld
<1>6. \A a \in Artifacts : ArtNew(a) => ArtNew(a)'
  BY <1>2 DEF ArtNew
<1>7. \A a \in Artifacts : FsOf(a) \in F /\ now[a].live = OldLive(a) => ArtOld(a)'
  BY <1>1, <1>3 DEF ArtOld
<1>8. \A a \in Artifacts : FsOf(a) \in F /\ now[a].live = "new" => ArtNew(a)'
  BY <1>3 DEF ArtNew
<1>9. \A a \in Artifacts : Back(a) => Back(a)'
  BY <1>1, <1>2, <1>5 DEF Back
<1>10. DbOld => DbOld'
  BY <1>4 DEF DbOld
<1> QED
  BY <1>1, <1>5, <1>6, <1>7, <1>8, <1>9, <1>10

\* An artifact whose states do not change stays what it is.
LEMMA SameArtifact ==
    ASSUME NEW a \in Artifacts, install' = install, now'[a] = now[a], may'[a] = may[a]
    PROVE  /\ OldLive(a)' = OldLive(a) /\ ArtOld(a)' = ArtOld(a) /\ ArtNew(a)' = ArtNew(a)
           /\ Back(a)' = Back(a)
  BY DEF OldLive, MarkerExisted, ArtOld, ArtNew, Back

\* A state a path may be in is a record of the model.
LEMMA ArtifactTypes ==
    ASSUME TypeOK, NEW a \in Artifacts
    PROVE  /\ now[a] \in States /\ now[a] \in may[a] /\ may[a] \subseteq States
           /\ now[a].live \in Lives /\ now[a].rb \in {"old", "none"}
           /\ \A s \in may[a] : s \in States /\ s.live \in Lives /\ s.rb \in {"old", "none"}
<1>1. now[a] \in States /\ now[a] \in may[a] /\ may[a] \subseteq States
  BY DEF TypeOK
<1>2. \A s \in States : s.live \in Lives /\ s.rb \in {"old", "none"}
  BY DEF States
<1> QED
  BY <1>1, <1>2

\* The type of the journal.
JournalType == [state : {"none", "active", "completed", "recovered"},
                run : 0..MaxRuns, armed : BOOLEAN, ledger : SUBSET Markers]

\* A checkpoint replaces the state of the journal and keeps the rest.
LEMMA CheckpointFacts ==
    ASSUME TypeOK, NEW s \in {"active", "completed", "recovered"},
           Checkpoint([journal EXCEPT !.state = s])
    PROVE  /\ journal' \in JournalType
           /\ journal'.state = s /\ journal'.run = journal.run
           /\ journal'.armed = journal.armed /\ journal'.ledger = journal.ledger
           /\ Sync({"host"})
<1>1. journal \in JournalType
  BY DEF TypeOK, JournalType
<1>2. journal' = [journal EXCEPT !.state = s] /\ Sync({"host"})
  BY DEF Checkpoint
<1> QED
  BY <1>1, <1>2 DEF JournalType

\* A record adds markers to the ledger and to the active journal.
LEMMA RecordFacts ==
    ASSUME TypeOK, NEW ms \in SUBSET Markers, NEW arm \in BOOLEAN, Record(ms, arm)
    PROVE  /\ journal' \in JournalType
           /\ journal'.state = "active" /\ journal'.run = journal.run
           /\ journal'.armed = (journal.armed \/ arm) /\ journal'.ledger = ledger \cup ms
           /\ ledger' = ledger \cup ms /\ ledger' \subseteq Markers
           /\ Sync({"host"})
<1>1. journal \in JournalType /\ ledger \subseteq Markers
  BY DEF TypeOK, JournalType
<1>2. /\ journal' = [journal EXCEPT !.state = "active", !.armed = @ \/ arm,
                                    !.ledger = ledger \cup ms]
      /\ ledger' = ledger \cup ms /\ Sync({"host"})
  BY DEF Record, Checkpoint
<1> QED
  BY <1>1, <1>2 DEF JournalType

\* Journals that agree field by field are the same.
LEMMA SameJournal ==
    ASSUME NEW j \in JournalType, NEW k \in JournalType, j.state = k.state, j.run = k.run,
           j.armed = k.armed, j.ledger = k.ledger
    PROVE  j = k
  BY DEF JournalType

\* What a start may run.
LEMMA StartedType ==
    ASSUME NEW n, NEW d, NEW u
    PROVE  Started(n, d, u) \in {"none", "old", "new", "mixed"}
  BY DEF Started

\* A start changes nothing on the disks but a missing database.
LEMMA StartFacts ==
    ASSUME TypeOK, StartService
    PROVE  /\ ran' = Started(now, db, loaded) /\ ran' \in {"none", "old", "new", "mixed"}
           /\ now' = now /\ may' = may /\ enable' = enable /\ mayEnable' = mayEnable
           /\ backup' = backup
           /\ db' = IF ran' # "none" /\ db = "none" THEN "new" ELSE db
           /\ db' \in mayDb' /\ mayDb \subseteq mayDb' /\ mayDb' \subseteq mayDb \cup {db'}
           /\ db # "none" => mayDb' = mayDb
  BY StartedType DEF TypeOK, StartService, DbAfterStart

\* What one operation does.
LEMMA OpFacts ==
    ASSUME NEW o, NEW a, Op(o, a)
    PROVE  /\ o = "record" => Record(SwapMarkers(a), FALSE)
           /\ o = "restored" => Record({"restored"}, FALSE)
           /\ o \notin {"record", "restored"} => ledger' = ledger /\ journal' = journal
           /\ o = "aside" => Write(a, [live |-> "none", rb |-> now[a].live])
           /\ o = "preserve" => Write(a, [now[a] EXCEPT !.rb = now[a].live])
           /\ o = "build" => Write(a, [now[a] EXCEPT !.live = "part"])
           /\ o = "activate" => Write(a, [now[a] EXCEPT !.live = "new"])
           /\ o = "remove" => Write(a, [now[a] EXCEPT !.live = "none"])
           /\ o = "restore" => Write(a, [live |-> now[a].rb, rb |-> "none"])
           /\ o = "replace" => Write(a, [now[a] EXCEPT !.live = now[a].rb])
           /\ o = "backup" => BackupDb
           /\ o \in {"erase", "copy"} => WriteDb("part")
           /\ o = "erased" => ErasedDb
           /\ o = "copied" => WriteDb("old")
           /\ o = "sync" => Sync({FsOf(a)})
           /\ o \in {"reload", "lineage"} => UNCHANGED disk
           /\ loaded' = IF o = "reload" THEN now["unit"].live ELSE loaded
  BY DEF Op

\* What was safe stays safe while no state is added and no marker is lost.
LEMMA SafeKeeps ==
    ASSUME NEW a \in Artifacts, install' = install, Safe(a),
           may'[a] \subseteq may[a], journal.ledger \subseteq journal'.ledger
    PROVE  Safe(a)'
<1>1. OldLive(a)' = OldLive(a)
  BY DEF OldLive, MarkerExisted
<1>2. Attempted(a) => Attempted(a)'
  BY DEF Attempted
<1> QED
  BY <1>1, <1>2 DEF Safe, Fixable

----------------------------------------------------------------------------
(* Types.                                                                  *)

\* The types of the process and its journal, of the disks, and of the rest.
RunTypes ==
    /\ install \in Installations
    /\ pc \in Pcs /\ ledger \subseteq Markers
    /\ art \in Things /\ left \subseteq Things
    /\ journal \in [state : {"none", "active", "completed", "recovered"},
                    run : 0..MaxRuns, armed : BOOLEAN, ledger : SUBSET Markers]
    /\ plan \in Plans \cup {NoPlan}
    /\ runs \in 0..MaxRuns /\ faults \in 0..MaxFaults

DiskTypes ==
    /\ now \in [Artifacts -> States] /\ may \in [Artifacts -> SUBSET States]
    /\ \A a \in Artifacts : now[a] \in may[a]
    /\ enable \in mayEnable /\ mayEnable \subseteq BOOLEAN
    /\ db \in mayDb /\ mayDb \subseteq {"old", "oldw", "new", "none", "part"}
    /\ backup \in BOOLEAN

RestTypes ==
    /\ fence \in mayFence /\ mayFence \subseteq 0..MaxRuns
    /\ loaded \in Lives /\ ran \in {"none", "old", "new", "mixed"}
    /\ req \in 0..MaxRuns /\ ans \in {"none", "ok", "refused"} /\ job \in BOOLEAN
    /\ reenabled \in BOOLEAN

\* The three together are the type invariant.
LEMMA TypeParts == TypeOK <=> RunTypes /\ DiskTypes /\ RestTypes
  BY DEF TypeOK, RunTypes, DiskTypes, RestTypes, Things

\* The rollback paths of a run go: the live paths stay.
LEMMA CleanupFacts ==
    ASSUME TypeOK, Cleanup
    PROVE  /\ now' \in [Artifacts -> States] /\ may' \in [Artifacts -> SUBSET States]
           /\ \A a \in Artifacts : now'[a] \in may'[a] /\ now'[a].live = now[a].live
           /\ \A a \in Artifacts : \A s \in may'[a] : \E r \in may[a] : s.live = r.live
<1>1. \A s \in States : Dropped(s) \in States /\ Dropped(s).live = s.live
  BY DEF States, Dropped
<1>2. /\ now' = [a \in Artifacts |-> Dropped(now[a])]
      /\ may' = [a \in Artifacts |-> may[a] \cup {Dropped(s) : s \in may[a]}]
  BY DEF Cleanup
<1>3. ASSUME NEW a \in Artifacts
      PROVE  /\ now'[a] \in States /\ may'[a] \in SUBSET States /\ now'[a] \in may'[a]
             /\ now'[a].live = now[a].live
             /\ \A s \in may'[a] : \E r \in may[a] : s.live = r.live
  BY <1>1, <1>2, ArtifactTypes
<1> QED
  BY <1>2, <1>3

\* And so it is when the journal is cleared.
LEMMA ClearFacts ==
    ASSUME TypeOK, ClearJournal
    PROVE  /\ now' \in [Artifacts -> States] /\ may' \in [Artifacts -> SUBSET States]
           /\ \A a \in Artifacts : now'[a] \in may'[a] /\ now'[a].live = now[a].live
           /\ \A a \in Artifacts : \A s \in may'[a] : \E r \in may[a] : s.live = r.live
<1>1. \A s \in States : Dropped(s) \in States /\ Dropped(s).live = s.live
  BY DEF States, Dropped
<1>2. /\ now' = [a \in Artifacts |-> Dropped(now[a])]
      /\ may' = [a \in Artifacts |-> {Dropped(s) : s \in may[a]}]
  BY DEF ClearJournal
<1>3. ASSUME NEW a \in Artifacts
      PROVE  /\ now'[a] \in States /\ may'[a] \in SUBSET States /\ now'[a] \in may'[a]
             /\ now'[a].live = now[a].live
             /\ \A s \in may'[a] : \E r \in may[a] : s.live = r.live
  BY <1>1, <1>2, ArtifactTypes
<1> QED
  BY <1>2, <1>3

\* A power loss leaves every path in one of the states it may be in.
LEMMA PowerLossFacts ==
    ASSUME TypeOK, PowerLoss
    PROVE  /\ now' \in [Artifacts -> States] /\ may' \in [Artifacts -> SUBSET States]
           /\ \A a \in Artifacts : now'[a] \in may[a] /\ may'[a] = {now'[a]}
           /\ enable' \in mayEnable /\ mayEnable' = {enable'} /\ enable' \in BOOLEAN
           /\ fence' \in mayFence /\ mayFence' = {fence'}
           /\ loaded' = now'["unit"].live /\ loaded' \in Lives
           /\ \E d \in mayDb : /\ ran' = IF enable' THEN Started(now', d, loaded') ELSE "none"
                               /\ db' = IF ran' # "none" /\ d = "none" THEN "new" ELSE d
           /\ mayDb' = {db'} /\ db' \in {"old", "oldw", "new", "none", "part"}
           /\ backup' = backup
<1>1. PICK f \in Outcomes : now' = [a \in Artifacts |-> IF a \in Unsynced THEN f[a] ELSE now[a]]
  BY DEF PowerLoss
<1>2. \A a \in Unsynced : f[a] \in may[a]
  BY <1>1 DEF Outcomes
<1>3. \A a \in Artifacts : now'[a] \in may[a]
  BY <1>1, <1>2, ArtifactTypes
<1>4. \A a \in Artifacts : now'[a] \in States
  BY <1>3, ArtifactTypes
<1>5. now' \in [Artifacts -> States]
  BY <1>1, <1>4
<1>6. may' \in [Artifacts -> SUBSET States] /\ \A a \in Artifacts : may'[a] = {now'[a]}
  BY <1>4 DEF PowerLoss
<1>7. loaded' = now'["unit"].live /\ loaded' \in Lives
  <2>1. now'["unit"] \in States
    BY <1>4 DEF Artifacts
  <2> QED
    BY <2>1 DEF PowerLoss, States
<1>8. \E d \in mayDb : /\ ran' = IF enable' THEN Started(now', d, loaded') ELSE "none"
                       /\ db' = IF ran' # "none" /\ d = "none" THEN "new" ELSE d
  BY DEF PowerLoss, DbAfterStart
<1>9. db' \in {"old", "oldw", "new", "none", "part"}
  BY <1>8 DEF TypeOK
<1> QED
  BY <1>3, <1>5, <1>6, <1>7, <1>8, <1>9 DEF PowerLoss, TypeOK

----------------------------------------------------------------------------
(* The journal and the disks after the steps that write them.              *)

\* The journal gains the markers ms and is active.
Gains(ms, arm) ==
    /\ journal'.state = "active" /\ journal'.run = journal.run
    /\ journal'.armed = (journal.armed \/ arm) /\ journal'.ledger = ledger \cup ms
    /\ ledger' = ledger \cup ms

\* The journal goes to state s and is otherwise unchanged.
Reaches(s) ==
    /\ journal'.state = s /\ journal'.run = journal.run
    /\ journal'.armed = journal.armed /\ journal'.ledger = journal.ledger

\* A dry run completes its journal.
LEMMA DryRunFacts ==
    ASSUME TypeOK, DryRun
    PROVE  Reaches("completed") /\ Sync({"host"})
<1>1. Checkpoint([journal EXCEPT !.state = "completed"])
  BY DEF DryRun
<1> QED
  BY <1>1, CheckpointFacts DEF Reaches

\* A granted fence is recorded; a refused one changes nothing.
LEMMA AnswerFacts ==
    ASSUME TypeOK, FenceAnswer
    PROVE  \/ ans = "ok" /\ pc' = "disable" /\ Gains({"fenceheld"}, FALSE) /\ Sync({"host"})
           \/ /\ ans # "ok" /\ pc' = "trap" /\ journal' = journal /\ ledger' = ledger
              /\ UNCHANGED disk
<1>1. CASE ans = "ok"
  <2>1. Record({"fenceheld"}, FALSE) /\ {"fenceheld"} \in SUBSET Markers
    BY <1>1 DEF FenceAnswer, Markers
  <2> QED
    BY <1>1, <2>1, RecordFacts DEF FenceAnswer, Gains
<1>2. CASE ans # "ok"
  BY <1>2 DEF FenceAnswer
<1> QED
  BY <1>1, <1>2

\* Recovery is armed, boot activation goes, and that is made durable.
LEMMA DisableFacts ==
    ASSUME TypeOK, DisableAutostart
    PROVE  \/ /\ pc = "disable" /\ pc' = "disabling" /\ Gains({"autostart"}, TRUE)
              /\ Sync({"host"})
           \/ /\ pc = "disabling" /\ pc' = "disabled" /\ WriteEnable(FALSE)
              /\ journal' = journal /\ ledger' = ledger
           \/ /\ pc = "disabled" /\ pc' = "stop" /\ Sync({"etc"})
              /\ journal' = journal /\ ledger' = ledger
<1>1. CASE pc = "disable"
  <2>1. Record({"autostart"}, TRUE) /\ {"autostart"} \in SUBSET Markers
    BY <1>1 DEF DisableAutostart, Markers
  <2> QED
    BY <1>1, <2>1, RecordFacts DEF DisableAutostart, Gains
<1>2. CASE pc # "disable"
  BY <1>2 DEF DisableAutostart
<1> QED
  BY <1>1, <1>2

\* The stop is recorded, then the service is stopped.
LEMMA StopFacts ==
    ASSUME TypeOK, StopService
    PROVE  \/ /\ pc = "stop" /\ pc' = "stopping" /\ Gains({"stop"}, TRUE) /\ Sync({"host"})
              /\ UNCHANGED <<work, ran>>
           \/ /\ pc = "stopping" /\ pc' = "swap" /\ ran' = "none" /\ left' = ToSwap
              /\ art' = art /\ todo' = todo /\ journal' = journal /\ ledger' = ledger
              /\ UNCHANGED disk
<1>1. CASE pc = "stop"
  <2>1. Record({"stop"}, TRUE) /\ {"stop"} \in SUBSET Markers
    BY <1>1 DEF StopService, Markers
  <2> QED
    BY <1>1, <2>1, RecordFacts DEF StopService, Gains
<1>2. CASE pc # "stop"
  BY <1>2 DEF StopService
<1> QED
  BY <1>1, <1>2

\* The target is made durable and enabled, and its journal completed.
LEMMA FinishFacts ==
    ASSUME TypeOK, FinishTarget
    PROVE  \/ /\ pc = "mark" /\ todo = <<>> /\ left = {} /\ pc' = "enable"
              /\ Sync(FinalBarriers) /\ journal' = journal /\ reenabled' = reenabled
           \/ /\ pc = "enable" /\ pc' = "enabled" /\ WriteEnable(TRUE)
              /\ journal' = journal /\ reenabled' = TRUE
           \/ /\ pc = "enabled" /\ pc' = "completing" /\ Sync({"etc"})
              /\ journal' = journal /\ reenabled' = reenabled
           \/ /\ pc = "completing" /\ pc' = "release1" /\ Reaches("completed")
              /\ Sync({"host"}) /\ reenabled' = reenabled
<1>1. CASE pc = "completing"
  <2>1. Checkpoint([journal EXCEPT !.state = "completed"])
    BY <1>1 DEF FinishTarget
  <2> QED
    BY <1>1, <2>1, CheckpointFacts DEF FinishTarget, Reaches
<1>2. CASE pc # "completing"
  BY <1>2 DEF FinishTarget
<1> QED
  BY <1>1, <1>2

\* An untouched service is recorded as recovered, or nothing changes.
LEMMA UntouchedFacts ==
    ASSUME TypeOK, Untouched
    PROVE  \/ pc' = "cleanup2" /\ Reaches("recovered") /\ Sync({"host"})
           \/ pc' = "off" /\ journal' = journal /\ UNCHANGED disk
<1>1. CASE InService
  <2>1. Checkpoint([journal EXCEPT !.state = "recovered"])
    BY <1>1 DEF Untouched
  <2> QED
    BY <1>1, <2>1, CheckpointFacts DEF Untouched, Reaches
<1>2. CASE ~InService
  BY <1>2 DEF Untouched
<1> QED
  BY <1>1, <1>2

\* The end of a rollback, step by step.
LEMMA RollbackFacts ==
    ASSUME TypeOK, FinishRollback
    PROVE  \/ /\ pc = "rb" /\ todo = <<>> /\ left = {} /\ "autostart" \in ledger
              /\ pc' = "rbsync" /\ WriteEnable(TRUE) /\ reenabled' = TRUE
              /\ ran' = ran /\ journal' = journal
           \/ /\ pc = "rb" /\ todo = <<>> /\ left = {} /\ "autostart" \notin ledger
              /\ pc' = "rbstart" /\ UNCHANGED disk /\ reenabled' = reenabled
              /\ ran' = ran /\ journal' = journal
           \/ /\ pc = "rbsync" /\ pc' = "rbstart" /\ Sync({"etc"}) /\ reenabled' = reenabled
              /\ ran' = ran /\ journal' = journal
           \/ /\ pc = "rbstart" /\ pc' = (IF ran' = "none" THEN "off" ELSE "rbdone")
              /\ StartService /\ reenabled' = reenabled /\ journal' = journal
           \/ /\ pc = "rbdone" /\ pc' = "cleanup2" /\ Reaches("recovered")
              /\ Sync({"host"}) /\ ran' = ran /\ reenabled' = reenabled
<1>1. CASE pc = "rbdone"
  <2>1. Checkpoint([journal EXCEPT !.state = "recovered"])
    BY <1>1 DEF FinishRollback
  <2> QED
    BY <1>1, <2>1, CheckpointFacts DEF FinishRollback, Reaches
<1>2. CASE pc # "rbdone"
  BY <1>2 DEF FinishRollback
<1> QED
  BY <1>1, <1>2

----------------------------------------------------------------------------
(* One operation on the artifact in hand.                                  *)

\* The operations on the database, and those on the other artifacts.
DbOps  == {"backup", "record", "erase", "erased", "copy", "copied", "sync", "lineage", "restored"}
ArtOps == {"record", "aside", "preserve", "sync", "build", "activate", "reload", "remove",
           "restore", "replace"}

\* An operation leaves the process where it is, and what it does on the disks
\* is that of its name.
LEMMA DoFrame ==
    ASSUME IInv, Do, install' = install
    PROVE  /\ pc \in {"swap", "mark", "rb"} /\ todo # <<>> /\ todo' = Tail(todo)
           /\ pc' = pc /\ left' = left /\ art' = art /\ plan' = plan
           /\ fence' = fence /\ mayFence' = mayFence /\ ran' = ran /\ req' = req /\ ans' = ans
           /\ job' = job /\ runs' = runs /\ faults' = faults /\ reenabled' = reenabled
           /\ journal.state = "active" /\ journal.armed /\ ledger = journal.ledger
           /\ art \in Things /\ install.marker \in BOOLEAN
           /\ loaded' = IF Head(todo) = "reload" THEN now["unit"].live ELSE loaded
           /\ Op(Head(todo), art) /\ TypeOK
           /\ \A a \in Things : OldLive(a)' = OldLive(a)
<1>1. TypeOK /\ PcInv
  BY DEF IInv
<1>2. install.marker \in BOOLEAN /\ art \in Things
  BY <1>1, FlagsAssumption DEF TypeOK, Things
<1>3. pc \in {"swap", "mark", "rb"} /\ Op(Head(todo), art)
  BY DEF Do
<1>4. journal.state = "active" /\ journal.armed /\ ledger = journal.ledger
  BY <1>1, <1>3 DEF PcInv, Window, Backward
<1>5. loaded' = IF Head(todo) = "reload" THEN now["unit"].live ELSE loaded
  BY <1>3, OpFacts
<1>6. \A a \in Things : OldLive(a)' = OldLive(a)
  BY DEF OldLive, MarkerExisted
<1> QED
  BY <1>1, <1>2, <1>3, <1>4, <1>5, <1>6 DEF Do

\* The operations in hand are those of a forward or of a backward sequence.
LEMMA DoHead ==
    ASSUME IInv, Do, install' = install
    PROVE  /\ pc # "rb" => SwapShape(art, todo)
           /\ pc = "rb" /\ art # "db" => UndoShape(art, todo)
           /\ pc = "rb" /\ art = "db" =>
                 todo \in DbLeft \/ (todo = <<"lineage">> /\ "restored" \in journal.ledger)
           /\ IF art = "db" THEN Head(todo) \in DbOps
              ELSE art \in Artifacts /\ Head(todo) \in ArtOps
           /\ Head(todo) \in {"aside", "preserve"} => now[art].live = "old"
<1> /\ pc \in {"swap", "mark", "rb"} /\ todo # <<>> /\ art \in Things
    /\ install.marker \in BOOLEAN /\ TypeOK
  BY DoFrame
<1> SwapHand /\ UndoHand
  BY DEF IInv
<1>1. CASE pc # "rb"
  <2>1. SwapShape(art, todo)
    BY <1>1, SwapLeftShape DEF SwapHand
  <2>2. IF art = "db" THEN Head(todo) \in DbOps ELSE art \in Artifacts /\ Head(todo) \in ArtOps
    BY <2>1 DEF SwapShape, DbOps, ArtOps, Things
  <2>3. ASSUME Head(todo) \in {"aside", "preserve"}
        PROVE  now[art].live = "old"
    <3>1. art \in Artifacts /\ OldLive(art) = "old" /\ ArtOld(art)
      BY <1>1, <2>1, <2>2, <2>3 DEF SwapShape, DbOps, SwapHand
    <3> QED
      BY <3>1 DEF ArtOld, TypeOK
  <2> QED
    BY <1>1, <2>1, <2>2, <2>3
<1>2. CASE pc = "rb" /\ art # "db"
  <2>1. UndoShape(art, todo) /\ art \in Artifacts
    BY <1>2, UndoLeftShape DEF UndoHand, Things
  <2> QED
    BY <1>2, <2>1 DEF UndoShape, ArtOps
<1>3. CASE pc = "rb" /\ art = "db"
  <2>1. todo \in DbLeft \/ (todo = <<"lineage">> /\ "restored" \in journal.ledger)
    BY <1>3 DEF UndoHand
  <2>2. Head(todo) \in DbOps \ {"aside", "preserve"}
    BY <2>1, DbLeftShape DEF DbOps
  <2> QED
    BY <1>3, <2>1, <2>2
<1> QED
  BY <1>1, <1>2, <1>3

\* The journal gains the markers of a record, and nothing else.
LEMMA DoJournal ==
    ASSUME IInv, Do, install' = install
    PROVE  /\ journal' \in JournalType /\ journal'.state = "active" /\ journal'.run = journal.run
           /\ journal'.armed /\ ledger' = journal'.ledger /\ ledger' \subseteq Markers
           /\ Head(todo) \notin {"record", "restored"} => journal' = journal
           /\ Head(todo) = "record" => journal'.ledger = journal.ledger \cup SwapMarkers(art)
           /\ Head(todo) = "restored" => journal'.ledger = journal.ledger \cup {"restored"}
           /\ journal.ledger \subseteq journal'.ledger
           /\ Head(todo) \in {"record", "restored"} => Sync({"host"})
<1>1. /\ TypeOK /\ Op(Head(todo), art) /\ journal.state = "active" /\ journal.armed
      /\ ledger = journal.ledger /\ art \in Things
  BY DoFrame
<1>2. journal \in JournalType /\ ledger \subseteq Markers
  BY <1>1 DEF TypeOK, JournalType
<1>3. CASE Head(todo) = "record"
  <2>1. Record(SwapMarkers(art), FALSE)
    BY <1>1, <1>3, OpFacts
  <2>2. SwapMarkers(art) \in SUBSET Markers
    BY <1>1 DEF SwapMarkers, MarkerOf, Markers, Things, Artifacts
  <2> QED
    BY <1>1, <1>3, <2>1, <2>2, RecordFacts
<1>4. CASE Head(todo) = "restored"
  <2>1. Record({"restored"}, FALSE) /\ {"restored"} \in SUBSET Markers
    BY <1>1, <1>4, OpFacts DEF Markers
  <2> QED
    BY <1>1, <1>4, <2>1, RecordFacts
<1>5. CASE Head(todo) \notin {"record", "restored"}
  BY <1>1, <1>2, <1>5, OpFacts
<1> QED
  BY <1>3, <1>4, <1>5

\* What an operation does to the artifact in hand, and to the other disks.
LEMMA DoArt ==
    ASSUME IInv, Do, install' = install, art # "db"
    PROVE  /\ DiskTypes'
           /\ \A b \in Artifacts : b # art => now'[b] = now[b] /\ may'[b] \subseteq may[b]
           /\ enable' = enable /\ enable \in mayEnable' /\ mayEnable' \subseteq mayEnable
           /\ db' = db /\ mayDb' = mayDb
           /\ Head(todo) \in {"record", "sync", "reload"} =>
                 now'[art] = now[art] /\ may'[art] \subseteq may[art]
           /\ Head(todo) = "sync" => may'[art] = {now[art]}
           /\ Head(todo) \notin {"record", "sync", "reload"} => may'[art] = may[art] \cup {now'[art]}
           /\ Head(todo) = "aside" => now'[art].live = "none" /\ now'[art].rb = "old"
           /\ Head(todo) = "preserve" => now'[art].live = "old" /\ now'[art].rb = "old"
           /\ Head(todo) = "build" => now'[art].live = "part" /\ now'[art].rb = now[art].rb
           /\ Head(todo) = "activate" => now'[art].live = "new" /\ now'[art].rb = now[art].rb
           /\ Head(todo) = "remove" => now'[art].live = "none" /\ now'[art].rb = now[art].rb
           /\ Head(todo) \in {"restore", "replace"} => now'[art].live = now[art].rb
<1>1. /\ TypeOK /\ Op(Head(todo), art) /\ art \in Artifacts /\ Head(todo) \in ArtOps
      /\ Head(todo) \in {"aside", "preserve"} => now[art].live = "old"
  BY DoFrame, DoHead
<1>2. /\ now[art] \in States /\ now[art].live \in Lives /\ now[art].rb \in {"old", "none"}
      /\ now[art].rb \in Lives
  BY <1>1, ArtifactTypes DEF Lives
<1>3. DiskTypes /\ FsOf(art) \in {"opt", "etc", "host"}
  BY <1>1, TypeParts DEF FsOf, Artifacts
<1>4. ASSUME NEW v \in States, Write(art, v)
      PROVE  /\ DiskTypes' /\ now'[art] = v /\ may'[art] = may[art] \cup {now'[art]}
             /\ \A b \in Artifacts : b # art => now'[b] = now[b] /\ may'[b] \subseteq may[b]
             /\ enable' = enable /\ enable \in mayEnable' /\ mayEnable' \subseteq mayEnable
             /\ db' = db /\ mayDb' = mayDb
  <2>1. /\ now' \in [Artifacts -> States] /\ may' \in [Artifacts -> SUBSET States]
        /\ \A b \in Artifacts : now'[b] \in may'[b]
        /\ now'[art] = v /\ may'[art] = may[art] \cup {v}
        /\ \A b \in Artifacts : b # art => now'[b] = now[b] /\ may'[b] = may[b]
        /\ enable' = enable /\ mayEnable' = mayEnable
        /\ db' = db /\ mayDb' = mayDb /\ backup' = backup
    BY <1>1, <1>4, WriteFacts
  <2>2. DiskTypes'
    BY <1>3, <2>1 DEF DiskTypes
  <2> QED
    BY <1>3, <2>1, <2>2 DEF DiskTypes
<1>5. ASSUME NEW F \in {{"host"}, {FsOf(art)}}, Sync(F)
      PROVE  /\ DiskTypes' /\ now' = now /\ \A b \in Artifacts : may'[b] \subseteq may[b]
             /\ FsOf(art) \in F => may'[art] = {now[art]}
             /\ enable' = enable /\ enable \in mayEnable' /\ mayEnable' \subseteq mayEnable
             /\ db' = db /\ mayDb' = mayDb
  <2>1. /\ now' = now /\ may' \in [Artifacts -> SUBSET States]
        /\ \A a \in Artifacts : now'[a] \in may'[a] /\ may'[a] \subseteq may[a]
        /\ \A a \in Artifacts : FsOf(a) \in F => may'[a] = {now[a]}
        /\ enable' = enable /\ enable' \in mayEnable' /\ mayEnable' \subseteq mayEnable
        /\ db' = db /\ backup' = backup
    BY <1>1, <1>5, SyncFacts DEF Sync
  <2>2. "var" \notin F
    BY <1>3, <1>5
  <2>3. mayDb' = mayDb
    BY <1>5, <2>2 DEF Sync
  <2>4. DiskTypes'
    BY <1>3, <2>1, <2>3 DEF DiskTypes
  <2> QED
    BY <1>1, <2>1, <2>3, <2>4
<1>6. CASE Head(todo) = "record"
  BY <1>1, <1>5, <1>6, DoJournal
<1>7. CASE Head(todo) = "sync"
  <2>1. Sync({FsOf(art)})
    BY <1>1, <1>7, OpFacts
  <2> QED
    BY <1>1, <1>5, <1>7, <2>1
<1>8. CASE Head(todo) = "reload"
  <2>1. UNCHANGED disk
    BY <1>1, <1>8, OpFacts
  <2> QED
    BY <1>1, <1>3, <1>8, <2>1 DEF disk, DiskTypes
<1>9. CASE Head(todo) = "aside"
  <2>1. Write(art, [live |-> "none", rb |-> "old"])
    BY <1>1, <1>9, OpFacts
  <2>2. [live |-> "none", rb |-> "old"] \in States
    BY DEF States, Lives
  <2> QED
    BY <1>4, <1>9, <2>1, <2>2
<1>10. CASE Head(todo) = "preserve"
  <2> DEFINE v == [now[art] EXCEPT !.rb = now[art].live]
  <2>1. Write(art, v)
    BY <1>1, <1>10, OpFacts
  <2>2. v \in States /\ v.live = "old" /\ v.rb = "old"
    BY <1>1, <1>2, <1>10 DEF States
  <2> HIDE DEF v
  <2> QED
    BY <1>4, <1>10, <2>1, <2>2
<1>11. CASE Head(todo) = "build"
  <2> DEFINE v == [now[art] EXCEPT !.live = "part"]
  <2>1. Write(art, v)
    BY <1>1, <1>11, OpFacts
  <2>2. v \in States /\ v.live = "part" /\ v.rb = now[art].rb
    BY <1>2 DEF States, Lives
  <2> HIDE DEF v
  <2> QED
    BY <1>4, <1>11, <2>1, <2>2
<1>12. CASE Head(todo) = "activate"
  <2> DEFINE v == [now[art] EXCEPT !.live = "new"]
  <2>1. Write(art, v)
    BY <1>1, <1>12, OpFacts
  <2>2. v \in States /\ v.live = "new" /\ v.rb = now[art].rb
    BY <1>2 DEF States, Lives
  <2> HIDE DEF v
  <2> QED
    BY <1>4, <1>12, <2>1, <2>2
<1>13. CASE Head(todo) = "remove"
  <2> DEFINE v == [now[art] EXCEPT !.live = "none"]
  <2>1. Write(art, v)
    BY <1>1, <1>13, OpFacts
  <2>2. v \in States /\ v.live = "none" /\ v.rb = now[art].rb
    BY <1>2 DEF States, Lives
  <2> HIDE DEF v
  <2> QED
    BY <1>4, <1>13, <2>1, <2>2
<1>15. CASE Head(todo) = "replace"
  <2> DEFINE v == [now[art] EXCEPT !.live = now[art].rb]
  <2>1. Write(art, v)
    BY <1>1, <1>15, OpFacts
  <2>2. v \in States /\ v.live = now[art].rb /\ v.rb = now[art].rb
    BY <1>2 DEF States, Lives
  <2> HIDE DEF v
  <2> QED
    BY <1>4, <1>15, <2>1, <2>2
<1>16. CASE Head(todo) = "restore"
  <2> DEFINE v == [live |-> now[art].rb, rb |-> "none"]
  <2>1. Write(art, v)
    BY <1>1, <1>16, OpFacts
  <2>2. v \in States /\ v.live = now[art].rb
    BY <1>2 DEF States
  <2> HIDE DEF v
  <2> QED
    BY <1>4, <1>16, <2>1, <2>2
<1> QED
  BY <1>1, <1>6, <1>7, <1>8, <1>9, <1>10, <1>11, <1>12, <1>13, <1>15, <1>16 DEF ArtOps

\* What an operation does to the database.
LEMMA DoDb ==
    ASSUME IInv, Do, install' = install, art = "db"
    PROVE  /\ DiskTypes' /\ now' = now /\ \A b \in Artifacts : may'[b] \subseteq may[b]
           /\ enable' = enable /\ mayEnable' = mayEnable
           /\ Head(todo) \in {"backup", "sync"} => db' = db /\ mayDb' = {db}
           /\ Head(todo) \in {"erase", "copy"} => db' = "part" /\ mayDb' = mayDb \cup {"part"}
           /\ Head(todo) = "erased" => db' = "none" /\ mayDb' = {"none"}
           /\ Head(todo) = "copied" => db' = "old" /\ mayDb' = mayDb \cup {"old"}
           /\ Head(todo) \in {"record", "lineage", "restored"} => db' = db /\ mayDb' = mayDb
<1>1. TypeOK /\ Op(Head(todo), art) /\ Head(todo) \in DbOps
  BY DoFrame, DoHead
<1>2. DiskTypes
  BY <1>1, TypeParts
<1>3. CASE Head(todo) \in {"record", "restored"}
  <2>1. Sync({"host"})
    BY <1>3, DoJournal
  <2>2. /\ now' = now /\ may' \in [Artifacts -> SUBSET States]
        /\ \A a \in Artifacts : now'[a] \in may'[a] /\ may'[a] \subseteq may[a]
    BY <1>1, <2>1, SyncFacts
  <2>3. /\ enable' = enable /\ mayEnable' = mayEnable /\ db' = db /\ mayDb' = mayDb
        /\ backup' = backup
    BY <2>1 DEF Sync
  <2> QED
    BY <1>2, <1>3, <2>2, <2>3 DEF DiskTypes
<1>4. CASE Head(todo) = "sync"
  <2>1. Sync({"var"})
    BY <1>1, <1>4, OpFacts DEF FsOf
  <2>2. /\ now' = now /\ may' \in [Artifacts -> SUBSET States]
        /\ \A a \in Artifacts : now'[a] \in may'[a] /\ may'[a] \subseteq may[a]
    BY <1>1, <2>1, SyncFacts
  <2>3. /\ enable' = enable /\ mayEnable' = mayEnable /\ db' = db /\ mayDb' = {db}
        /\ backup' = backup
    BY <2>1 DEF Sync
  <2> QED
    BY <1>2, <1>4, <2>2, <2>3 DEF DiskTypes
<1>5. CASE Head(todo) \in {"backup", "erase", "copy", "erased", "copied", "lineage"}
  <2>1. now' = now /\ may' = may /\ enable' = enable /\ mayEnable' = mayEnable
    BY <1>1, <1>5, OpFacts DEF BackupDb, WriteDb, ErasedDb, disk
  <2>2. /\ Head(todo) = "backup" => db' = db /\ mayDb' = {db} /\ backup' = TRUE
        /\ Head(todo) \in {"erase", "copy"} =>
              db' = "part" /\ mayDb' = mayDb \cup {"part"} /\ backup' = backup
        /\ Head(todo) = "erased" => db' = "none" /\ mayDb' = {"none"} /\ backup' = backup
        /\ Head(todo) = "copied" => db' = "old" /\ mayDb' = mayDb \cup {"old"} /\ backup' = backup
        /\ Head(todo) = "lineage" => db' = db /\ mayDb' = mayDb /\ backup' = backup
    BY <1>1, OpFacts DEF BackupDb, WriteDb, ErasedDb, disk
  <2>3. /\ db' \in mayDb' /\ mayDb' \subseteq {"old", "oldw", "new", "none", "part"}
        /\ backup' \in BOOLEAN
    BY <1>2, <1>5, <2>2 DEF DiskTypes
  <2>4. DiskTypes'
    BY <1>2, <2>1, <2>3 DEF DiskTypes
  <2> QED
    BY <1>5, <2>1, <2>2, <2>4
<1> QED
  BY <1>1, <1>3, <1>4, <1>5 DEF DbOps

\* The disks apart from the artifact in hand.
LEMMA DoDisk ==
    ASSUME IInv, Do, install' = install
    PROVE  /\ DiskTypes'
           /\ \A b \in Artifacts : b # art => now'[b] = now[b] /\ may'[b] \subseteq may[b]
           /\ enable' = enable /\ enable \in mayEnable' /\ mayEnable' \subseteq mayEnable
           /\ art # "db" => db' = db /\ mayDb' = mayDb
<1>1. CASE art = "db"
  BY <1>1, DoDb DEF DiskTypes
<1>2. CASE art # "db"
  BY <1>2, DoArt
<1> QED
  BY <1>1, <1>2

\* The markers of a record arm the rollback of the artifact in hand only.
LEMMA SwapMarkersAre ==
    ASSUME NEW a \in Things
    PROVE  /\ MarkerOf(a) \in SwapMarkers(a) /\ MarkerOf(a) \in Things
           /\ "restored" \notin SwapMarkers(a)
           /\ "db" \in SwapMarkers(a) <=> a = "db"
           /\ "marker" \in SwapMarkers(a) <=> a = "marker"
           /\ "marker-absent" \in SwapMarkers(a) <=> a = "marker" /\ ~MarkerExisted
  BY DEF SwapMarkers, MarkerOf, Things, Artifacts

\* An operation keeps the types.
LEMMA DoTypes ==
    ASSUME IInv, Do, install' = install
    PROVE  TypeOK'
<1>1. RunTypes /\ RestTypes /\ TypeOK
  BY TypeParts DEF IInv
<1>2. journal' \in JournalType /\ ledger' \subseteq Markers
  BY DoJournal
<1>3. RunTypes'
  BY <1>1, <1>2, DoFrame DEF RunTypes, JournalType
<1>4. loaded' \in Lives
  BY <1>1, DoFrame, ArtifactTypes DEF RestTypes, Artifacts
<1>5. RestTypes'
  BY <1>1, <1>4, DoFrame DEF RestTypes
<1> QED
  BY <1>3, <1>5, DoDisk DEF TypeOK, RunTypes, DiskTypes, RestTypes, Things

\* An operation keeps process and journal together.
LEMMA DoPc ==
    ASSUME IInv, Do, install' = install
    PROVE  PcInv'
<1> PcInv
  BY DEF IInv
<1>1. /\ pc' = pc /\ pc \in {"swap", "mark", "rb"} /\ runs' = runs /\ plan' = plan
      /\ journal.state = "active" /\ journal.armed /\ art \in Things
  BY DoFrame
<1>2. /\ journal'.state = "active" /\ journal'.run = journal.run
      /\ journal'.armed /\ ledger' = journal'.ledger
      /\ journal.ledger \subseteq journal'.ledger
  BY DoJournal
<1>3. journal # NoJournal /\ journal' # NoJournal
  BY <1>1, <1>2 DEF NoJournal
<1>4. pc # "rb" => "restored" \notin journal'.ledger
  <2>1. ASSUME pc # "rb"
        PROVE  "restored" \notin journal.ledger /\ Head(todo) # "restored"
    BY <2>1, <1>1, DoHead DEF PcInv, Window, SwapShape
  <2> QED
    BY <1>1, <2>1, DoJournal, SwapMarkersAre
<1>5. plan \in Plans /\ {"autostart", "fenceheld"} \subseteq journal.ledger
  BY <1>1 DEF PcInv
<1>6. journal.run = runs /\ runs > 0
  BY <1>3 DEF PcInv
<1> QED
  BY <1>1, <1>2, <1>3, <1>4, <1>5, <1>6 DEF PcInv, Early, Window, Accepted, Backward

\* An operation keeps the fence.
LEMMA DoFence ==
    ASSUME IInv, Do, install' = install
    PROVE  FenceInv'
<1> PcInv /\ FenceInv
  BY DEF IInv
<1>1. /\ pc' = pc /\ pc \in {"swap", "mark", "rb"} /\ fence' = fence /\ mayFence' = mayFence
      /\ job' = job /\ req' = req /\ journal.state = "active" /\ journal.armed
  BY DoFrame
<1>2. journal'.run = journal.run
  BY DoJournal
<1>3. "fenceheld" \in journal.ledger
  BY <1>1 DEF PcInv
<1>4. OldHasRoute' = OldHasRoute
  BY DEF OldHasRoute
<1> QED
  BY <1>1, <1>2, <1>3, <1>4 DEF FenceInv, NoOrphanFence

\* An operation keeps boot activation as it is.
LEMMA DoBoot ==
    ASSUME IInv, Do, install' = install
    PROVE  BootInv'
<1> BootInv
  BY DEF IInv
<1>1. /\ pc' = pc /\ pc \in {"swap", "mark", "rb"} /\ reenabled' = reenabled /\ ran' = ran
      /\ journal.state = "active" /\ art \in Things
  BY DoFrame
<1>2. enable \in mayEnable' /\ mayEnable' \subseteq mayEnable
  BY DoDisk
<1>3. CASE pc = "rb"
  <2>1. journal.ledger \cap Things # {}
    BY <1>1, <1>3, SwapMarkersAre, DoFrame DEF IInv, UndoHand, Attempted
  <2>2. reenabled \/ TRUE \notin mayEnable
    BY <1>1, <2>1 DEF BootInv
  <2> QED
    BY <1>1, <1>2, <1>3, <2>2 DEF BootInv
<1>4. CASE pc \in {"swap", "mark"}
  <2>1. mayEnable = {FALSE}
    BY <1>4 DEF BootInv
  <2>2. mayEnable' = {FALSE}
    BY <1>2, <2>1
  <2> QED
    BY <1>1, <1>4, <2>2 DEF BootInv
<1> QED
  BY <1>1, <1>3, <1>4

\* Without a restored database there is nothing the restored service wrote.
LEMMA NothingWritten ==
    ASSUME IInv, journal.state = "active", "restored" \notin journal.ledger
    PROVE  "oldw" \notin mayDb
  BY DEF IInv, TypeOK, CalmInv, LedgerInv

\* An operation keeps what is calm, and what the restored service wrote.
LEMMA DoCalm ==
    ASSUME IInv, Do, install' = install
    PROVE  CalmInv' /\ DoneInv'
<1>1. /\ pc' = pc /\ pc \in {"swap", "mark", "rb"} /\ todo # <<>> /\ journal.state = "active"
      /\ art \in Things
  BY DoFrame
<1>2. journal'.state = "active" /\ journal'.armed
  BY DoJournal
<1>3. ~Calm' /\ DoneInv'
  BY <1>1, <1>2 DEF Calm, DoneInv
<1>4. "oldw" \in mayDb => mayDb = {"oldw"}
  BY DEF IInv, CalmInv
<1>5. CASE art # "db"
  BY <1>3, <1>4, <1>5, DoDisk DEF CalmInv
<1>6. CASE art = "db" /\ "restored" \in journal.ledger
  <2>1. pc = "rb"
    BY <1>1, <1>6 DEF IInv, PcInv, Window
  <2>2. todo = <<"lineage">>
    BY <1>1, <1>6, <2>1 DEF IInv, UndoHand
  <2>3. mayDb' = mayDb
    BY <1>6, <2>2, DoDb
  <2> QED
    BY <1>3, <1>4, <2>3 DEF CalmInv
<1>7. CASE art = "db" /\ "restored" \notin journal.ledger
  <2>1. "oldw" \notin mayDb /\ db \in mayDb
    BY <1>1, <1>7, NothingWritten DEF IInv, TypeOK
  <2>2. Head(todo) \in DbOps
    BY <1>7, DoHead
  <2>3. "oldw" \notin mayDb'
    BY <1>7, <2>1, <2>2, DoDb DEF DbOps
  <2> QED
    BY <1>3, <2>3 DEF CalmInv
<1> QED
  BY <1>5, <1>6, <1>7

\* An operation on an artifact leaves a way back from every state it may be in.
LEMMA DoSafe ==
    ASSUME IInv, Do, install' = install
    PROVE  \A b \in Artifacts : Safe(b)'
<1>1. /\ pc \in {"swap", "mark", "rb"} /\ todo # <<>> /\ journal.state = "active"
      /\ \A a \in Things : OldLive(a)' = OldLive(a)
  BY DoFrame
<1>2. (\A b \in Artifacts : Safe(b)) /\ SwapHand /\ UndoHand
  BY <1>1 DEF IInv, LedgerInv
<1>3. journal.ledger \subseteq journal'.ledger
  BY DoJournal
<1>4. ASSUME NEW b \in Artifacts, b # art
      PROVE  Safe(b)'
  BY <1>2, <1>3, <1>4, DoDisk, SafeKeeps
<1>5. ASSUME art \in Artifacts
      PROVE  Safe(art)'
  <2>1. art # "db" /\ Head(todo) \in ArtOps /\ art \in Things
    BY <1>5, DoHead DEF Artifacts, Things
  <2>2. CASE Head(todo) \in {"record", "sync", "reload"}
    <3>1. may'[art] \subseteq may[art]
      BY <2>1, <2>2, DoArt
    <3>2. \A s \in may'[art] : Fixable(art, s) /\ (Attempted(art) \/ s.live = OldLive(art))
      BY <1>2, <1>5, <3>1 DEF Safe
    <3> QED
      BY <1>1, <1>3, <2>1, <3>2, DoFrame DEF Safe, Fixable, Attempted
  <2>3. CASE Head(todo) \notin {"record", "sync", "reload"}
    <3>1. may'[art] = may[art] \cup {now'[art]}
      BY <2>1, <2>3, DoArt
    <3>2. Fixable(art, now'[art]) /\ (Attempted(art) \/ now'[art].live = OldLive(art))
      <4>1. CASE pc # "rb"
        <5>1. SwapShape(art, todo)
          BY <4>1, DoHead
        <5>2. Todo(todo, "record") \/ Attempted(art)
          BY <1>1, <1>2, <4>1 DEF SwapHand
        <5>3. \/ Todo(todo, "aside") \/ Todo(todo, "preserve")
              \/ OldLive(art) = "none" \/ now[art].rb = "old"
          BY <1>1, <1>2, <2>1, <4>1 DEF SwapHand
        <5>4. CASE Head(todo) \in {"aside", "preserve"}
          BY <2>1, <5>1, <5>2, <5>4, DoArt DEF SwapShape, Fixable
        <5>5. CASE Head(todo) \in {"build", "activate"}
          BY <2>1, <5>1, <5>2, <5>3, <5>5, DoArt DEF SwapShape, Fixable
        <5> QED
          BY <2>1, <2>3, <5>1, <5>4, <5>5 DEF SwapShape
      <4>2. CASE pc = "rb"
        <5>1. UndoShape(art, todo)
          BY <2>1, <4>2, DoHead
        <5>2. /\ Attempted(art)
              /\ Todo(todo, "restore") \/ Todo(todo, "replace") => now[art].rb = "old"
          BY <1>1, <1>2, <2>1, <4>2 DEF UndoHand
        <5>3. CASE Head(todo) \in {"remove", "build"}
          <6>1. OldLive(art) = "none" \/ Todo(todo, "restore") \/ Todo(todo, "replace")
            BY <5>1, <5>3 DEF UndoShape
          <6> QED
            BY <2>1, <5>2, <5>3, <6>1, DoArt DEF Fixable
        <5>4. CASE Head(todo) \in {"restore", "replace"}
          <6>1. Todo(todo, "restore") \/ Todo(todo, "replace")
            BY <5>1, <5>4 DEF UndoShape
          <6> QED
            BY <2>1, <5>2, <5>4, <6>1, DoArt DEF Fixable
        <5> QED
          BY <2>3, <5>1, <5>3, <5>4 DEF UndoShape
      <4> QED
        BY <4>1, <4>2
    <3>3. \A s \in may'[art] : Fixable(art, s) /\ (Attempted(art) \/ s.live = OldLive(art))
      BY <1>2, <1>5, <3>1, <3>2 DEF Safe
    <3> QED
      BY <1>1, <1>3, <2>1, <3>3, DoFrame DEF Safe, Fixable, Attempted
  <2> QED
    BY <2>2, <2>3
<1>6. ASSUME NEW b \in Artifacts, b = art
      PROVE  Safe(b)'
  <2>1. Safe(art)'
    BY <1>5, <1>6
  <2> QED
    BY <1>6, <2>1, DoFrame
<1> QED
  BY <1>4, <1>6

\* An operation keeps the ledger an account of what was touched.
LEMMA DoLedger ==
    ASSUME IInv, Do, install' = install
    PROVE  LedgerInv'
<1>1. /\ pc \in {"swap", "mark", "rb"} /\ todo # <<>> /\ journal.state = "active" /\ art \in Things
      /\ loaded' = IF Head(todo) = "reload" THEN now["unit"].live ELSE loaded
      /\ TypeOK /\ db \in mayDb
  BY DoFrame DEF TypeOK
<1>2. LedgerInv /\ SwapHand /\ UndoHand /\ PcInv
  BY DEF IInv
<1>3. /\ journal'.state = "active" /\ journal.ledger \subseteq journal'.ledger
      /\ Head(todo) \notin {"record", "restored"} => journal' = journal
      /\ Head(todo) = "record" => journal'.ledger = journal.ledger \cup SwapMarkers(art)
      /\ Head(todo) = "restored" => journal'.ledger = journal.ledger \cup {"restored"}
  BY DoJournal
<1>4. MarkerExisted' = MarkerExisted
  BY DEF MarkerExisted
<1>5. "unit" \in journal'.ledger \/ loaded' = "old"
  <2>1. CASE Head(todo) = "reload"
    <3>1. art = "unit"
      BY <1>1, <2>1, DoHead DEF SwapShape, UndoShape, DbOps
    <3>2. Attempted("unit")
      BY <1>1, <1>2, <2>1, <3>1, DoHead DEF SwapShape, SwapHand, UndoHand
    <3> QED
      BY <1>3, <3>2 DEF Attempted, MarkerOf
  <2>2. CASE Head(todo) # "reload"
    BY <1>1, <1>2, <1>3, <2>2 DEF LedgerInv
  <2> QED
    BY <2>1, <2>2
<1>6. "marker-absent" \in journal'.ledger <=> "marker" \in journal'.ledger /\ ~MarkerExisted
  <2>1. "marker-absent" \in journal.ledger <=> "marker" \in journal.ledger /\ ~MarkerExisted
    BY <1>1, <1>2 DEF LedgerInv
  <2> QED
    BY <1>1, <1>3, <2>1, SwapMarkersAre
<1>7. /\ "db" \in journal'.ledger \/ (mayDb' = {"old"} /\ "restored" \notin journal'.ledger)
      /\ "restored" \in journal'.ledger => DbOld'
      /\ db' = "oldw" => "restored" \in journal'.ledger
  <2>1. /\ "db" \in journal.ledger \/ (mayDb = {"old"} /\ "restored" \notin journal.ledger)
        /\ "restored" \in journal.ledger => DbOld
        /\ db = "oldw" => "restored" \in journal.ledger
    BY <1>1, <1>2 DEF LedgerInv
  <2>2. CASE art # "db"
    <3>1. Head(todo) # "restored"
      BY <2>2, DoHead DEF ArtOps
    <3>2. "restored" \in journal'.ledger <=> "restored" \in journal.ledger
      BY <1>1, <1>3, <3>1, SwapMarkersAre
    <3>3. db' = db /\ mayDb' = mayDb
      BY <2>2, DoDisk
    <3> QED
      BY <1>3, <2>1, <3>2, <3>3 DEF DbOld
  <2>3. CASE art = "db" /\ pc # "rb"
    <3>1. SwapShape("db", todo) /\ "restored" \notin journal.ledger
      BY <1>1, <1>2, <2>3, DoHead DEF PcInv, Window
    <3>2. "restored" \notin journal'.ledger
      BY <1>1, <1>3, <3>1, SwapMarkersAre DEF SwapShape
    <3>3. CASE Head(todo) = "backup"
      BY <1>1, <1>3, <2>1, <2>3, <3>2, <3>3, DoDb
    <3>4. CASE Head(todo) = "record"
      BY <1>1, <1>3, <2>1, <2>3, <3>2, <3>4, DoDb, SwapMarkersAre
    <3>5. CASE Head(todo) \in {"erase", "erased"}
      <4>1. Attempted("db")
        BY <1>1, <1>2, <2>3, <3>1, <3>5 DEF SwapShape, SwapHand
      <4>2. db' # "oldw"
        BY <2>3, <3>5, DoDb
      <4> QED
        BY <1>3, <3>2, <4>1, <4>2 DEF Attempted, MarkerOf
    <3> QED
      BY <3>1, <3>3, <3>4, <3>5 DEF SwapShape
  <2>4. CASE art = "db" /\ pc = "rb"
    <3>1. "db" \in journal'.ledger
      BY <1>1, <1>2, <1>3, <2>4 DEF UndoHand, Attempted, MarkerOf
    <3>2. CASE "restored" \in journal.ledger
      <4>1. todo = <<"lineage">>
        BY <1>1, <1>2, <2>4, <3>2 DEF UndoHand
      <4>2. db' = db /\ mayDb' = mayDb
        BY <2>4, <4>1, DoDb
      <4> QED
        BY <1>3, <2>1, <3>1, <3>2, <4>2 DEF DbOld
    <3>3. CASE "restored" \notin journal.ledger
      <4>1. todo \in DbLeft /\ (Todo(todo, "sync") \/ mayDb = {"old"})
        BY <1>1, <1>2, <2>4, <3>3 DEF UndoHand
      <4>2. "oldw" \notin mayDb'
        <5>1. "oldw" \notin mayDb /\ Head(todo) \in DbOps
          BY <1>1, <2>4, <3>3, NothingWritten, DoHead
        <5> QED
          BY <1>1, <2>4, <5>1, DoDb DEF DbOps
      <4>3. db' # "oldw"
        BY <4>2, DoDisk DEF DiskTypes
      <4>4. CASE Head(todo) = "restored"
        <5>1. mayDb = {"old"}
          BY <4>1, <4>4, DbLeftShape
        <5>2. mayDb' = mayDb
          BY <2>4, <4>4, DoDb
        <5> QED
          BY <3>1, <4>3, <5>1, <5>2 DEF DbOld
      <4>5. CASE Head(todo) # "restored"
        <5>1. Head(todo) # "record"
          BY <4>1, DbLeftShape
        <5> QED
          BY <1>3, <3>1, <3>3, <4>3, <4>5, <5>1
      <4> QED
        BY <4>4, <4>5
    <3> QED
      BY <3>2, <3>3
  <2> QED
    BY <2>2, <2>3, <2>4
<1> QED
  BY <1>3, <1>4, <1>5, <1>6, <1>7, DoSafe DEF LedgerInv

\* An artifact that is not in hand stays what it is, or gets durable.
LEMMA DoOthers ==
    ASSUME IInv, Do, install' = install, NEW b \in Artifacts, b # art
    PROVE  now'[b] = now[b] /\ (ArtOld(b) => ArtOld(b)') /\ (Back(b) => Back(b)')
<1>1. now'[b] = now[b] /\ may'[b] \subseteq may[b]
  BY DoDisk
<1>2. OldLive(b)' = OldLive(b)
  BY DoFrame DEF Things
<1> QED
  BY <1>1, <1>2 DEF ArtOld, Back

\* The last operation forwards leaves the new artifact live.
LEMMA DoActivates ==
    ASSUME IInv, Do, install' = install, pc # "rb", art # "db"
    PROVE  Todo(todo', "activate") \/ now'[art].live = "new"
<1>1. pc \in {"swap", "mark"} /\ todo # <<>> /\ todo' = Tail(todo)
  BY DoFrame
<1>2. SwapShape(art, todo) /\ Head(todo) \in ArtOps
  BY DoHead
<1>3. Todo(todo, "activate") \/ now[art].live = "new"
  BY <1>1 DEF IInv, SwapHand
<1>4. CASE Head(todo) = "activate"
  BY <1>4, DoArt
<1>5. CASE Head(todo) \in {"record", "sync", "reload"}
  BY <1>1, <1>2, <1>3, <1>5, DoArt DEF SwapShape
<1>6. CASE Head(todo) \in {"aside", "preserve"}
  <2>1. now[art].live = "old"
    BY <1>6, DoHead
  <2> QED
    BY <1>1, <1>2, <1>3, <1>6, <2>1 DEF SwapShape
<1>7. CASE Head(todo) = "build"
  BY <1>1, <1>2, <1>7 DEF SwapShape
<1> QED
  BY <1>2, <1>4, <1>5, <1>6, <1>7 DEF SwapShape

\* An operation keeps the account of what is swapped.
LEMMA DoSwap ==
    ASSUME IInv, Do, install' = install
    PROVE  SwapInv'
<1>1. /\ pc \in {"swap", "mark", "rb"} /\ todo # <<>> /\ todo' = Tail(todo)
      /\ pc' = pc /\ left' = left /\ art' = art /\ plan' = plan /\ art \in Things
      /\ journal.state = "active"
      /\ loaded' = IF Head(todo) = "reload" THEN now["unit"].live ELSE loaded
  BY DoFrame
<1>2. SwapInv /\ PcInv
  BY DEF IInv
<1>3. ToSwap' = ToSwap
  BY <1>1 DEF ToSwap
<1>4. CASE pc = "rb"
  BY <1>1, <1>4 DEF SwapInv, Accepted
<1>5. CASE pc \in {"swap", "mark"}
  <2>1. plan \in Plans
    BY <1>2, <1>5 DEF PcInv, Window
  <2>2. plan.changed \subseteq Artifacts /\ "marker" \notin plan.changed
    BY <2>1, PlansAssumption
  <2>3. SwapShape(art, todo)
    BY <1>5, DoHead
  <2>4. art \notin left /\ \A b \in left \cap Artifacts : ArtOld(b)
    BY <1>1, <1>2, <1>5 DEF SwapInv
  <2>5. \A b \in left \cap Artifacts : ArtOld(b)'
    BY <2>4, DoOthers
  <2>6. art # "db" /\ todo' = <<>> => now'[art].live = "new"
    BY <1>5, DoActivates, TodoNone
  <2>7. \A b \in Artifacts : b # art => now'[b] = now[b]
    BY DoOthers
  <2>8. CASE pc = "swap"
    <3>1. left \subseteq ToSwap /\ art \in ToSwap
      BY <1>1, <1>2, <2>8 DEF SwapInv
    <3>2. art # "marker" /\ (art = "db" => plan.reset)
      BY <2>2, <3>1 DEF ToSwap, Artifacts
    <3>3. ArtOld("marker")'
      BY <1>2, <2>8, <3>2, DoOthers DEF SwapInv, Artifacts
    <3>4. art # "db" => ("db" \in journal'.ledger <=> "db" \in journal.ledger)
      BY <1>1, <2>3, DoJournal, SwapMarkersAre DEF SwapShape
    <3>5. plan.reset \/ "db" \notin journal'.ledger
      BY <1>2, <2>8, <3>2, <3>4 DEF SwapInv
    <3>6. \A a \in plan.changed : a \in left \/ InHand(a)' \/ now'[a].live = "new"
      <4> SUFFICES ASSUME NEW a \in plan.changed
                   PROVE  a \in left \/ InHand(a)' \/ now'[a].live = "new"
        OBVIOUS
      <4>1. CASE a = art
        <5>1. art # "db"
          BY <2>2, <4>1 DEF Artifacts
        <5> QED
          BY <1>1, <2>6, <4>1, <5>1 DEF InHand
      <4>2. CASE a # art
        <5>1. now'[a] = now[a]
          BY <2>2, <2>7, <4>2
        <5> QED
          BY <1>2, <2>8, <4>2, <5>1 DEF SwapInv, InHand
      <4> QED
        BY <4>1, <4>2
    <3>7. plan.reset => "db" \in left \/ InHand("db")' \/ db' = "none"
      <4>1. CASE art = "db"
        <5>1. todo' = <<>> => Head(todo) = "erased"
          BY <1>1, <2>3, <4>1 DEF SwapShape
        <5> QED
          BY <1>1, <4>1, <5>1, DoDb DEF InHand
      <4>2. CASE art # "db"
        BY <1>2, <2>8, <4>2, DoDisk DEF SwapInv, InHand
      <4> QED
        BY <4>1, <4>2
    <3>8. "db" \in left => "db" \notin journal'.ledger
      BY <1>2, <2>4, <2>8, <3>4 DEF SwapInv
    <3>9. InHand("unit")' \/ loaded' = now'["unit"].live
      <4>1. CASE art = "unit"
        <5>1. todo' = <<>> => Head(todo) = "reload"
          BY <1>1, <2>3, <4>1 DEF SwapShape
        <5>2. Head(todo) = "reload" => now'["unit"] = now["unit"]
          BY <4>1, DoArt
        <5> QED
          BY <1>1, <4>1, <5>1, <5>2 DEF InHand
      <4>2. CASE art # "unit"
        <5>1. Head(todo) # "reload"
          BY <2>3, <4>2 DEF SwapShape
        <5>2. loaded = now["unit"].live /\ now'["unit"] = now["unit"]
          BY <1>2, <2>7, <2>8, <4>2 DEF SwapInv, InHand, Artifacts
        <5> QED
          BY <1>1, <5>1, <5>2
      <4> QED
        BY <4>1, <4>2
    <3> QED
      BY <1>1, <1>3, <2>4, <2>5, <2>8, <3>1, <3>3, <3>5, <3>6, <3>7, <3>8, <3>9 DEF SwapInv, Accepted
  <2>9. CASE pc = "mark"
    <3>1. left \subseteq {"marker"} /\ art = "marker"
      BY <1>1, <1>2, <2>9 DEF SwapInv
    <3>2. \A a \in plan.changed : now'[a].live = "new"
      BY <1>2, <2>2, <2>7, <2>9, <3>1 DEF SwapInv
    <3>3. InHand("marker")' \/ now'["marker"].live = "new"
      BY <1>1, <2>6, <3>1 DEF InHand
    <3>4. plan.reset => db' = "new"
      BY <1>2, <2>9, <3>1, DoDisk DEF SwapInv
    <3> QED
      BY <1>1, <2>4, <2>5, <2>9, <3>1, <3>2, <3>3, <3>4 DEF SwapInv, Accepted
  <2> QED
    BY <1>5, <2>8, <2>9
<1> QED
  BY <1>1, <1>4, <1>5

\* An operation keeps the account of the artifact in hand, forwards.
LEMMA DoSwapHand ==
    ASSUME IInv, Do, install' = install
    PROVE  SwapHand'
<1>1. /\ pc \in {"swap", "mark", "rb"} /\ todo # <<>> /\ todo' = Tail(todo)
      /\ pc' = pc /\ art' = art /\ art \in Things
  BY DoFrame
<1> SUFFICES ASSUME pc \in {"swap", "mark"}, todo' # <<>>
             PROVE  SwapHand'
  BY <1>1 DEF SwapHand
<1>2. SwapHand /\ SwapShape(art, todo)
  BY DoHead DEF IInv
<1>3. SwapLeft(art)' = SwapLeft(art) /\ OldLive(art)' = OldLive(art)
  BY <1>1 DEF SwapLeft, OldLive, MarkerExisted
<1>4. todo' \in SwapLeft(art)
  BY <1>1, <1>2 DEF SwapShape
<1>5. Todo(todo', "record") \/ Attempted(art)'
  <2>1. CASE Head(todo) = "record"
    BY <1>1, <2>1, DoJournal, SwapMarkersAre DEF Attempted
  <2>2. CASE Head(todo) # "record"
    <3>1. Todo(todo', "record") \/ Attempted(art)
      BY <1>1, <1>2, <2>2 DEF SwapShape, SwapHand
    <3> QED
      BY <1>1, <3>1, DoJournal DEF Attempted
  <2> QED
    BY <2>1, <2>2
<1>6. art = "db" /\ Todo(todo', "record") => "db" \notin journal'.ledger
  BY <1>1, <1>2, DoJournal DEF SwapShape, SwapHand
<1>7. ASSUME art # "db"
      PROVE  /\ Todo(todo', "record") \/ Todo(todo', "aside") \/ Todo(todo', "preserve") => ArtOld(art)'
             /\ \/ Todo(todo', "aside") \/ Todo(todo', "preserve")
                \/ OldLive(art) = "none" \/ now'[art].rb = "old"
  <2>1. /\ Todo(todo, "record") \/ Todo(todo, "aside") \/ Todo(todo, "preserve") => ArtOld(art)
        /\ \/ Todo(todo, "aside") \/ Todo(todo, "preserve")
           \/ OldLive(art) = "none" \/ now[art].rb = "old"
    BY <1>1, <1>2, <1>7 DEF SwapHand
  <2>2. Head(todo) \in {"record", "aside", "preserve", "sync", "build", "activate", "reload"}
    BY <1>2, <1>7 DEF SwapShape
  <2>3. CASE Head(todo) \in {"record", "sync", "reload"}
    <3>1. now'[art] = now[art] /\ may'[art] \subseteq may[art]
      BY <1>7, <2>3, DoArt
    <3>2. ArtOld(art) => ArtOld(art)'
      BY <1>1, <1>3, <3>1 DEF ArtOld
    <3> QED
      BY <1>1, <1>2, <2>1, <2>3, <3>1, <3>2 DEF SwapShape
  <2>4. CASE Head(todo) = "aside"
    BY <1>1, <1>2, <1>7, <2>4, DoArt DEF SwapShape
  <2>5. CASE Head(todo) = "preserve"
    <3>1. ArtOld(art) /\ OldLive(art) = "old"
      BY <1>2, <2>1, <2>5 DEF SwapShape
    <3>2. may'[art] = may[art] \cup {now'[art]} /\ now'[art].live = "old" /\ now'[art].rb = "old"
      BY <1>7, <2>5, DoArt
    <3>3. ArtOld(art)'
      BY <1>1, <1>3, <3>1, <3>2 DEF ArtOld
    <3> QED
      BY <3>2, <3>3
  <2>6. CASE Head(todo) \in {"build", "activate"}
    BY <1>1, <1>2, <1>7, <2>1, <2>6, DoArt DEF SwapShape
  <2> QED
    BY <2>2, <2>3, <2>4, <2>5, <2>6
<1>8. art # "db" => Todo(todo', "activate") \/ now'[art].live = "new"
  BY DoActivates
<1> QED
  BY <1>1, <1>3, <1>4, <1>5, <1>6, <1>7, <1>8 DEF SwapHand

\* The last operation backwards leaves the old artifact live, and durable
\* unless the host's next checkpoint makes it so.
LEMMA DoRestores ==
    ASSUME IInv, Do, install' = install, pc = "rb", art # "db", todo' = <<>>
    PROVE  Back(art)' /\ (art = "unit" => loaded' = "old")
<1>1. /\ todo # <<>> /\ todo' = Tail(todo) /\ art' = art /\ art \in Things
      /\ loaded' = IF Head(todo) = "reload" THEN now["unit"].live ELSE loaded
      /\ OldLive(art)' = OldLive(art)
  BY DoFrame DEF OldLive, MarkerExisted
<1>2. UndoShape(art, todo) /\ Tail(todo) = <<>> /\ \A o : ~Todo(Tail(todo), o)
  BY <1>1, DoHead, TodoNone
<1>3. /\ \/ Todo(todo, "restore") \/ Todo(todo, "replace") \/ Todo(todo, "remove")
         \/ now[art].live = OldLive(art)
      /\ Todo(todo, "sync") \/ Todo(todo, "remove") \/ ArtOld(art)
  BY <1>1 DEF IInv, UndoHand
<1>4. CASE Head(todo) = "sync"
  <2>1. now[art].live = OldLive(art) /\ art # "unit"
    BY <1>2, <1>3, <1>4 DEF UndoShape
  <2>2. now'[art] = now[art] /\ may'[art] = {now[art]}
    BY <1>4, DoArt
  <2>3. ArtOld(art)'
    BY <1>1, <2>1, <2>2 DEF ArtOld
  <2> QED
    BY <1>1, <2>1, <2>2, <2>3 DEF Back
<1>5. CASE Head(todo) = "reload"
  <2>1. art = "unit" /\ now[art].live = OldLive(art) /\ ArtOld(art)
    BY <1>2, <1>3, <1>5 DEF UndoShape
  <2>2. now'[art] = now[art] /\ may'[art] \subseteq may[art]
    BY <1>5, DoArt
  <2>3. ArtOld(art)'
    BY <1>1, <2>1, <2>2 DEF ArtOld
  <2>4. loaded' = "old"
    BY <1>1, <1>5, <2>1 DEF OldLive
  <2> QED
    BY <1>1, <2>1, <2>2, <2>3, <2>4 DEF Back
<1>6. CASE Head(todo) = "remove"
  <2>1. OldLive(art) = "none" /\ FsOf(art) = "host"
    BY <1>2, <1>6 DEF UndoShape
  <2>2. now'[art].live = "none"
    BY <1>6, DoArt
  <2>3. art # "unit"
    BY <2>1 DEF FsOf
  <2> QED
    BY <1>1, <2>1, <2>2, <2>3 DEF Back
<1> QED
  BY <1>2, <1>4, <1>5, <1>6 DEF UndoShape

\* An operation keeps the account of what is undone.
LEMMA DoUndone ==
    ASSUME IInv, Do, install' = install
    PROVE  UndoneInv'
<1>1. /\ pc \in {"swap", "mark", "rb"} /\ todo # <<>> /\ todo' = Tail(todo)
      /\ pc' = pc /\ left' = left /\ art' = art /\ art \in Things /\ journal.state = "active"
      /\ loaded' = IF Head(todo) = "reload" THEN now["unit"].live ELSE loaded
  BY DoFrame
<1> SUFFICES ASSUME pc = "rb"
             PROVE  UndoneInv'
  BY <1>1 DEF UndoneInv
<1>2. UndoneInv /\ UndoHand /\ LedgerInv
  BY DEF IInv
<1>3. \A a \in left : Attempted(a)'
  BY <1>2, DoJournal DEF UndoneInv, Attempted
<1>4. \A a \in Artifacts : a \in left \/ InHand(a)' \/ Back(a)'
  <2>1. ASSUME NEW a \in Artifacts, a # art
        PROVE  a \in left \/ Back(a)'
    BY <1>2, <2>1, DoOthers DEF UndoneInv, InHand
  <2>2. ASSUME NEW a \in Artifacts, a = art
        PROVE  InHand(a)' \/ Back(a)'
    <3>1. art # "db"
      BY <2>2 DEF Artifacts
    <3>2. todo' = <<>> => Back(art)'
      BY <3>1, DoRestores
    <3> QED
      BY <1>1, <2>2, <3>2 DEF InHand
  <2> QED
    BY <2>1, <2>2
<1>5. "unit" \in left \/ InHand("unit")' \/ loaded' = "old"
  <2>1. CASE art = "unit"
    BY <1>1, <2>1, DoRestores DEF InHand
  <2>2. CASE art # "unit"
    <3>1. Head(todo) # "reload"
      BY <2>2, DoHead DEF UndoShape, DbOps
    <3> QED
      BY <1>1, <1>2, <2>2, <3>1 DEF UndoneInv, InHand
  <2> QED
    BY <2>1, <2>2
<1>6. "db" \in left \/ InHand("db")' \/ DbOld'
  <2>1. CASE art # "db"
    BY <1>2, <2>1, DoDisk DEF UndoneInv, InHand, DbOld
  <2>2. CASE art = "db" /\ todo = <<"lineage">> /\ "restored" \in journal.ledger
    <3>1. mayDb' = mayDb
      BY <2>2, DoDb
    <3> QED
      BY <1>1, <1>2, <2>2, <3>1 DEF LedgerInv, DbOld
  <2>3. CASE art = "db" /\ todo \in DbLeft /\ (Todo(todo, "sync") \/ mayDb = {"old"})
    <3>1. CASE todo' = <<>>
      <4>1. Head(todo) = "restored" /\ mayDb = {"old"}
        BY <1>1, <2>3, <3>1, DbLeftShape
      <4>2. mayDb' = mayDb
        BY <2>3, <4>1, DoDb
      <4> QED
        BY <4>1, <4>2 DEF DbOld
    <3>2. CASE todo' # <<>>
      BY <1>1, <2>3, <3>2 DEF InHand
    <3> QED
      BY <3>1, <3>2
  <2> QED
    BY <1>1, <1>2, <2>1, <2>2, <2>3 DEF UndoHand
<1>7. art \notin left
  BY <1>1, <1>2 DEF UndoneInv
<1> QED
  BY <1>1, <1>3, <1>4, <1>5, <1>6, <1>7 DEF UndoneInv

\* An operation keeps the account of the artifact in hand, backwards.
LEMMA DoUndoHand ==
    ASSUME IInv, Do, install' = install
    PROVE  UndoHand'
<1>1. /\ pc \in {"swap", "mark", "rb"} /\ todo # <<>> /\ todo' = Tail(todo)
      /\ pc' = pc /\ art' = art /\ art \in Things
  BY DoFrame
<1> SUFFICES ASSUME pc = "rb", todo' # <<>>
             PROVE  UndoHand'
  BY <1>1 DEF UndoHand
<1>2. UndoHand
  BY DEF IInv
<1>3. UndoLeft(art)' = UndoLeft(art) /\ OldLive(art)' = OldLive(art)
  BY <1>1 DEF UndoLeft, OldLive, MarkerExisted
<1>4. Attempted(art)'
  BY <1>1, <1>2, DoJournal DEF UndoHand, Attempted
<1>5. CASE art # "db"
  <2>1. UndoShape(art, todo)
    BY <1>5, DoHead
  <2>2. /\ Todo(todo, "restore") \/ Todo(todo, "replace") => now[art].rb = "old"
        /\ \/ Todo(todo, "restore") \/ Todo(todo, "replace") \/ Todo(todo, "remove")
           \/ now[art].live = OldLive(art)
        /\ Todo(todo, "sync") \/ Todo(todo, "remove") \/ ArtOld(art)
    BY <1>1, <1>2, <1>5 DEF UndoHand
  <2>3. todo' \in UndoLeft(art)
    BY <1>1, <2>1 DEF UndoShape
  <2>4. CASE Head(todo) \in {"remove", "build"}
    BY <1>1, <1>3, <1>4, <1>5, <2>1, <2>2, <2>3, <2>4, DoArt DEF UndoShape, UndoHand
  <2>5. CASE Head(todo) \in {"restore", "replace"}
    BY <1>1, <1>3, <1>4, <1>5, <2>1, <2>2, <2>3, <2>5, DoArt DEF UndoShape, UndoHand
  <2>6. CASE Head(todo) \in {"sync", "reload"}
    <3>1. /\ now[art].live = OldLive(art) /\ now'[art] = now[art] /\ may'[art] \subseteq may[art]
          /\ Head(todo) = "sync" => may'[art] = {now[art]}
          /\ Head(todo) = "reload" => ArtOld(art)
      BY <1>5, <2>1, <2>2, <2>6, DoArt DEF UndoShape
    <3>2. ArtOld(art)'
      BY <1>1, <1>3, <2>6, <3>1 DEF ArtOld
    <3>3. ~Todo(todo', "restore") /\ ~Todo(todo', "replace") /\ ~Todo(todo', "remove")
      BY <1>1, <2>1, <2>6 DEF UndoShape
    <3> QED
      BY <1>1, <1>3, <1>4, <1>5, <2>3, <3>1, <3>2, <3>3 DEF UndoHand
  <2> QED
    BY <2>1, <2>4, <2>5, <2>6 DEF UndoShape
<1>6. CASE art = "db"
  <2>1. todo # <<"lineage">>
    <3>1. ASSUME todo = <<"lineage">>
          PROVE  Tail(todo) = <<>>
      BY <3>1
    <3> QED
      BY <1>1, <3>1
  <2>2. /\ todo \in DbLeft /\ "restored" \notin journal.ledger
        /\ Todo(todo, "copied") \/ db = "old"
        /\ Todo(todo, "sync") \/ mayDb = {"old"}
    BY <1>1, <1>2, <1>6, <2>1 DEF UndoHand
  <2>3. todo' \in DbLeft /\ Head(todo) \notin {"record", "restored"}
    BY <1>1, <2>2, DbLeftShape
  <2>4. "restored" \notin journal'.ledger
    BY <2>2, <2>3, DoJournal
  <2>5. /\ Head(todo) \in {"erase", "erased", "copy", "copied", "sync", "lineage"}
        /\ \A o : Todo(todo, o) <=> o = Head(todo) \/ Todo(todo', o)
        /\ Head(todo) \in {"erase", "erased", "copy"} => Todo(todo', "copied")
        /\ Head(todo) \in {"erase", "erased", "copy", "copied"} => Todo(todo', "sync")
        /\ Head(todo) \in {"sync", "lineage"} => ~Todo(todo, "copied")
        /\ Head(todo) = "lineage" => ~Todo(todo, "sync")
    BY <1>1, <2>2, <2>3, DbLeftShape
  <2>6. Todo(todo', "copied") \/ db' = "old"
    BY <1>6, <2>2, <2>5, DoDb
  <2>7. Todo(todo', "sync") \/ mayDb' = {"old"}
    BY <1>6, <2>2, <2>5, DoDb
  <2> QED
    BY <1>1, <1>4, <1>6, <2>3, <2>4, <2>6, <2>7 DEF UndoHand
<1> QED
  BY <1>5, <1>6

\* Every operation of a process keeps the invariant.
LEMMA DoStep == IInv /\ Do /\ install' = install => IInv'
<1> SUFFICES ASSUME IInv, Do, install' = install PROVE IInv'
  OBVIOUS
<1>1. TypeOK' /\ PcInv' /\ LedgerInv' /\ BootInv' /\ CalmInv' /\ DoneInv'
  BY DoTypes, DoPc, DoLedger, DoBoot, DoCalm
<1>2. SwapInv' /\ SwapHand' /\ UndoneInv' /\ UndoHand' /\ FenceInv'
  BY DoSwap, DoSwapHand, DoUndone, DoUndoHand, DoFence
<1> QED
  BY <1>1, <1>2 DEF IInv

\* Every step keeps the types of the process and its journal.
LEMMA RunTypesStep == IInv /\ [Next]_vars => RunTypes'
<1> SUFFICES ASSUME IInv, [Next]_vars PROVE RunTypes'
  OBVIOUS
<1> install' = install
  BY DEF Next, vars
<1> USE DEF RunTypes, Things
<1> IInv /\ TypeOK
  BY DEF IInv
<1> RunTypes
  BY TypeParts
<1> USE FlagsAssumption
<1>1. CASE BeginRun
  <2>1. runs + 1 \in 0..MaxRuns /\ 0 \in 0..MaxRuns
    BY <1>1 DEF BeginRun
  <2>2. NoJournal \in JournalType
    BY <2>1 DEF NoJournal, JournalType
  <2>3. journal' = [NoJournal EXCEPT !.state = "active", !.run = runs + 1]
    BY <1>1 DEF BeginRun
  <2>4. journal' \in JournalType
    BY <2>1, <2>2, <2>3 DEF JournalType
  <2> QED
    BY <1>1, <2>1, <2>4 DEF BeginRun, NoPlan, work, Pcs, JournalType
<1>2. CASE Classify
  BY <1>2 DEF Classify, disk, work, Pcs
<1>3. CASE DryRun
  BY <1>3 DEF DryRun, Checkpoint, NoPlan, work, Pcs
<1>4. CASE RecoveryGate
  BY <1>4 DEF RecoveryGate, disk, NoJournal, work, Pcs
<1>5. CASE AcquireFence
  BY <1>5 DEF AcquireFence, PreActivationFence, disk, work, Pcs
<1>6. CASE FenceAnswer
  <2>1. CASE ans = "ok"
    <3>1. Record({"fenceheld"}, FALSE) /\ {"fenceheld"} \in SUBSET Markers
      BY <1>6, <2>1 DEF FenceAnswer, Markers
    <3>2. journal' \in JournalType /\ ledger' \subseteq Markers
      BY <3>1, RecordFacts
    <3> QED
      BY <1>6, <2>1, <3>2 DEF FenceAnswer, work, Pcs, JournalType
  <2>2. CASE ans # "ok"
    BY <1>6, <2>2 DEF FenceAnswer, work, Pcs
  <2> QED
    BY <2>1, <2>2
<1>7. CASE DisableAutostart
  <2>1. CASE pc = "disable"
    <3>1. Record({"autostart"}, TRUE) /\ {"autostart"} \in SUBSET Markers
      BY <1>7, <2>1 DEF DisableAutostart, Markers
    <3>2. journal' \in JournalType /\ ledger' \subseteq Markers
      BY <3>1, RecordFacts
    <3> QED
      BY <1>7, <2>1, <3>2 DEF DisableAutostart, work, Pcs, JournalType
  <2>2. CASE pc # "disable"
    BY <1>7, <2>2 DEF DisableAutostart, work, Pcs
  <2> QED
    BY <2>1, <2>2
<1>8. CASE StopService
  <2>1. CASE pc = "stop"
    <3>1. Record({"stop"}, TRUE) /\ {"stop"} \in SUBSET Markers
      BY <1>8, <2>1 DEF StopService, Markers
    <3>2. journal' \in JournalType /\ ledger' \subseteq Markers
      BY <3>1, RecordFacts
    <3> QED
      BY <1>8, <2>1, <3>2 DEF StopService, work, Pcs, JournalType
  <2>2. CASE pc = "stopping"
    <3>1. ToSwap \subseteq Things
      BY PlansAssumption DEF ToSwap, NoPlan
    <3> QED
      BY <1>8, <2>2, <3>1 DEF StopService, Pcs
  <2> QED
    BY <1>8, <2>1, <2>2 DEF StopService
<1>9. CASE Take
  BY <1>9 DEF Take, disk, work, Pcs
<1>10. CASE Do
  BY <1>10, DoStep DEF IInv, TypeOK, RunTypes, Things
<1>11. CASE StartTarget
  <2>1. {"marker"} \subseteq Things
    BY DEF Artifacts
  <2> QED
    BY <1>11, <2>1 DEF StartTarget, Pcs
<1>12. CASE FinishTarget
  BY <1>12 DEF FinishTarget, Checkpoint, WriteEnable, work, Pcs
<1>13. CASE ReleaseFence
  BY <1>13 DEF ReleaseFence, disk, work, Pcs
<1>14. CASE Cleanup
  BY <1>14 DEF Cleanup, Dropped, work, Pcs
<1>15. CASE ClearJournal
  BY <1>15 DEF ClearJournal, NoJournal, Dropped, work, Pcs
<1>16. CASE Untouched
  BY <1>16 DEF Untouched, Checkpoint, disk, work, Pcs
<1>17. CASE ExitTrap
  BY <1>17 DEF ExitTrap, disk, work, Pcs
<1>18. CASE RollbackStop
  BY <1>18 DEF RollbackStop, disk, work, Pcs
<1>19. CASE FinishRollback
  BY <1>19 DEF FinishRollback, Checkpoint, WriteEnable, StartService, disk,
     work, Pcs
<1>20. CASE ServeFence
  BY <1>20 DEF ServeFence, disk, work, Pcs
<1>21. CASE FenceAbandon
  BY <1>21 DEF FenceAbandon, disk, work, Pcs
<1>22. CASE CommandFails
  BY <1>22 DEF CommandFails, disk, work, Pcs
<1>23. CASE ProcessEnds
  BY <1>23 DEF ProcessEnds, disk, work, Pcs
<1>24. CASE PowerLoss
  BY <1>24 DEF PowerLoss, work, Pcs
<1>25. CASE Workload
  BY <1>25 DEF Workload, disk, work, Pcs
<1>26. CASE ServiceWrites
  BY <1>26 DEF ServiceWrites, work, Pcs
<1>27. CASE UNCHANGED vars
  BY <1>27 DEF vars, disk, work
<1>28. QED
  BY <1>1, <1>2, <1>3, <1>4, <1>5, <1>6, <1>7, <1>8, <1>9, <1>10, <1>11,
     <1>12, <1>13, <1>14, <1>15, <1>16, <1>17, <1>18, <1>19, <1>20, <1>21,
     <1>22, <1>23, <1>24, <1>25, <1>26, <1>27 DEF Next, Updater

\* Every step keeps the types of the rest.
LEMMA RestTypesStep == IInv /\ [Next]_vars => RestTypes'
<1> SUFFICES ASSUME IInv, [Next]_vars PROVE RestTypes'
  OBVIOUS
<1> install' = install
  BY DEF Next, vars
<1> USE DEF RestTypes
<1> IInv /\ TypeOK
  BY DEF IInv
<1> RunTypes /\ RestTypes
  BY TypeParts
<1> USE FlagsAssumption
<1>1. CASE BeginRun
  BY <1>1 DEF BeginRun, ClientGone, NoJournal, NoPlan, work, Pcs
<1>2. CASE Classify
  BY <1>2 DEF Classify, disk, work, Pcs
<1>3. CASE DryRun
  BY <1>3 DEF DryRun, Checkpoint, NoPlan, work, Pcs
<1>4. CASE RecoveryGate
  BY <1>4 DEF RecoveryGate, disk, NoJournal, work, Pcs
<1>5. CASE AcquireFence
  BY <1>5 DEF AcquireFence, PreActivationFence, disk, work, Pcs, RunTypes
<1>6. CASE FenceAnswer
  BY <1>6 DEF FenceAnswer, Record, Checkpoint, disk, work, Pcs
<1>7. CASE DisableAutostart
  BY <1>7 DEF DisableAutostart, Record, Checkpoint, WriteEnable, work, Pcs
<1>8. CASE StopService
  BY <1>8 DEF StopService, Record, Checkpoint, disk, ToSwap, work, Pcs
<1>9. CASE Take
  BY <1>9 DEF Take, disk, work, Pcs
<1>10. CASE Do
  BY <1>10, DoStep DEF IInv, TypeOK, RestTypes, Things
<1>11. CASE StartTarget
  <2>1. ran' \in {"none", "old", "new", "mixed"}
    BY <1>11, StartFacts DEF StartTarget
  <2> QED
    BY <1>11, <2>1 DEF StartTarget
<1>12. CASE FinishTarget
  BY <1>12 DEF FinishTarget, Checkpoint, WriteEnable, work, Pcs
<1>13. CASE ReleaseFence
  <2>1. 0 \in 0..MaxRuns
    OBVIOUS
  <2>2. CASE fence = journal.run
    BY <1>13, <2>1, <2>2 DEF ReleaseFence
  <2>3. CASE fence # journal.run
    <3>1. fence' = fence /\ ((mayFence' = {0} /\ fence = 0) \/ mayFence' = mayFence)
      BY <1>13, <2>3 DEF ReleaseFence
    <3> QED
      BY <1>13, <2>1, <3>1 DEF ReleaseFence
  <2> QED
    BY <2>2, <2>3
<1>14. CASE Cleanup
  BY <1>14 DEF Cleanup, Dropped, work, Pcs
<1>15. CASE ClearJournal
  BY <1>15 DEF ClearJournal, NoJournal, Dropped, work, Pcs
<1>16. CASE Untouched
  BY <1>16 DEF Untouched, Checkpoint, disk, work, Pcs
<1>17. CASE ExitTrap
  BY <1>17 DEF ExitTrap, disk, work, Pcs
<1>18. CASE RollbackStop
  BY <1>18 DEF RollbackStop, disk, work, Pcs
<1>19. CASE FinishRollback
  <2>1. CASE StartService
    <3>1. ran' \in {"none", "old", "new", "mixed"}
      BY <2>1, StartFacts
    <3> QED
      BY <1>19, <3>1 DEF FinishRollback
  <2>2. CASE ~StartService
    <3>1. ran' = ran /\ loaded' = loaded
      BY <1>19, <2>2 DEF FinishRollback
    <3>2. reenabled' \in BOOLEAN
      BY <1>19 DEF FinishRollback
    <3> QED
      BY <1>19, <3>1, <3>2 DEF FinishRollback
  <2> QED
    BY <2>1, <2>2
<1>20. CASE ServeFence
  <2>1. (fence' = req /\ mayFence' = {req}) \/ (fence' = fence /\ mayFence' = mayFence)
    BY <1>20 DEF ServeFence
  <2>2. req' \in 0..MaxRuns /\ ans' \in {"none", "ok", "refused"}
    BY <1>20 DEF ServeFence
  <2> QED
    BY <1>20, <2>1, <2>2 DEF ServeFence
<1>21. CASE FenceAbandon
  BY <1>21 DEF FenceAbandon, disk, work, Pcs
<1>22. CASE CommandFails
  BY <1>22 DEF CommandFails, disk, work, Pcs
<1>23. CASE ProcessEnds
  BY <1>23 DEF ProcessEnds, disk, work, Pcs
<1>24. CASE PowerLoss
  <2>1. ran' \in {"none", "old", "new", "mixed"}
    BY <1>24, StartedType DEF PowerLoss
  <2>2. loaded' \in Lives
    BY <1>24, PowerLossFacts DEF TypeOK
  <2>3. fence' \in mayFence' /\ mayFence' \subseteq 0..MaxRuns
    BY <1>24 DEF PowerLoss
  <2> QED
    BY <1>24, <2>1, <2>2, <2>3 DEF PowerLoss
<1>25. CASE Workload
  BY <1>25 DEF Workload, disk, work, Pcs
<1>26. CASE ServiceWrites
  BY <1>26 DEF ServiceWrites, work, Pcs
<1>27. CASE UNCHANGED vars
  BY <1>27 DEF vars, disk, work
<1>28. QED
  BY <1>1, <1>2, <1>3, <1>4, <1>5, <1>6, <1>7, <1>8, <1>9, <1>10, <1>11,
     <1>12, <1>13, <1>14, <1>15, <1>16, <1>17, <1>18, <1>19, <1>20, <1>21,
     <1>22, <1>23, <1>24, <1>25, <1>26, <1>27 DEF Next, Updater

\* Every step keeps the types of the disks.
LEMMA DiskTypesStep == IInv /\ [Next]_vars => DiskTypes'
<1> SUFFICES ASSUME IInv, [Next]_vars PROVE DiskTypes'
  OBVIOUS
<1> install' = install
  BY DEF Next, vars
<1> USE DEF DiskTypes
<1> IInv /\ TypeOK
  BY DEF IInv
<1> RunTypes /\ DiskTypes
  BY TypeParts
<1> USE FlagsAssumption
<1>1. CASE BeginRun
  BY <1>1 DEF BeginRun, ClientGone, NoJournal, NoPlan, work, Pcs
<1>2. CASE Classify
  BY <1>2 DEF Classify, disk, work, Pcs
<1>3. CASE DryRun
  <2>1. CASE Sync({"host"})
    BY <1>3, <2>1, SyncFacts DEF DryRun
  <2>2. CASE UNCHANGED disk
    BY <2>2 DEF disk
  <2> QED
    BY <1>3, <2>1, <2>2 DEF DryRun, Record, Checkpoint
<1>4. CASE RecoveryGate
  BY <1>4 DEF RecoveryGate, disk, NoJournal, work, Pcs
<1>5. CASE AcquireFence
  BY <1>5 DEF AcquireFence, PreActivationFence, disk, work, Pcs
<1>6. CASE FenceAnswer
  <2>1. CASE Sync({"host"})
    BY <1>6, <2>1, SyncFacts DEF FenceAnswer
  <2>2. CASE UNCHANGED disk
    BY <2>2 DEF disk
  <2> QED
    BY <1>6, <2>1, <2>2 DEF FenceAnswer, Record, Checkpoint
<1>7. CASE DisableAutostart
  <2>1. CASE Sync({"host"})
    BY <2>1, SyncFacts
  <2>2. CASE Sync({"etc"})
    BY <2>2, SyncFacts
  <2>3. CASE WriteEnable(FALSE)
    BY <2>3 DEF WriteEnable
  <2> QED
    BY <1>7, <2>1, <2>2, <2>3 DEF DisableAutostart, Record, Checkpoint
<1>8. CASE StopService
  <2>1. CASE Sync({"host"})
    BY <1>8, <2>1, SyncFacts DEF StopService
  <2>2. CASE UNCHANGED disk
    BY <2>2 DEF disk
  <2> QED
    BY <1>8, <2>1, <2>2 DEF StopService, Record, Checkpoint
<1>9. CASE Take
  BY <1>9 DEF Take, disk, work, Pcs
<1>10. CASE Do
  BY <1>10, DoStep DEF IInv, TypeOK, DiskTypes, Things
<1>11. CASE StartTarget
  <2>1. CASE StartService
    BY <2>1, StartFacts
  <2>2. CASE UNCHANGED disk
    BY <2>2 DEF disk
  <2> QED
    BY <1>11, <2>1, <2>2 DEF StartTarget
<1>12. CASE FinishTarget
  <2>1. CASE Sync(FinalBarriers)
    BY <2>1, SyncFacts
  <2>2. CASE Sync({"etc"})
    BY <2>2, SyncFacts
  <2>3. CASE Sync({"host"})
    BY <2>3, SyncFacts
  <2>4. CASE WriteEnable(TRUE)
    BY <2>4 DEF WriteEnable
  <2> QED
    BY <1>12, <2>1, <2>2, <2>3, <2>4 DEF FinishTarget, Checkpoint
<1>13. CASE ReleaseFence
  <2>1. CASE Sync({"var"})
    BY <1>13, <2>1, SyncFacts DEF ReleaseFence
  <2>2. CASE UNCHANGED disk
    BY <2>2 DEF disk
  <2> QED
    BY <1>13, <2>1, <2>2 DEF ReleaseFence, disk
<1>14. CASE Cleanup
  BY <1>14, CleanupFacts DEF Cleanup
<1>15. CASE ClearJournal
  BY <1>15, ClearFacts DEF ClearJournal
<1>16. CASE Untouched
  <2>1. CASE Sync({"host"})
    BY <1>16, <2>1, SyncFacts DEF Untouched
  <2>2. CASE UNCHANGED disk
    BY <2>2 DEF disk
  <2> QED
    BY <1>16, <2>1, <2>2 DEF Untouched, Record, Checkpoint
<1>17. CASE ExitTrap
  BY <1>17 DEF ExitTrap, disk, work, Pcs
<1>18. CASE RollbackStop
  BY <1>18 DEF RollbackStop, disk, work, Pcs
<1>19. CASE FinishRollback
  <2>1. CASE StartService
    BY <2>1, StartFacts
  <2>2. CASE Sync({"etc"})
    BY <2>2, SyncFacts
  <2>3. CASE Sync({"host"})
    BY <2>3, SyncFacts
  <2>4. CASE WriteEnable(TRUE)
    BY <2>4 DEF WriteEnable
  <2>5. CASE UNCHANGED disk
    BY <2>5 DEF disk
  <2> QED
    BY <1>19, <2>1, <2>2, <2>3, <2>4, <2>5 DEF FinishRollback, Checkpoint
<1>20. CASE ServeFence
  BY <1>20 DEF ServeFence, disk, work, Pcs
<1>21. CASE FenceAbandon
  BY <1>21 DEF FenceAbandon, disk, work, Pcs
<1>22. CASE CommandFails
  BY <1>22 DEF CommandFails, disk, work, Pcs
<1>23. CASE ProcessEnds
  BY <1>23 DEF ProcessEnds, disk, work, Pcs
<1>24. CASE PowerLoss
  BY <1>24, PowerLossFacts
<1>25. CASE Workload
  BY <1>25 DEF Workload, disk, work, Pcs
<1>26. CASE ServiceWrites
  BY <1>26 DEF ServiceWrites, work, Pcs
<1>27. CASE UNCHANGED vars
  BY <1>27 DEF vars, disk, work
<1>28. QED
  BY <1>1, <1>2, <1>3, <1>4, <1>5, <1>6, <1>7, <1>8, <1>9, <1>10, <1>11,
     <1>12, <1>13, <1>14, <1>15, <1>16, <1>17, <1>18, <1>19, <1>20, <1>21,
     <1>22, <1>23, <1>24, <1>25, <1>26, <1>27 DEF Next, Updater

\* Every step keeps the types.
LEMMA TypeStep == IInv /\ [Next]_vars => TypeOK'
<1> SUFFICES ASSUME IInv, [Next]_vars PROVE TypeOK'
  OBVIOUS
<1>1. RunTypes' /\ DiskTypes' /\ RestTypes'
  BY RunTypesStep, DiskTypesStep, RestTypesStep
<1> QED
  BY <1>1, TypeParts DEF TypeOK, RunTypes, DiskTypes, RestTypes, Things

\* Every step keeps process and journal together.
LEMMA PcStep == IInv /\ [Next]_vars => PcInv'
<1> SUFFICES ASSUME IInv, [Next]_vars PROVE PcInv'
  OBVIOUS
<1> install' = install
  BY DEF Next, vars
<1> USE DEF PcInv, Early, Accepted, Window, Backward
<1> IInv /\ TypeOK /\ PcInv
  BY DEF IInv
<1>a. /\ NoJournal.state = "none" /\ NoJournal.run = 0
      /\ NoJournal.armed = FALSE /\ NoJournal.ledger = {}
  BY DEF NoJournal
<1>b. journal \in JournalType /\ runs \in Nat /\ MaxRuns \in Nat
  BY FlagsAssumption DEF TypeOK, JournalType
<1> HIDE DEF NoJournal
<1>1. CASE BeginRun
  <2>1. /\ journal'.state = "active" /\ journal'.run = runs + 1
        /\ journal'.armed = FALSE /\ journal'.ledger = {}
    BY <1>1 DEF BeginRun, NoJournal
  <2>2. /\ runs' = runs + 1 /\ pc' = "begun" /\ ledger' = {} /\ todo' = todo /\ pc = "off"
        /\ plan' = NoPlan
    BY <1>1 DEF BeginRun, work
  <2> QED
    BY <2>1, <2>2, <1>a, <1>b
<1>2. CASE Classify
  BY <1>2 DEF Classify, disk, work, Pcs
<1>3. CASE DryRun
  BY <1>3, DryRunFacts, <1>a, <1>b DEF DryRun, Gains, Reaches, work
<1>4. CASE RecoveryGate
  <2>1. /\ journal # NoJournal /\ journal' = journal /\ ledger' = journal.ledger /\ pc = "off"
        /\ todo' = todo /\ plan' = plan /\ runs' = runs
    BY <1>4 DEF RecoveryGate, work
  <2>2. journal.state \in {"active", "completed", "recovered"} /\ journal.armed \in BOOLEAN
    BY <2>1, <1>b DEF JournalType
  <2>3. \/ pc' = "rbstop" /\ journal.state = "active" /\ journal.armed
        \/ pc' = "untouched" /\ journal.state = "active" /\ ~journal.armed
        \/ pc' = "cleanup2" /\ journal.state \in {"completed", "recovered"}
        \/ pc' = "off"
    BY <1>4, <2>2 DEF RecoveryGate
  <2> QED
    BY <2>1, <2>2, <2>3, <1>a, <1>b
<1>5. CASE AcquireFence
  BY <1>5 DEF AcquireFence, PreActivationFence, disk, work, Pcs
<1>6. CASE FenceAnswer
  BY <1>6, AnswerFacts, <1>a, <1>b DEF FenceAnswer, Gains, Reaches, work
<1>7. CASE DisableAutostart
  BY <1>7, DisableFacts, <1>a, <1>b DEF DisableAutostart, Gains, Reaches, work
<1>8. CASE StopService
  BY <1>8, StopFacts, <1>a, <1>b DEF StopService, Gains, Reaches, work
<1>9. CASE Take
  BY <1>9 DEF Take, disk, work, Pcs
<1>10. CASE Do
  BY <1>10, DoStep DEF IInv
<1>11. CASE StartTarget
  BY <1>11 DEF StartTarget, StartService, disk, work, Pcs
<1>12. CASE FinishTarget
  BY <1>12, FinishFacts, <1>a, <1>b DEF FinishTarget, Gains, Reaches, work
<1>13. CASE ReleaseFence
  BY <1>13 DEF ReleaseFence, disk, work, Pcs
<1>14. CASE Cleanup
  BY <1>14 DEF Cleanup, Dropped, work, Pcs
<1>15. CASE ClearJournal
  BY <1>15 DEF ClearJournal, NoJournal, Dropped, work, Pcs
<1>16. CASE Untouched
  BY <1>16, UntouchedFacts, <1>a, <1>b DEF Untouched, Gains, Reaches, work
<1>17. CASE ExitTrap
  BY <1>17 DEF ExitTrap, disk, work, Pcs, Crossed
<1>18. CASE RollbackStop
  BY <1>18 DEF RollbackStop, disk, work, Pcs
<1>19. CASE FinishRollback
  BY <1>19, RollbackFacts, <1>a, <1>b DEF FinishRollback, Gains, Reaches, work
<1>20. CASE ServeFence
  BY <1>20 DEF ServeFence, disk, work, Pcs
<1>21. CASE FenceAbandon
  BY <1>21 DEF FenceAbandon, disk, work, Pcs
<1>22. CASE CommandFails
  BY <1>22 DEF CommandFails, disk, work, Pcs, Forward
<1>23. CASE ProcessEnds
  BY <1>23 DEF ProcessEnds, disk, work, Pcs
<1>24. CASE PowerLoss
  BY <1>24 DEF PowerLoss, work, Pcs
<1>25. CASE Workload
  BY <1>25 DEF Workload, disk, work, Pcs
<1>26. CASE ServiceWrites
  BY <1>26 DEF ServiceWrites, work, Pcs
<1>27. CASE UNCHANGED vars
  BY <1>27 DEF vars, disk, work
<1>28. QED
  BY <1>1, <1>2, <1>3, <1>4, <1>5, <1>6, <1>7, <1>8, <1>9, <1>10, <1>11,
     <1>12, <1>13, <1>14, <1>15, <1>16, <1>17, <1>18, <1>19, <1>20, <1>21,
     <1>22, <1>23, <1>24, <1>25, <1>26, <1>27 DEF Next, Updater

\* Every step keeps the fence with its run.
LEMMA FenceStep == IInv /\ [Next]_vars => FenceInv'
<1> SUFFICES ASSUME IInv, [Next]_vars PROVE FenceInv'
  OBVIOUS
<1> install' = install
  BY DEF Next, vars
<1> USE DEF Early, Window, Backward, Accepted
<1> IInv /\ TypeOK /\ PcInv /\ FenceInv
  BY DEF IInv
<1> USE DEF PcInv, FenceInv, NoOrphanFence
<1>a. /\ NoJournal.state = "none" /\ NoJournal.run = 0
      /\ NoJournal.armed = FALSE /\ NoJournal.ledger = {}
  BY DEF NoJournal
<1>b. journal \in JournalType /\ runs \in Nat /\ MaxRuns \in Nat
  BY FlagsAssumption DEF TypeOK, JournalType
<1>c. fence \in mayFence /\ journal.armed \in BOOLEAN /\ journal.run \in Nat
  BY <1>b DEF TypeOK, JournalType
<1>d. OldHasRoute' = OldHasRoute
  BY DEF OldHasRoute
<1> HIDE DEF NoJournal
<1>1. CASE BeginRun
  BY <1>1, <1>a, <1>b, <1>c, <1>d DEF BeginRun, ClientGone, NoPlan, work,
     Pcs
<1>2. CASE Classify
  BY <1>2, <1>a, <1>b, <1>c, <1>d DEF Classify, disk, work, Pcs
<1>3. CASE DryRun
  BY <1>3, DryRunFacts, <1>a, <1>b, <1>c, <1>d DEF DryRun, NoPlan, work, Pcs,
     Gains, Reaches
<1>4. CASE RecoveryGate
  BY <1>4, <1>a, <1>b, <1>c, <1>d DEF RecoveryGate, disk, work, Pcs,
     ClientGone
<1>5. CASE AcquireFence
  <2>1. pc = "planned" /\ journal.state = "active" /\ ~journal.armed /\ journal.ledger = {}
    BY <1>5 DEF AcquireFence
  <2>2. ~OldHasRoute => ~job
    BY <2>1 DEF IInv, CalmInv, Calm
  <2>3. journal' = journal /\ job' = job /\ journal.run # 0
    BY <1>5, <2>1, <1>a, <1>b, <1>c DEF AcquireFence
  <2>4. CASE req' = journal.run /\ ans' = "none" /\ OldHasRoute /\ UNCHANGED <<fence, mayFence>>
    BY <1>5, <2>1, <2>3, <2>4, <1>d DEF AcquireFence
  <2>5. CASE ~OldHasRoute /\ PreActivationFence
    BY <1>5, <2>1, <2>2, <2>3, <2>5, <1>d DEF PreActivationFence
  <2>6. CASE pc' = "trap" /\ UNCHANGED <<req, ans, fence, mayFence>>
    BY <2>1, <2>3, <2>6, <1>d
  <2> QED
    BY <1>5, <2>4, <2>5, <2>6 DEF AcquireFence
<1>6. CASE FenceAnswer
  BY <1>6, AnswerFacts, <1>a, <1>b, <1>c, <1>d DEF FenceAnswer, disk, work,
     Pcs, Gains, Reaches
<1>7. CASE DisableAutostart
  BY <1>7, DisableFacts, <1>a, <1>b, <1>c, <1>d DEF DisableAutostart, work,
     Pcs, Gains, Reaches
<1>8. CASE StopService
  BY <1>8, StopFacts, <1>a, <1>b, <1>c, <1>d DEF StopService, disk, ToSwap,
     work, Pcs, Gains, Reaches
<1>9. CASE Take
  BY <1>9, <1>a, <1>b, <1>c, <1>d DEF Take, disk, work, Pcs
<1>10. CASE Do
  BY <1>10, DoStep DEF IInv
<1>11. CASE StartTarget
  BY <1>11, <1>a, <1>b, <1>c, <1>d DEF StartTarget, StartService, disk, work,
     Pcs
<1>12. CASE FinishTarget
  BY <1>12, FinishFacts, <1>a, <1>b, <1>c, <1>d DEF FinishTarget, work, Pcs,
     Gains, Reaches
<1>13. CASE ReleaseFence
  BY <1>13, <1>a, <1>b, <1>c, <1>d DEF ReleaseFence, disk, work, Pcs
<1>14. CASE Cleanup
  BY <1>14, <1>a, <1>b, <1>c, <1>d DEF Cleanup, Dropped, work, Pcs
<1>15. CASE ClearJournal
  BY <1>15, <1>a, <1>b, <1>c, <1>d DEF ClearJournal, Dropped, work, Pcs
<1>16. CASE Untouched
  BY <1>16, UntouchedFacts, <1>a, <1>b, <1>c, <1>d DEF Untouched, disk, work,
     Pcs, Gains, Reaches
<1>17. CASE ExitTrap
  BY <1>17, <1>a, <1>b, <1>c, <1>d DEF ExitTrap, disk, work, Pcs
<1>18. CASE RollbackStop
  BY <1>18, <1>a, <1>b, <1>c, <1>d DEF RollbackStop, disk, work, Pcs
<1>19. CASE FinishRollback
  BY <1>19, RollbackFacts, <1>a, <1>b, <1>c, <1>d DEF FinishRollback, disk,
     work, Pcs, Gains, Reaches
<1>20. CASE ServeFence
  BY <1>20, <1>a, <1>b, <1>c, <1>d DEF ServeFence, disk, work, Pcs
<1>21. CASE FenceAbandon
  BY <1>21, <1>a, <1>b, <1>c, <1>d DEF FenceAbandon, disk, work, Pcs,
     ClientGone
<1>22. CASE CommandFails
  BY <1>22, <1>a, <1>b, <1>c, <1>d DEF CommandFails, disk, work, Pcs,
     Forward
<1>23. CASE ProcessEnds
  BY <1>23, <1>a, <1>b, <1>c, <1>d DEF ProcessEnds, disk, work, Pcs
<1>24. CASE PowerLoss
  BY <1>24, <1>a, <1>b, <1>c, <1>d DEF PowerLoss, work, Pcs
<1>25. CASE Workload
  BY <1>25, <1>a, <1>b, <1>c, <1>d DEF Workload, disk, work, Pcs
<1>26. CASE ServiceWrites
  BY <1>26, <1>a, <1>b, <1>c, <1>d DEF ServiceWrites, work, Pcs
<1>27. CASE UNCHANGED vars
  BY <1>27, <1>d DEF vars, disk, work
<1>28. QED
  BY <1>1, <1>2, <1>3, <1>4, <1>5, <1>6, <1>7, <1>8, <1>9, <1>10, <1>11,
     <1>12, <1>13, <1>14, <1>15, <1>16, <1>17, <1>18, <1>19, <1>20, <1>21,
     <1>22, <1>23, <1>24, <1>25, <1>26, <1>27 DEF Next, Updater

\* Every step keeps the ledger an account of what was touched.
LEMMA LedgerStep == IInv /\ [Next]_vars => LedgerInv'
<1> SUFFICES ASSUME IInv, [Next]_vars PROVE LedgerInv'
  OBVIOUS
<1> install' = install
  BY DEF Next, vars
<1> USE DEF Early, Window, Backward, Accepted
<1> IInv /\ TypeOK /\ PcInv /\ LedgerInv
  BY DEF IInv
<1>a. /\ NoJournal.state = "none" /\ NoJournal.run = 0
      /\ NoJournal.armed = FALSE /\ NoJournal.ledger = {}
  BY DEF NoJournal
<1>b. MarkerExisted' = MarkerExisted
  BY DEF MarkerExisted
<1>c. ASSUME may' = may, journal'.ledger = journal.ledger, \A a \in Artifacts : Safe(a)
      PROVE  \A a \in Artifacts : Safe(a)'
  BY <1>c, SafeKeeps
<1>d. ASSUME NEW F, Sync(F), journal.ledger \subseteq journal'.ledger, \A a \in Artifacts : Safe(a)
      PROVE  \A a \in Artifacts : Safe(a)'
  BY <1>d, SyncFacts, SafeKeeps
<1>e. ASSUME Sync({"host"}) \/ Sync({"etc"})
      PROVE  db' = db /\ mayDb' = mayDb
  BY <1>e, SyncFacts
<1>h. ASSUME NEW F, Sync(F)
      PROVE  db' = db /\ db' \in mayDb' /\ mayDb' \subseteq mayDb
  BY <1>h, SyncFacts
<1>f. db \in mayDb
  BY DEF TypeOK
<1>g. ASSUME UNCHANGED disk
      PROVE  may' = may /\ mayDb' = mayDb /\ db' = db
  BY <1>g DEF disk
<1> USE DEF PcInv, LedgerInv, DbOld
<1>1. CASE BeginRun
  <2>1. Calm /\ OldForSure /\ loaded = "old"
    BY <1>1, <1>a DEF BeginRun, Calm, IInv, CalmInv
  <2>2. \A a \in Artifacts : ArtOld(a)'
    BY <1>1, <2>1 DEF BeginRun, OldForSure, ArtOld, OldLive, MarkerExisted
  <2>3. \A a \in Artifacts : OldLive(a)' \in {"none", "old"}
    BY DEF OldLive
  <2>4. \A a \in Artifacts : Safe(a)'
    BY <2>2, <2>3 DEF ArtOld, Safe, Fixable
  <2>5. journal'.ledger = {}
    BY <1>1, <1>a DEF BeginRun, NoJournal
  <2> QED
    BY <1>1, <2>1, <2>4, <2>5 DEF BeginRun
<1>2. CASE Classify
  BY <1>2, <1>a, <1>b, <1>c, <1>f, <1>g DEF Classify, work, Pcs
<1>3. CASE DryRun
  BY <1>3, DryRunFacts, <1>a, <1>b, <1>c, <1>f, <1>g, <1>d, <1>e DEF DryRun,
     NoPlan, work, Pcs, Gains, Reaches
<1>4. CASE RecoveryGate
  BY <1>4, <1>a, <1>b, <1>c, <1>f, <1>g DEF RecoveryGate, work, Pcs
<1>5. CASE AcquireFence
  BY <1>5, <1>a, <1>b, <1>c, <1>f, <1>g DEF AcquireFence, PreActivationFence,
     work, Pcs
<1>6. CASE FenceAnswer
  <2>1. CASE ans = "ok"
    <3>1. Gains({"fenceheld"}, FALSE) /\ Sync({"host"}) /\ loaded' = loaded
      BY <1>6, <2>1, AnswerFacts DEF FenceAnswer
    <3>2. ledger = journal.ledger /\ journal.state = "active"
      BY <1>6, <2>1 DEF FenceAnswer
    <3>3. journal.ledger \subseteq journal'.ledger
      BY <3>1, <3>2 DEF Gains
    <3>4. \A a \in Artifacts : Safe(a)'
      BY <3>1, <3>2, <3>3, <1>d
    <3> QED
      BY <3>1, <3>2, <3>4, <1>b, <1>e DEF Gains
  <2>2. CASE ~(ans = "ok")
    BY <1>6, <2>2, AnswerFacts, <1>b, <1>c, <1>d, <1>e, <1>g DEF FenceAnswer
  <2> QED
    BY <2>1, <2>2
<1>7. CASE DisableAutostart
  <2>1. CASE pc = "disable"
    <3>1. Gains({"autostart"}, TRUE) /\ Sync({"host"}) /\ loaded' = loaded
      BY <1>7, <2>1, DisableFacts DEF DisableAutostart
    <3>2. ledger = journal.ledger /\ journal.state = "active"
      BY <1>7, <2>1 DEF DisableAutostart
    <3>3. journal.ledger \subseteq journal'.ledger
      BY <3>1, <3>2 DEF Gains
    <3>4. \A a \in Artifacts : Safe(a)'
      BY <3>1, <3>2, <3>3, <1>d
    <3> QED
      BY <3>1, <3>2, <3>4, <1>b, <1>e DEF Gains
  <2>2. CASE ~(pc = "disable")
    BY <1>7, <2>2, DisableFacts, <1>b, <1>c, <1>d, <1>e, <1>g DEF DisableAutostart, WriteEnable
  <2> QED
    BY <2>1, <2>2
<1>8. CASE StopService
  <2>1. CASE pc = "stop"
    <3>1. Gains({"stop"}, TRUE) /\ Sync({"host"}) /\ loaded' = loaded
      BY <1>8, <2>1, StopFacts DEF StopService
    <3>2. ledger = journal.ledger /\ journal.state = "active"
      BY <1>8, <2>1 DEF StopService
    <3>3. journal.ledger \subseteq journal'.ledger
      BY <3>1, <3>2 DEF Gains
    <3>4. \A a \in Artifacts : Safe(a)'
      BY <3>1, <3>2, <3>3, <1>d
    <3> QED
      BY <3>1, <3>2, <3>4, <1>b, <1>e DEF Gains
  <2>2. CASE ~(pc = "stop")
    BY <1>8, <2>2, StopFacts, <1>b, <1>c, <1>d, <1>e, <1>g DEF StopService
  <2> QED
    BY <2>1, <2>2
<1>9. CASE Take
  BY <1>9, <1>a, <1>b, <1>c, <1>f, <1>g DEF Take, work, Pcs
<1>10. CASE Do
  BY <1>10, DoStep DEF IInv
<1>11. CASE StartTarget
  <2>1. journal' = journal /\ loaded' = loaded /\ pc \in {"swap", "start"}
    BY <1>11 DEF StartTarget
  <2>2. CASE StartService
    <3>1. may' = may /\ (db # "none" => db' = db /\ mayDb' = mayDb) /\ db' \in {db, "new"}
      BY <2>2, StartFacts
    <3>2. \A a \in Artifacts : Safe(a)'
      BY <2>1, <3>1, <1>c
    <3> QED
      BY <2>1, <3>1, <3>2, <1>b, <1>f
  <2>3. CASE UNCHANGED disk
    BY <2>1, <2>3, <1>b, <1>c, <1>g
  <2> QED
    BY <1>11, <2>2, <2>3 DEF StartTarget
<1>12. CASE FinishTarget
  BY <1>12, FinishFacts, <1>a, <1>b, <1>c, <1>f, <1>g, <1>d, <1>e, <1>h DEF
     FinishTarget, WriteEnable, work, Pcs, Gains, Reaches
<1>13. CASE ReleaseFence
  BY <1>13, <1>a, <1>b, <1>c, <1>f, <1>g DEF ReleaseFence, work, Pcs
<1>14. CASE Cleanup
  BY <1>14, <1>a, <1>b, <1>c, <1>f, <1>g DEF Cleanup, Dropped, work, Pcs
<1>15. CASE ClearJournal
  BY <1>15, <1>a, <1>b, <1>c, <1>f, <1>g DEF ClearJournal, Dropped, work,
     Pcs
<1>16. CASE Untouched
  BY <1>16, UntouchedFacts, <1>a, <1>b, <1>c, <1>f, <1>g, <1>d, <1>e DEF
     Untouched, work, Pcs, Gains, Reaches
<1>17. CASE ExitTrap
  BY <1>17, <1>a, <1>b, <1>c, <1>f, <1>g DEF ExitTrap, work, Pcs
<1>18. CASE RollbackStop
  BY <1>18, <1>a, <1>b, <1>c, <1>f, <1>g DEF RollbackStop, work, Pcs
<1>19. CASE FinishRollback
  <2>1. loaded' = loaded
    BY <1>19 DEF FinishRollback
  <2>2. CASE pc = "rbstart"
    <3>1. StartService /\ journal' = journal /\ DbOld
      BY <1>19, <2>2, RollbackFacts DEF IInv, UndoneInv
    <3>2. may' = may /\ db' = db /\ mayDb' = mayDb
      BY <3>1, <1>f, StartFacts
    <3> QED
      BY <2>1, <3>1, <3>2, <1>b, <1>c
  <2>3. CASE pc # "rbstart"
    BY <1>19, <2>1, <2>3, RollbackFacts, <1>b, <1>c, <1>d, <1>e, <1>g DEF Reaches, WriteEnable
  <2> QED
    BY <2>2, <2>3
<1>20. CASE ServeFence
  BY <1>20, <1>a, <1>b, <1>c, <1>f, <1>g DEF ServeFence, work, Pcs
<1>21. CASE FenceAbandon
  BY <1>21, <1>a, <1>b, <1>c, <1>f, <1>g DEF FenceAbandon, work, Pcs
<1>22. CASE CommandFails
  BY <1>22, <1>a, <1>b, <1>c, <1>f, <1>g DEF CommandFails, work, Pcs
<1>23. CASE ProcessEnds
  BY <1>23, <1>a, <1>b, <1>c, <1>f, <1>g DEF ProcessEnds, work, Pcs
<1>24. CASE PowerLoss
  <2>1. journal' = journal
    BY <1>24 DEF PowerLoss
  <2> SUFFICES ASSUME journal.state = "active"
               PROVE  LedgerInv'
    BY <2>1
  <2>2. \A a \in Artifacts : Safe(a)'
    <3>1. \A a \in Artifacts : may'[a] \subseteq may[a]
      BY <1>24, PowerLossFacts
    <3> QED
      BY <2>1, <3>1, SafeKeeps
  <2>3. "unit" \in journal.ledger \/ loaded' = "old"
    <3>1. loaded' = now'["unit"].live /\ now'["unit"] \in may["unit"]
      BY <1>24, PowerLossFacts DEF Artifacts
    <3>2. Safe("unit")
      BY DEF Artifacts
    <3> QED
      BY <3>1, <3>2 DEF Safe, Attempted, MarkerOf, OldLive
  <2>4. PICK d \in mayDb : db' = IF ran' # "none" /\ d = "none" THEN "new" ELSE d
    BY <1>24, PowerLossFacts
  <2>5. mayDb' = {db'}
    BY <1>24, PowerLossFacts
  <2>6. "oldw" \in mayDb => db = "oldw"
    BY <1>f DEF IInv, CalmInv
  <2> QED
    BY <2>1, <2>2, <2>3, <2>4, <2>5, <2>6, <1>b
<1>25. CASE Workload
  BY <1>25, <1>a, <1>b, <1>c, <1>f, <1>g DEF Workload, work, Pcs
<1>26. CASE ServiceWrites
  BY <1>26, <1>a, <1>b, <1>c, <1>f, <1>g DEF ServiceWrites, work, Pcs
<1>27. CASE UNCHANGED vars
  BY <1>27, <1>b, <1>c DEF vars, disk, work
<1>28. QED
  BY <1>1, <1>2, <1>3, <1>4, <1>5, <1>6, <1>7, <1>8, <1>9, <1>10, <1>11,
     <1>12, <1>13, <1>14, <1>15, <1>16, <1>17, <1>18, <1>19, <1>20, <1>21,
     <1>22, <1>23, <1>24, <1>25, <1>26, <1>27 DEF Next, Updater

\* The old installation starts as the old one.
LEMMA OldStarts ==
    ASSUME NEW n, NEW d \in {"old", "oldw"}, \A a \in Artifacts : n[a].live = OldLive(a)
    PROVE  Started(n, d, "old") = "old"
<1>1. \A a \in Artifacts \ {"marker", "access"} : n[a].live = "old"
  BY DEF OldLive
<1>2. \A a \in {"app", "venv", "unit"} : Usable(n, a)
  BY <1>1 DEF Usable, Artifacts
<1> QED
  BY <1>1, <1>2 DEF Started

\* The complete target never starts as a mixture.
LEMMA NewStarts ==
    ASSUME NEW n, NEW d, NEW u, \A a \in plan.changed : n[a].live = "new",
           u = n["unit"].live,
           IF plan.reset THEN d = "none" ELSE d = "old"
    PROVE  Started(n, d, u) # "mixed"
  BY DEF Started

\* Every step keeps boot activation where it belongs.
LEMMA BootStep == IInv /\ [Next]_vars => BootInv'
<1> SUFFICES ASSUME IInv, [Next]_vars PROVE BootInv'
  OBVIOUS
<1> install' = install
  BY DEF Next, vars
<1> USE DEF Early, Window, Backward, Accepted
<1> IInv /\ TypeOK /\ PcInv /\ BootInv
  BY DEF IInv
<1>a. /\ NoJournal.state = "none" /\ NoJournal.run = 0
      /\ NoJournal.armed = FALSE /\ NoJournal.ledger = {}
  BY DEF NoJournal
<1>b. enable \in mayEnable /\ mayEnable \subseteq BOOLEAN /\ reenabled \in BOOLEAN
  BY DEF TypeOK
<1>c. ASSUME NEW F, Sync(F)
      PROVE  enable' = enable /\ enable' \in mayEnable' /\ mayEnable' \subseteq mayEnable
             /\ (IF "etc" \in F THEN mayEnable' = {enable} ELSE mayEnable' = mayEnable)
  BY <1>c, SyncFacts
<1>d. ASSUME StartService
      PROVE  enable' = enable /\ mayEnable' = mayEnable
  BY <1>d, StartFacts
<1>e. ASSUME UNCHANGED disk
      PROVE  enable' = enable /\ mayEnable' = mayEnable
  BY <1>e DEF disk
<1> USE DEF PcInv, BootInv
<1>1. CASE BeginRun
  <2>1. Calm /\ ran = "old"
    BY <1>1, <1>a DEF BeginRun, Calm, IInv, CalmInv
  <2>2. journal'.ledger = {} /\ pc' = "begun" /\ ran' = ran
    BY <1>1 DEF BeginRun, NoJournal
  <2> QED
    BY <2>1, <2>2
<1>2. CASE Classify
  BY <1>2, <1>a, <1>b, <1>c, <1>d, <1>e DEF Classify, work, Pcs
<1>3. CASE DryRun
  BY <1>3, DryRunFacts, <1>a, <1>b, <1>c, <1>d, <1>e DEF DryRun, NoPlan,
     work, Pcs, Gains, Reaches, Things, Artifacts
<1>4. CASE RecoveryGate
  BY <1>4, <1>a, <1>b, <1>c, <1>d, <1>e DEF RecoveryGate, work, Pcs
<1>5. CASE AcquireFence
  BY <1>5, <1>a, <1>b, <1>c, <1>d, <1>e DEF AcquireFence, PreActivationFence,
     work, Pcs
<1>6. CASE FenceAnswer
  BY <1>6, AnswerFacts, <1>a, <1>b, <1>c, <1>d, <1>e DEF FenceAnswer, work,
     Pcs, Gains, Reaches, Things, Artifacts
<1>7. CASE DisableAutostart
  BY <1>7, DisableFacts, <1>a, <1>b, <1>c, <1>d, <1>e DEF DisableAutostart,
     WriteEnable, work, Pcs, Gains, Reaches, Things, Artifacts
<1>8. CASE StopService
  <2>1. /\ mayEnable' = mayEnable /\ mayEnable = {FALSE} /\ ran' \in {ran, "none"}
        /\ reenabled' = reenabled /\ pc' \in {"stopping", "swap"}
    BY <1>8, StopFacts, <1>c, <1>e DEF StopService
  <2> QED
    BY <2>1
<1>9. CASE Take
  BY <1>9, <1>a, <1>b, <1>c, <1>d, <1>e DEF Take, work, Pcs
<1>10. CASE Do
  BY <1>10, DoStep DEF IInv
<1>11. CASE StartTarget
  <2>1. /\ mayEnable' = mayEnable /\ mayEnable = {FALSE} /\ reenabled' = reenabled
        /\ pc' \in {"start", "mark"} /\ enable' = enable /\ journal' = journal
    BY <1>11, <1>d, <1>e DEF StartTarget
  <2>2. CASE pc = "start"
    <3>1. ran' = Started(now, db, loaded)
      BY <1>11, <2>2, StartFacts DEF StartTarget
    <3>2. \A a \in plan.changed : now[a].live = "new"
      BY <2>2 DEF IInv, SwapInv
    <3>3. loaded = now["unit"].live /\ (plan.reset => db = "none")
      BY <2>2 DEF IInv, SwapInv
    <3>4. ~plan.reset => db = "old"
      BY <2>2 DEF IInv, SwapInv, LedgerInv, TypeOK
    <3>5. ran' # "mixed"
      BY <3>1, <3>2, <3>3, <3>4, NewStarts
    <3> QED
      BY <2>1, <3>5
  <2>3. CASE pc # "start"
    <3>1. ran' = ran
      BY <1>11, <2>3 DEF StartTarget
    <3> QED
      BY <2>1, <3>1
  <2> QED
    BY <2>2, <2>3
<1>12. CASE FinishTarget
  <2>1. ran' = ran
    BY <1>12 DEF FinishTarget
  <2>2. CASE pc = "mark"
    <3>1. mayEnable' = {FALSE} /\ pc' = "enable" /\ reenabled' = reenabled
      BY <1>12, <2>2, FinishFacts, <1>b, <1>c
    <3> QED
      BY <2>1, <3>1
  <2>3. CASE pc = "enable"
    <3>1. enable' = TRUE /\ pc' = "enabled" /\ reenabled' = TRUE
      BY <1>12, <2>3, FinishFacts DEF WriteEnable
    <3> QED
      BY <2>1, <3>1
  <2>4. CASE pc = "enabled"
    <3>1. enable' = enable /\ mayEnable' = {enable} /\ pc' = "completing" /\ reenabled' = reenabled
      BY <1>12, <2>4, FinishFacts, <1>c
    <3> QED
      BY <2>1, <2>4, <3>1
  <2>5. CASE pc = "completing"
    <3>1. journal'.state = "completed" /\ pc' = "release1" /\ reenabled' = reenabled
      BY <1>12, <2>5, FinishFacts DEF Reaches
    <3> QED
      BY <2>1, <2>5, <3>1
  <2> QED
    BY <1>12, <2>2, <2>3, <2>4, <2>5, FinishFacts
<1>13. CASE ReleaseFence
  BY <1>13, <1>a, <1>b, <1>c, <1>d, <1>e DEF ReleaseFence, work, Pcs
<1>14. CASE Cleanup
  BY <1>14, <1>a, <1>b, <1>c, <1>d, <1>e DEF Cleanup, Dropped, work, Pcs
<1>15. CASE ClearJournal
  BY <1>15, <1>a, <1>b, <1>c, <1>d, <1>e DEF ClearJournal, Dropped, work,
     Pcs
<1>16. CASE Untouched
  BY <1>16, UntouchedFacts, <1>a, <1>b, <1>c, <1>d, <1>e DEF Untouched, work,
     Pcs, Gains, Reaches, Things, Artifacts
<1>17. CASE ExitTrap
  BY <1>17, <1>a, <1>b, <1>c, <1>d, <1>e DEF ExitTrap, work, Pcs
<1>18. CASE RollbackStop
  BY <1>18, <1>a, <1>b, <1>c, <1>d, <1>e DEF RollbackStop, work, Pcs
<1>19. CASE FinishRollback
  BY <1>19, RollbackFacts, <1>a, <1>b, <1>c, <1>d, <1>e DEF FinishRollback,
     WriteEnable, work, Pcs, Gains, Reaches, Things, Artifacts
<1>20. CASE ServeFence
  BY <1>20, <1>a, <1>b, <1>c, <1>d, <1>e DEF ServeFence, work, Pcs
<1>21. CASE FenceAbandon
  BY <1>21, <1>a, <1>b, <1>c, <1>d, <1>e DEF FenceAbandon, work, Pcs
<1>22. CASE CommandFails
  BY <1>22, <1>a, <1>b, <1>c, <1>d, <1>e DEF CommandFails, work, Pcs
<1>23. CASE ProcessEnds
  BY <1>23, <1>a, <1>b, <1>c, <1>d, <1>e DEF ProcessEnds, work, Pcs
<1>24. CASE PowerLoss
  <2>1. journal' = journal /\ reenabled' = reenabled /\ pc' \in {"off", "done"}
    BY <1>24 DEF PowerLoss
  <2>2. enable' \in mayEnable /\ mayEnable' = {enable'} /\ enable' \in BOOLEAN
    BY <1>24, PowerLossFacts
  <2>3. PICK d \in mayDb : ran' = IF enable' THEN Started(now', d, loaded') ELSE "none"
    BY <1>24, PowerLossFacts
  <2>4. ASSUME ~reenabled, enable'
        PROVE  ran' = "old"
    <3>1. (\A a \in Artifacts : ArtOld(a)) /\ d \in {"old", "oldw"}
      <4>1. CASE Calm
        BY <4>1 DEF IInv, CalmInv, OldForSure, ArtOld
      <4>2. CASE journal.state = "active" /\ journal.armed
        <5>1. journal.ledger \cap Things = {}
          BY <2>2, <2>4, <4>2
        <5>2. \A a \in Artifacts : ~Attempted(a)
          BY <5>1 DEF Attempted, MarkerOf, Things, Artifacts
        <5>3. \A a \in Artifacts : Safe(a)
          BY <4>2 DEF IInv, LedgerInv
        <5>4. "db" \notin journal.ledger
          BY <5>1 DEF Things
        <5>5. mayDb = {"old"}
          BY <4>2, <5>4 DEF IInv, LedgerInv
        <5> QED
          BY <5>2, <5>3, <5>5 DEF Safe, ArtOld
      <4>3. CASE (journal.state = "completed" /\ plan # NoPlan) \/ pc = "done"
        BY <2>4, <4>3 DEF IInv, DoneInv
      <4> QED
        BY <4>1, <4>2, <4>3 DEF Calm, TypeOK
    <3>2. \A a \in Artifacts : now'[a].live = OldLive(a)
      BY <1>24, <3>1, PowerLossFacts DEF ArtOld
    <3>3. loaded' = "old"
      BY <1>24, <3>2, PowerLossFacts DEF Artifacts, OldLive
    <3> QED
      BY <2>3, <2>4, <3>1, <3>2, <3>3, OldStarts
  <2> QED
    BY <2>1, <2>2, <2>3, <2>4
<1>25. CASE Workload
  BY <1>25, <1>a, <1>b, <1>c, <1>d, <1>e DEF Workload, work, Pcs
<1>26. CASE ServiceWrites
  BY <1>26, <1>a, <1>b, <1>c, <1>d, <1>e DEF ServiceWrites, work, Pcs
<1>27. CASE UNCHANGED vars
  BY <1>27 DEF vars, disk, work
<1>28. QED
  BY <1>1, <1>2, <1>3, <1>4, <1>5, <1>6, <1>7, <1>8, <1>9, <1>10, <1>11,
     <1>12, <1>13, <1>14, <1>15, <1>16, <1>17, <1>18, <1>19, <1>20, <1>21,
     <1>22, <1>23, <1>24, <1>25, <1>26, <1>27 DEF Next, Updater

\* A classified plan is not the empty one.
LEMMA PlanIsReal == \A p \in Plans : p # NoPlan
<1>1. NoPlan.changed = {}
  BY DEF NoPlan
<1> QED
  BY <1>1, PlansAssumption

\* The old installation for sure, artifact by artifact.
LEMMA OldForSureIs ==
    OldForSure <=> (\A a \in Artifacts : ArtOld(a)) /\ mayEnable = {TRUE} /\ DbOld
  BY DEF OldForSure, ArtOld, DbOld

\* A flush keeps the old installation.
LEMMA SyncKeepsOld ==
    ASSUME TypeOK, NEW F, Sync(F), install' = install, OldForSure
    PROVE  OldForSure'
<1>1. (\A a \in Artifacts : ArtOld(a)) /\ mayEnable = {TRUE} /\ DbOld
  BY OldForSureIs
<1>2. (\A a \in Artifacts : ArtOld(a)') /\ DbOld'
  BY <1>1, SyncKeeps
<1>3. mayEnable' = {TRUE}
  BY <1>1, SyncFacts
<1> QED
  BY <1>2, <1>3 DEF OldForSure, ArtOld, DbOld

\* Every step keeps the old installation whole where nothing was touched.
LEMMA CalmStep == IInv /\ [Next]_vars => CalmInv'
<1> SUFFICES ASSUME IInv, [Next]_vars PROVE CalmInv'
  OBVIOUS
<1> install' = install
  BY DEF Next, vars
<1> USE DEF Early, Window, Backward, Accepted
<1> IInv /\ TypeOK /\ PcInv /\ CalmInv
  BY DEF IInv
<1>a. /\ NoJournal.state = "none" /\ NoJournal.run = 0
      /\ NoJournal.armed = FALSE /\ NoJournal.ledger = {}
  BY DEF NoJournal
<1>b. OldHasRoute' = OldHasRoute /\ (\A a \in Artifacts : OldLive(a)' = OldLive(a))
  BY DEF OldHasRoute, OldLive, MarkerExisted
<1>c. ASSUME NEW F, Sync(F)
      PROVE  (OldForSure => OldForSure') /\ ("oldw" \in mayDb' => mayDb' = {"oldw"})
  <2>1. OldForSure => OldForSure'
    BY <1>c, SyncKeepsOld
  <2>2. db' \in mayDb' /\ mayDb' \subseteq mayDb
    BY <1>c, SyncFacts
  <2> QED
    BY <2>1, <2>2 DEF CalmInv
<1>d. ASSUME UNCHANGED disk
      PROVE  OldForSure' = OldForSure /\ mayDb' = mayDb
  BY <1>d, <1>b DEF disk, OldForSure
<1>e. db \in mayDb
  BY DEF TypeOK
<1> USE DEF PcInv, CalmInv, Calm
<1>1. CASE BeginRun
  <2>1. Calm
    BY <1>1, <1>a DEF BeginRun
  <2>2. OldForSure'
    BY <1>1, <2>1, <1>b DEF BeginRun, OldForSure
  <2> QED
    BY <1>1, <2>1, <2>2, <1>b DEF BeginRun
<1>2. CASE Classify
  BY <1>2, <1>a, <1>b, <1>c, <1>d, <1>e DEF Classify, work, Pcs
<1>3. CASE DryRun
  BY <1>3, DryRunFacts, <1>a, <1>b, <1>c, <1>d, <1>e DEF DryRun, work, Pcs,
     Gains, Reaches
<1>4. CASE RecoveryGate
  BY <1>4, <1>a, <1>b, <1>c, <1>d, <1>e DEF RecoveryGate, NoJournal, work,
     Pcs
<1>5. CASE AcquireFence
  BY <1>5, <1>a, <1>b, <1>c, <1>d, <1>e DEF AcquireFence, PreActivationFence,
     work, Pcs
<1>6. CASE FenceAnswer
  BY <1>6, AnswerFacts, <1>a, <1>b, <1>c, <1>d, <1>e DEF FenceAnswer, work,
     Pcs, Gains, Reaches
<1>7. CASE DisableAutostart
  BY <1>7, DisableFacts, <1>a, <1>b, <1>c, <1>d, <1>e DEF DisableAutostart,
     WriteEnable, work, Pcs, Gains, Reaches
<1>8. CASE StopService
  BY <1>8, StopFacts, <1>a, <1>b, <1>c, <1>d, <1>e DEF StopService, work,
     Pcs, Gains, Reaches
<1>9. CASE Take
  BY <1>9, <1>a, <1>b, <1>c, <1>d, <1>e DEF Take, work, Pcs
<1>10. CASE Do
  BY <1>10, DoStep DEF IInv
<1>11. CASE StartTarget
  <2>1. journal' = journal /\ journal.state = "active" /\ journal.armed
    BY <1>11 DEF StartTarget
  <2>2. CASE StartService
    <3>1. (db # "none" => mayDb' = mayDb) /\ db' \in {db, "new"} /\ mayDb' \subseteq mayDb \cup {db'}
      BY <2>2, StartFacts
    <3> QED
      BY <2>1, <3>1, <1>e
  <2>3. CASE UNCHANGED disk
    BY <2>1, <2>3, <1>d
  <2> QED
    BY <1>11, <2>2, <2>3 DEF StartTarget
<1>12. CASE FinishTarget
  <2>1. plan' = plan /\ plan # NoPlan /\ journal.armed
    BY <1>12, PlanIsReal DEF FinishTarget
  <2>2. journal'.armed = journal.armed /\ journal'.state \in {"active", "completed"}
    BY <1>12, FinishFacts DEF Reaches
  <2>3. "oldw" \in mayDb' => mayDb' = {"oldw"}
    BY <1>12, FinishFacts, <1>c DEF WriteEnable
  <2> QED
    BY <2>1, <2>2, <2>3
<1>13. CASE ReleaseFence
  BY <1>13, <1>a, <1>b, <1>c, <1>d, <1>e DEF ReleaseFence, work, Pcs
<1>14. CASE Cleanup
  <2>1. OldForSure => OldForSure'
    BY <1>14, <1>b, CleanupFacts DEF Cleanup, OldForSure
  <2> QED
    BY <1>14, <2>1, <1>b DEF Cleanup
<1>15. CASE ClearJournal
  <2>1. OldForSure => OldForSure'
    BY <1>15, <1>b, ClearFacts DEF ClearJournal, OldForSure
  <2>2. pc = "clear" /\ (pc' # "done" => Calm)
    BY <1>15 DEF ClearJournal
  <2> QED
    BY <1>15, <2>1, <2>2, <1>a, <1>b DEF ClearJournal
<1>16. CASE Untouched
  BY <1>16, UntouchedFacts, <1>a, <1>b, <1>c, <1>d, <1>e DEF Untouched, work,
     Pcs, Gains, Reaches
<1>17. CASE ExitTrap
  BY <1>17, <1>a, <1>b, <1>c, <1>d, <1>e DEF ExitTrap, work, Pcs
<1>18. CASE RollbackStop
  BY <1>18, <1>a, <1>b, <1>c, <1>d, <1>e DEF RollbackStop, work, Pcs
<1>19. CASE FinishRollback
  <2>1. pc \in Backward /\ journal.state = "active" /\ journal.armed
    BY <1>19 DEF FinishRollback
  <2>2. loaded' = loaded /\ job' = job
    BY <1>19 DEF FinishRollback
  <2>3. CASE pc = "rbdone"
    <3>1. Sync({"host"}) /\ ran' = ran /\ Reaches("recovered")
      BY <1>19, <2>3, RollbackFacts
    <3>2. (\A a \in Artifacts : Back(a)) /\ loaded = "old" /\ DbOld /\ ran = "old" /\ mayEnable = {TRUE}
      BY <2>3 DEF IInv, UndoneInv, BootInv
    <3>3. \A a \in Artifacts : ArtOld(a)'
      BY <3>1, <3>2, SyncKeeps DEF Back
    <3>4. DbOld'
      BY <3>1, <3>2, SyncKeeps
    <3>5. mayEnable' = {TRUE}
      BY <3>1, <3>2, SyncFacts
    <3>6. OldForSure'
      BY <3>3, <3>4, <3>5 DEF OldForSure, ArtOld, DbOld
    <3>7. ~job
      BY <2>1 DEF IInv, FenceInv
    <3> QED
      BY <2>2, <3>1, <3>2, <3>6, <3>7, <1>c
  <2>4. CASE pc # "rbdone"
    <3>1. journal' = journal
      BY <1>19, <2>4, RollbackFacts
    <3>2. CASE StartService
      <4>1. (db # "none" => mayDb' = mayDb) /\ db' \in {db, "new"} /\ mayDb' \subseteq mayDb \cup {db'}
        BY <3>2, StartFacts
      <4> QED
        BY <2>1, <3>1, <4>1, <1>e
    <3>3. CASE ~StartService
      <4>1. "oldw" \in mayDb' => mayDb' = {"oldw"}
        BY <1>19, <2>4, <3>3, RollbackFacts, <1>c, <1>d DEF WriteEnable
      <4> QED
        BY <2>1, <3>1, <4>1
    <3> QED
      BY <3>2, <3>3
  <2> QED
    BY <2>3, <2>4
<1>20. CASE ServeFence
  BY <1>20, <1>a, <1>b, <1>c, <1>d, <1>e DEF ServeFence, work, Pcs
<1>21. CASE FenceAbandon
  BY <1>21, <1>a, <1>b, <1>c, <1>d, <1>e DEF FenceAbandon, work, Pcs
<1>22. CASE CommandFails
  BY <1>22, <1>a, <1>b, <1>c, <1>d, <1>e DEF CommandFails, work, Pcs,
     Forward
<1>23. CASE ProcessEnds
  BY <1>23, <1>a, <1>b, <1>c, <1>d, <1>e DEF ProcessEnds, work, Pcs
<1>24. CASE PowerLoss
  <2>1. /\ journal' = journal /\ plan' = plan /\ job' = job
        /\ pc' = IF pc = "done" THEN "done" ELSE "off"
    BY <1>24 DEF PowerLoss
  <2>2. mayDb' = {db'}
    BY <1>24, PowerLossFacts
  <2>3. ASSUME Calm
        PROVE  OldForSure' /\ ran' = "old" /\ loaded' = "old"
    <3>1. (\A a \in Artifacts : ArtOld(a)) /\ mayEnable = {TRUE} /\ DbOld
      BY <2>3, OldForSureIs
    <3>2. \A a \in Artifacts : now'[a].live = OldLive(a) /\ may'[a] = {now'[a]}
      BY <1>24, <3>1, PowerLossFacts DEF ArtOld
    <3>3. loaded' = "old"
      BY <1>24, <3>2, PowerLossFacts DEF Artifacts, OldLive
    <3>4. PICK d \in mayDb : /\ ran' = IF enable' THEN Started(now', d, loaded') ELSE "none"
                             /\ db' = IF ran' # "none" /\ d = "none" THEN "new" ELSE d
      BY <1>24, PowerLossFacts
    <3>5. enable' = TRUE /\ mayEnable' = {TRUE}
      BY <1>24, <3>1, PowerLossFacts
    <3>6. d \in {"old", "oldw"}
      BY <3>1 DEF DbOld
    <3>7. ran' = "old"
      BY <3>2, <3>3, <3>4, <3>5, <3>6, OldStarts
    <3>8. db' \in {"old", "oldw"}
      BY <3>4, <3>6
    <3>9. OldForSure'
      BY <2>2, <3>2, <3>5, <3>8, <1>b DEF OldForSure
    <3> QED
      BY <3>3, <3>7, <3>9
  <2> QED
    BY <2>1, <2>2, <2>3, <1>b
<1>25. CASE Workload
  BY <1>25, <1>a, <1>b, <1>c, <1>d, <1>e DEF Workload, work, Pcs
<1>26. CASE ServiceWrites
  <2>1. OldForSure => OldForSure'
    BY <1>26, <1>b DEF ServiceWrites, OldForSure
  <2> QED
    BY <1>26, <2>1, <1>b DEF ServiceWrites
<1>27. CASE UNCHANGED vars
  BY <1>27, <1>b, <1>d DEF vars, disk, work
<1>28. QED
  BY <1>1, <1>2, <1>3, <1>4, <1>5, <1>6, <1>7, <1>8, <1>9, <1>10, <1>11,
     <1>12, <1>13, <1>14, <1>15, <1>16, <1>17, <1>18, <1>19, <1>20, <1>21,
     <1>22, <1>23, <1>24, <1>25, <1>26, <1>27 DEF Next, Updater

\* The new installation for sure, artifact by artifact.
LEMMA NewForSureIs ==
    NewForSure <=> /\ \A a \in plan.changed \cup {"marker"} : ArtNew(a)
                   /\ mayEnable = {TRUE} /\ (plan.reset => mayDb = {"new"})
  BY DEF NewForSure, ArtNew

\* Every step keeps the accepted target whole.
LEMMA DoneStep == IInv /\ [Next]_vars => DoneInv'
<1> SUFFICES ASSUME IInv, [Next]_vars PROVE DoneInv'
  OBVIOUS
<1> install' = install
  BY DEF Next, vars
<1> USE DEF Early, Window, Backward, Accepted
<1> IInv /\ TypeOK /\ PcInv /\ DoneInv
  BY DEF IInv
<1>a. /\ NoJournal.state = "none" /\ NoJournal.run = 0
      /\ NoJournal.armed = FALSE /\ NoJournal.ledger = {}
  BY DEF NoJournal
<1>b. plan \in Plans => plan.changed \cup {"marker"} \subseteq Artifacts
  BY PlansAssumption DEF Artifacts
<1>c. ASSUME NEW F, Sync(F), plan' = plan, plan \in Plans, NewForSure
      PROVE  NewForSure'
  <2>1. \A a \in plan.changed \cup {"marker"} : ArtNew(a)'
    BY <1>b, <1>c, SyncKeeps, NewForSureIs
  <2>2. mayEnable' = {TRUE} /\ (plan.reset => mayDb' = {"new"})
    BY <1>c, SyncFacts, NewForSureIs
  <2> QED
    BY <1>c, <2>1, <2>2 DEF NewForSure, ArtNew
<1>d. ASSUME UNCHANGED disk, plan' = plan
      PROVE  NewForSure' = NewForSure
  BY <1>d DEF disk, NewForSure
<1>e. db \in mayDb
  BY DEF TypeOK
<1> USE DEF PcInv, DoneInv
<1>1. CASE BeginRun
  BY <1>1, <1>a, <1>c, <1>d DEF BeginRun, ClientGone, work, Pcs
<1>2. CASE Classify
  BY <1>2, <1>a, <1>c, <1>d DEF Classify, work, Pcs
<1>3. CASE DryRun
  BY <1>3, DryRunFacts, <1>a, <1>c, <1>d DEF DryRun, work, Pcs, Gains,
     Reaches
<1>4. CASE RecoveryGate
  BY <1>4, <1>a, <1>c, <1>d DEF RecoveryGate, work, Pcs
<1>5. CASE AcquireFence
  BY <1>5, <1>a, <1>c, <1>d DEF AcquireFence, PreActivationFence, work, Pcs
<1>6. CASE FenceAnswer
  BY <1>6, AnswerFacts, <1>a, <1>c, <1>d DEF FenceAnswer, work, Pcs, Gains,
     Reaches
<1>7. CASE DisableAutostart
  BY <1>7, DisableFacts, <1>a, <1>c, <1>d DEF DisableAutostart, WriteEnable,
     work, Pcs, Gains, Reaches
<1>8. CASE StopService
  BY <1>8, StopFacts, <1>a, <1>c, <1>d DEF StopService, work, Pcs, Gains,
     Reaches
<1>9. CASE Take
  BY <1>9, <1>a, <1>c, <1>d DEF Take, work, Pcs
<1>10. CASE Do
  BY <1>10, DoStep DEF IInv
<1>11. CASE StartTarget
  <2>1. journal'.state = "active" /\ pc' # "done"
    BY <1>11 DEF StartTarget, Window
  <2> QED
    BY <2>1
<1>12. CASE FinishTarget
  <2>1. CASE pc = "completing"
    <3>1. Sync({"host"}) /\ reenabled' = reenabled /\ plan' = plan
      BY <1>12, <2>1, FinishFacts DEF FinishTarget
    <3>2. plan \in Plans /\ reenabled /\ mayEnable = {TRUE}
      BY <2>1 DEF Window, Accepted, IInv, BootInv
    <3>3. /\ \A a \in plan.changed \cup {"marker"} :
                /\ now[a].live = "new"
                /\ FsOf(a) = "opt" \/ FsOf(a) = "etc" => ArtNew(a)
          /\ plan.reset => mayDb = {"new"}
      BY <2>1 DEF IInv, SwapInv, Accepted
    <3>4. \A a \in Artifacts : FsOf(a) \in {"opt", "etc", "host"}
      BY DEF Artifacts, FsOf
    <3>5. \A a \in plan.changed \cup {"marker"} : ArtNew(a)'
      BY <3>1, <3>2, <3>3, <3>4, <1>b, SyncKeeps
    <3>6. mayEnable' = {TRUE} /\ (plan.reset => mayDb' = {"new"})
      BY <3>1, <3>2, <3>3, SyncFacts
    <3> QED
      BY <3>1, <3>2, <3>5, <3>6 DEF NewForSure, ArtNew
  <2>2. CASE pc # "completing"
    <3>1. journal'.state = "active" /\ pc' # "done"
      BY <1>12, <2>2, FinishFacts DEF Window, Accepted
    <3> QED
      BY <3>1
  <2> QED
    BY <2>1, <2>2
<1>13. CASE ReleaseFence
  BY <1>13, <1>a, <1>c, <1>d DEF ReleaseFence, work, Pcs
<1>14. CASE Cleanup
  <2>1. plan \in Plans /\ NewForSure => NewForSure'
    BY <1>14, <1>b, CleanupFacts DEF Cleanup, NewForSure
  <2> QED
    BY <1>14, <2>1 DEF Cleanup
<1>15. CASE ClearJournal
  <2>1. plan \in Plans /\ NewForSure => NewForSure'
    BY <1>15, <1>b, ClearFacts DEF ClearJournal, NewForSure
  <2> QED
    BY <1>15, <2>1, <1>a DEF ClearJournal
<1>16. CASE Untouched
  BY <1>16, UntouchedFacts, <1>a, <1>c, <1>d DEF Untouched, work, Pcs, Gains,
     Reaches
<1>17. CASE ExitTrap
  BY <1>17, <1>a, <1>c, <1>d DEF ExitTrap, work, Pcs
<1>18. CASE RollbackStop
  BY <1>18, <1>a, <1>c, <1>d DEF RollbackStop, work, Pcs
<1>19. CASE FinishRollback
  <2>1. journal'.state \in {"active", "recovered"} /\ pc' # "done"
    BY <1>19, RollbackFacts DEF Reaches, Backward
  <2> QED
    BY <2>1
<1>20. CASE ServeFence
  BY <1>20, <1>a, <1>c, <1>d DEF ServeFence, work, Pcs
<1>21. CASE FenceAbandon
  BY <1>21, <1>a, <1>c, <1>d DEF FenceAbandon, work, Pcs
<1>22. CASE CommandFails
  BY <1>22, <1>a, <1>c, <1>d DEF CommandFails, work, Pcs, Forward
<1>23. CASE ProcessEnds
  BY <1>23, <1>a, <1>c, <1>d DEF ProcessEnds, work, Pcs
<1>24. CASE PowerLoss
  <2>1. /\ journal' = journal /\ plan' = plan /\ reenabled' = reenabled
        /\ pc' = IF pc = "done" THEN "done" ELSE "off"
    BY <1>24 DEF PowerLoss
  <2>2. ASSUME plan \in Plans, NewForSure
        PROVE  NewForSure'
    <3>1. \A a \in plan.changed \cup {"marker"} : now'[a].live = "new" /\ may'[a] = {now'[a]}
      BY <1>24, <2>2, <1>b, PowerLossFacts DEF NewForSure
    <3>2. mayEnable' = {TRUE}
      BY <1>24, <2>2, PowerLossFacts DEF NewForSure
    <3>3. plan.reset => mayDb' = {"new"}
      <4>1. PICK d \in mayDb : db' = IF ran' # "none" /\ d = "none" THEN "new" ELSE d
        BY <1>24, PowerLossFacts
      <4>2. mayDb' = {db'}
        BY <1>24, PowerLossFacts
      <4> QED
        BY <2>2, <4>1, <4>2 DEF NewForSure
    <3> QED
      BY <2>1, <3>1, <3>2, <3>3 DEF NewForSure
  <2> QED
    BY <2>1, <2>2
<1>25. CASE Workload
  BY <1>25, <1>a, <1>c, <1>d DEF Workload, work, Pcs
<1>26. CASE ServiceWrites
  <2>1. NewForSure => NewForSure'
    BY <1>26, <1>e DEF ServiceWrites, NewForSure
  <2> QED
    BY <1>26, <2>1 DEF ServiceWrites
<1>27. CASE UNCHANGED vars
  BY <1>27, <1>d DEF vars, disk, work
<1>28. QED
  BY <1>1, <1>2, <1>3, <1>4, <1>5, <1>6, <1>7, <1>8, <1>9, <1>10, <1>11,
     <1>12, <1>13, <1>14, <1>15, <1>16, <1>17, <1>18, <1>19, <1>20, <1>21,
     <1>22, <1>23, <1>24, <1>25, <1>26, <1>27 DEF Next, Updater

\* Every step keeps the account of what is swapped.
LEMMA SwapStep == IInv /\ [Next]_vars => SwapInv'
<1> SUFFICES ASSUME IInv, [Next]_vars PROVE SwapInv'
  OBVIOUS
<1> install' = install
  BY DEF Next, vars
<1> IInv /\ TypeOK /\ PcInv /\ SwapInv
  BY DEF IInv
<1> DEFINE On(p) == p \in {"swap", "start", "mark", "enable", "enabled", "completing"}
<1>a. ASSUME ~On(pc')
      PROVE  SwapInv'
  BY <1>a DEF SwapInv, Accepted
<1>b. ASSUME pc' = pc, UNCHANGED <<work, journal, plan, disk, loaded>>
      PROVE  SwapInv'
  BY <1>b DEF SwapInv, work, disk, ArtOld, ArtNew, OldLive, MarkerExisted, InHand, ToSwap
<1>c. \A a \in Artifacts : OldLive(a)' = OldLive(a)
  BY DEF OldLive, MarkerExisted
<1>d. db \in mayDb /\ plan \in Plans \cup {NoPlan} /\ left \subseteq Things
  BY DEF TypeOK, Things
<1>1. CASE BeginRun
  BY <1>1, <1>a DEF BeginRun
<1>2. CASE Classify
  BY <1>2, <1>a DEF Classify
<1>3. CASE DryRun
  BY <1>3, <1>a DEF DryRun
<1>4. CASE RecoveryGate
  BY <1>4, <1>a DEF RecoveryGate
<1>5. CASE AcquireFence
  BY <1>5, <1>a DEF AcquireFence, PreActivationFence
<1>6. CASE FenceAnswer
  BY <1>6, <1>a DEF FenceAnswer
<1>7. CASE DisableAutostart
  BY <1>7, <1>a DEF DisableAutostart
<1>8. CASE StopService
  <2>1. CASE pc = "stop"
    BY <1>8, <2>1, <1>a DEF StopService
  <2>2. CASE pc = "stopping"
    <3>1. /\ pc' = "swap" /\ left' = ToSwap /\ todo' = <<>> /\ plan' = plan /\ journal' = journal
          /\ UNCHANGED disk /\ loaded' = loaded
      BY <1>8, <2>2, StopFacts DEF PcInv, StopService
    <3>2. /\ journal.ledger = {"fenceheld", "autostart", "stop"} /\ plan \in Plans
          /\ journal.state = "active"
      BY <2>2 DEF PcInv, Window
    <3>3. \A a \in Artifacts : ~Attempted(a)
      BY <3>2 DEF Attempted, MarkerOf, Artifacts
    <3>4. loaded = "old" /\ mayDb = {"old"} /\ \A a \in Artifacts : Safe(a)
      BY <3>2 DEF IInv, LedgerInv
    <3>5. \A a \in Artifacts : ArtOld(a)
      BY <3>3, <3>4 DEF Safe, ArtOld
    <3>6. \A a \in Artifacts : ArtOld(a)'
      BY <3>1, <3>5, <1>c DEF ArtOld, disk
    <3>7. now["unit"].live = "old"
      BY <3>5, ArtifactTypes DEF ArtOld, Artifacts, OldLive
    <3>8. now' = now /\ db' = db /\ ToSwap' = ToSwap
      BY <3>1 DEF disk, ToSwap
    <3>9. "marker" \in Artifacts /\ ToSwap = plan.changed \cup (IF plan.reset THEN {"db"} ELSE {})
      BY DEF Artifacts, ToSwap
    <3> QED
      BY <3>1, <3>2, <3>4, <3>6, <3>7, <3>8, <3>9 DEF SwapInv, Accepted
  <2> QED
    BY <1>8, <2>1, <2>2, StopFacts
<1>9. CASE Take
  <2>1. /\ todo = <<>> /\ art' \in left /\ left' = left \ {art'} /\ journal' = journal
        /\ plan' = plan /\ UNCHANGED disk /\ loaded' = loaded
    BY <1>9 DEF Take
  <2>2. CASE pc = "rb"
    BY <1>9, <2>2, <1>a DEF Take
  <2>3. CASE pc \in {"swap", "mark"}
    <3>1. pc' = pc /\ todo' = SwapOps(art') /\ art' \in Things
      BY <1>9, <2>1, <2>3, <1>d DEF Take
    <3>3. todo' # <<>>
      BY <3>1, SwapBegins, FlagsAssumption DEF TypeOK
    <3>4. \A a \in Artifacts : ArtOld(a)' = ArtOld(a)
      BY <2>1, <1>c DEF ArtOld, disk
    <3>5. now' = now /\ db' = db /\ mayDb' = mayDb /\ ToSwap' = ToSwap
      BY <2>1 DEF disk, ToSwap
    <3>6. CASE pc = "swap"
      <4>1. /\ left' \subseteq ToSwap /\ art' \in ToSwap
        BY <2>1, <3>6 DEF SwapInv
      <4>2. "marker" \in Artifacts /\ \A a \in left' \cap Artifacts : ArtOld(a)
        BY <2>1, <3>6 DEF SwapInv, Artifacts
      <4>3. \A a \in plan.changed : a \in left' \/ InHand(a)' \/ now[a].live = "new"
        BY <2>1, <3>3, <3>6 DEF SwapInv, InHand
      <4>4. plan.reset => "db" \in left' \/ InHand("db")' \/ db = "none"
        BY <2>1, <3>3, <3>6 DEF SwapInv, InHand
      <4>5. loaded = now["unit"].live
        BY <2>1, <3>6 DEF SwapInv, InHand
      <4> QED
        BY <2>1, <3>1, <3>3, <3>4, <3>5, <3>6, <4>1, <4>2, <4>3, <4>4, <4>5 DEF SwapInv, Accepted
    <3>7. CASE pc = "mark"
      <4>1. left' = {} /\ art' = "marker" /\ InHand("marker")'
        BY <2>1, <3>3, <3>7 DEF SwapInv, InHand
      <4> QED
        BY <2>1, <3>1, <3>3, <3>5, <3>7, <4>1 DEF SwapInv, Accepted
    <3> QED
      BY <2>3, <3>6, <3>7
  <2> QED
    BY <1>9, <2>2, <2>3 DEF Take
<1>10. CASE Do
  BY <1>10, DoStep DEF IInv
<1>11. CASE StartTarget
  <2>1. /\ journal' = journal /\ plan' = plan /\ loaded' = loaded
        /\ art' = art /\ todo' = todo
    BY <1>11 DEF StartTarget
  <2>2. CASE pc = "swap"
    <3>1. /\ todo = <<>> /\ left = {} /\ pc' = "start" /\ UNCHANGED disk
      BY <1>11, <2>2 DEF StartTarget
    <3>2. ArtOld("marker")' = ArtOld("marker") /\ now' = now /\ db' = db
      BY <3>1, <1>c DEF ArtOld, disk, Artifacts
    <3>3. /\ \A a \in plan.changed : now[a].live = "new"
          /\ loaded = now["unit"].live /\ (plan.reset => db = "none")
          /\ ArtOld("marker") /\ (plan.reset \/ "db" \notin journal.ledger)
      BY <2>2, <3>1 DEF SwapInv, InHand
    <3> QED
      BY <2>1, <3>1, <3>2, <3>3 DEF SwapInv, Accepted
  <2>3. CASE pc = "start"
    <3>1. StartService /\ ran' # "none" /\ pc' = "mark" /\ left' = {"marker"} /\ todo' = <<>>
      BY <1>11, <2>3 DEF StartTarget, PcInv
    <3>2. now' = now /\ may' = may /\ (db = "none" => db' = "new")
      BY <3>1, StartFacts
    <3>3. ArtOld("marker")'
      BY <2>3, <3>2, <1>c DEF SwapInv, ArtOld, Artifacts
    <3>4. /\ \A a \in plan.changed : now[a].live = "new"
          /\ plan.reset => db = "none"
      BY <2>3 DEF SwapInv
    <3> QED
      BY <2>1, <3>1, <3>2, <3>3, <3>4 DEF SwapInv, Accepted
  <2> QED
    BY <1>11, <2>2, <2>3 DEF StartTarget
<1>12. CASE FinishTarget
  <2>1. /\ plan' = plan /\ loaded' = loaded /\ UNCHANGED work
    BY <1>12 DEF FinishTarget
  <2>2. plan \in Plans /\ \A a \in plan.changed \cup {"marker"} : a \in Artifacts
    BY <1>12, PlansAssumption DEF FinishTarget, PcInv, Window, Accepted, Artifacts
  <2>3. CASE pc = "mark"
    <3>1. Sync(FinalBarriers) /\ pc' = "enable" /\ todo = <<>> /\ left = {}
      BY <1>12, <2>3, FinishFacts
    <3>2. /\ \A a \in plan.changed \cup {"marker"} : now[a].live = "new"
          /\ plan.reset => db = "new"
      BY <2>3, <3>1 DEF SwapInv, InHand
    <3>3. now' = now /\ db' = db
      BY <3>1, SyncFacts
    <3>4. "opt" \in FinalBarriers /\ (plan.reset => "var" \in FinalBarriers)
      BY DEF FinalBarriers
    <3>5. \A a \in plan.changed \cup {"marker"} : FsOf(a) = "opt" => ArtNew(a)'
      BY <2>2, <3>1, <3>2, <3>4, SyncKeeps
    <3>6. plan.reset => mayDb' = {"new"}
      BY <3>1, <3>2, <3>4, SyncFacts
    <3> QED
      BY <2>1, <3>1, <3>2, <3>3, <3>5, <3>6 DEF SwapInv, Accepted
  <2>4. CASE pc = "enable"
    <3>1. WriteEnable(TRUE) /\ pc' = "enabled"
      BY <1>12, <2>4, FinishFacts
    <3>2. now' = now /\ may' = may /\ db' = db /\ mayDb' = mayDb
      BY <3>1 DEF WriteEnable
    <3>3. \A a \in plan.changed \cup {"marker"} : ArtNew(a)' = ArtNew(a)
      BY <3>2 DEF ArtNew
    <3> QED
      BY <2>1, <2>4, <3>1, <3>2, <3>3 DEF SwapInv, Accepted
  <2>5. CASE pc = "enabled"
    <3>1. Sync({"etc"}) /\ pc' = "completing"
      BY <1>12, <2>5, FinishFacts
    <3>2. now' = now /\ db' = db /\ mayDb' = mayDb
      BY <3>1, SyncFacts
    <3>3. /\ \A a \in plan.changed \cup {"marker"} :
                now[a].live = "new" /\ (FsOf(a) = "opt" => ArtNew(a))
          /\ plan.reset => db = "new" /\ mayDb = {"new"}
      BY <2>5 DEF SwapInv, Accepted
    <3>4. \A a \in plan.changed \cup {"marker"} : FsOf(a) \in {"opt", "etc"} => ArtNew(a)'
      BY <2>2, <3>1, <3>3, SyncKeeps
    <3> QED
      BY <2>1, <3>1, <3>2, <3>3, <3>4 DEF SwapInv, Accepted
  <2>6. CASE pc = "completing"
    BY <1>12, <2>6, <1>a, FinishFacts
  <2> QED
    BY <1>12, <2>3, <2>4, <2>5, <2>6, FinishFacts
<1>13. CASE ReleaseFence
  BY <1>13, <1>a DEF ReleaseFence
<1>14. CASE Cleanup
  BY <1>14, <1>a DEF Cleanup
<1>15. CASE ClearJournal
  BY <1>15, <1>a DEF ClearJournal
<1>16. CASE Untouched
  BY <1>16, <1>a DEF Untouched
<1>17. CASE ExitTrap
  BY <1>17, <1>a DEF ExitTrap
<1>18. CASE RollbackStop
  BY <1>18, <1>a DEF RollbackStop
<1>19. CASE FinishRollback
  BY <1>19, <1>a DEF FinishRollback
<1>20. CASE ServeFence
  BY <1>20, <1>b DEF ServeFence
<1>21. CASE FenceAbandon
  BY <1>21, <1>a DEF FenceAbandon
<1>22. CASE CommandFails
  BY <1>22, <1>a DEF CommandFails
<1>23. CASE ProcessEnds
  BY <1>23, <1>a DEF ProcessEnds
<1>24. CASE PowerLoss
  BY <1>24, <1>a DEF PowerLoss
<1>25. CASE Workload
  BY <1>25, <1>b DEF Workload
<1>26. CASE ServiceWrites
  <2>1. pc' = pc /\ pc \notin Window
    BY <1>26 DEF ServiceWrites, PcInv
  <2> QED
    BY <2>1, <1>a DEF Window, Accepted
<1>27. CASE UNCHANGED vars
  BY <1>27, <1>b DEF vars
<1>28. QED
  BY <1>1, <1>2, <1>3, <1>4, <1>5, <1>6, <1>7, <1>8, <1>9, <1>10, <1>11,
     <1>12, <1>13, <1>14, <1>15, <1>16, <1>17, <1>18, <1>19, <1>20, <1>21,
     <1>22, <1>23, <1>24, <1>25, <1>26, <1>27 DEF Next, Updater

\* Every step keeps the account of the artifact in hand, forwards.
LEMMA SwapHandStep == IInv /\ [Next]_vars => SwapHand'
<1> SUFFICES ASSUME IInv, [Next]_vars PROVE SwapHand'
  OBVIOUS
<1> install' = install
  BY DEF Next, vars
<1> IInv /\ TypeOK /\ PcInv /\ SwapInv /\ SwapHand
  BY DEF IInv
<1>a. ASSUME pc' \notin {"swap", "mark"} \/ todo' = <<>>
      PROVE  SwapHand'
  BY <1>a DEF SwapHand
<1>b. ASSUME pc' = pc, UNCHANGED <<work, journal, now, may>>
      PROVE  SwapHand'
  BY <1>b DEF SwapHand, work, ArtOld, OldLive, MarkerExisted, SwapLeft, Attempted, MarkerOf
<1>c. install.marker \in BOOLEAN
  BY FlagsAssumption DEF TypeOK
<1>1. CASE BeginRun
  BY <1>1, <1>a DEF BeginRun
<1>2. CASE Classify
  BY <1>2, <1>a DEF Classify
<1>3. CASE DryRun
  BY <1>3, <1>a DEF DryRun
<1>4. CASE RecoveryGate
  BY <1>4, <1>a DEF RecoveryGate
<1>5. CASE AcquireFence
  BY <1>5, <1>a DEF AcquireFence, PreActivationFence
<1>6. CASE FenceAnswer
  BY <1>6, <1>a DEF FenceAnswer
<1>7. CASE DisableAutostart
  BY <1>7, <1>a DEF DisableAutostart
<1>8. CASE StopService
  BY <1>8, <1>a, StopFacts DEF PcInv
<1>9. CASE Take
  <2>1. /\ todo = <<>> /\ art' \in left /\ left' = left \ {art'} /\ journal' = journal
        /\ UNCHANGED disk
    BY <1>9 DEF Take
  <2>2. CASE pc = "rb"
    BY <1>9, <2>2, <1>a DEF Take
  <2>3. CASE pc \in {"swap", "mark"}
    <3> DEFINE a == art'
    <3>1. pc' = pc /\ todo' = SwapOps(a) /\ a \in Things /\ IsNext(a, Order)
      BY <1>9, <2>1, <2>3 DEF Take, TypeOK, Things
    <3>2. /\ SwapOps(a) \in SwapLeft(a)
          /\ a = "req" \/ Todo(SwapOps(a), "record")
          /\ a = "db" \/ Todo(SwapOps(a), "activate")
          /\ \/ a = "db" \/ OldLive(a) = "none"
             \/ Todo(SwapOps(a), "aside") \/ Todo(SwapOps(a), "preserve")
      BY <3>1, <1>c, SwapBegins
    <3>3. a # "db" => a \in Artifacts /\ ArtOld(a)
      BY <2>1, <2>3, <3>1 DEF SwapInv, Things
    <3>4. a = "db" => "db" \notin journal.ledger
      BY <2>1, <2>3 DEF SwapInv
    <3>5. a = "req" => Attempted(a)
      <4> SUFFICES ASSUME a = "req" PROVE "venv" \in journal.ledger
        BY DEF Attempted, MarkerOf
      <4>1. "venv" \notin left
        <5>1. PICK i \in 1..10 : Order[i] = "req" /\ \A j \in 1..(i - 1) : Order[j] \notin left
          BY <3>1 DEF IsNext, Order
        <5>2. i = 3
          BY <5>1 DEF Order
        <5>3. Order[2] = "venv"
          BY DEF Order
        <5> QED
          BY <5>1, <5>2, <5>3
      <4>2. pc = "swap" /\ "req" \in plan.changed
        BY <2>1, <2>3 DEF SwapInv, ToSwap
      <4>3. journal.state = "active" /\ plan \in Plans
        BY <4>2 DEF PcInv, Window
      <4>4. "venv" \in plan.changed
        BY <4>2, <4>3, PlansAssumption
      <4>5. now["venv"].live = "new"
        BY <2>1, <4>1, <4>2, <4>4 DEF SwapInv, InHand
      <4>6. Safe("venv") /\ now["venv"] \in may["venv"]
        BY <4>3 DEF IInv, LedgerInv, Artifacts, TypeOK
      <4> QED
        BY <4>5, <4>6 DEF Safe, Attempted, MarkerOf, OldLive
    <3>6. now' = now /\ may' = may
      BY <2>1 DEF disk
    <3>7. SwapLeft(art)' = SwapLeft(a) /\ OldLive(art)' = OldLive(a) /\ Attempted(art)' = Attempted(a)
      BY <2>1 DEF SwapLeft, OldLive, MarkerExisted, Attempted, MarkerOf
    <3>8. a # "db" => ArtOld(art)'
      BY <3>3, <3>6, <3>7 DEF ArtOld
    <3>9. Todo(SwapOps(a), "record") \/ Attempted(a)
      BY <3>2, <3>5
    <3> QED
      BY <2>1, <3>1, <3>2, <3>4, <3>6, <3>7, <3>8, <3>9 DEF SwapHand
  <2> QED
    BY <1>9, <2>2, <2>3 DEF Take
<1>10. CASE Do
  BY <1>10, DoStep DEF IInv
<1>11. CASE StartTarget
  BY <1>11, <1>a DEF StartTarget, PcInv
<1>12. CASE FinishTarget
  BY <1>12, <1>a DEF FinishTarget
<1>13. CASE ReleaseFence
  BY <1>13, <1>a DEF ReleaseFence
<1>14. CASE Cleanup
  BY <1>14, <1>a DEF Cleanup
<1>15. CASE ClearJournal
  BY <1>15, <1>a DEF ClearJournal
<1>16. CASE Untouched
  BY <1>16, <1>a DEF Untouched
<1>17. CASE ExitTrap
  BY <1>17, <1>a DEF ExitTrap
<1>18. CASE RollbackStop
  BY <1>18, <1>a DEF RollbackStop
<1>19. CASE FinishRollback
  BY <1>19, <1>a DEF FinishRollback
<1>20. CASE ServeFence
  BY <1>20, <1>b DEF ServeFence, disk
<1>21. CASE FenceAbandon
  BY <1>21, <1>a DEF FenceAbandon
<1>22. CASE CommandFails
  BY <1>22, <1>a DEF CommandFails
<1>23. CASE ProcessEnds
  BY <1>23, <1>a DEF ProcessEnds
<1>24. CASE PowerLoss
  BY <1>24, <1>a DEF PowerLoss
<1>25. CASE Workload
  BY <1>25, <1>b DEF Workload, disk
<1>26. CASE ServiceWrites
  BY <1>26, <1>b DEF ServiceWrites
<1>27. CASE UNCHANGED vars
  BY <1>27, <1>b DEF vars, disk
<1>28. QED
  BY <1>1, <1>2, <1>3, <1>4, <1>5, <1>6, <1>7, <1>8, <1>9, <1>10, <1>11,
     <1>12, <1>13, <1>14, <1>15, <1>16, <1>17, <1>18, <1>19, <1>20, <1>21,
     <1>22, <1>23, <1>24, <1>25, <1>26, <1>27 DEF Next, Updater

\* A rollback that turns to the next artifact has something to do on it.
LEMMA TakeBack ==
    ASSUME IInv, Take, pc = "rb", pc' # "off"
    PROVE  /\ pc' = "rb" /\ todo = <<>> /\ todo' # <<>> /\ art' \in left /\ left' = left \ {art'}
           /\ journal' = journal /\ UNCHANGED disk /\ loaded' = loaded
           /\ todo' = UndoOps(art') /\ Attempted(art')
           /\ art' # "db" =>
                 /\ art' \in Artifacts /\ todo' \in UndoLeft(art')
                 /\ Todo(todo', "restore") \/ Todo(todo', "replace") => now[art'].rb = "old"
                 /\ \/ Todo(todo', "restore") \/ Todo(todo', "replace")
                    \/ Todo(todo', "remove") \/ now[art'].live = OldLive(art')
                 /\ Todo(todo', "sync") \/ Todo(todo', "remove")
           /\ art' = "db" =>
                 todo' = IF "restored" \in journal.ledger THEN <<"lineage">> ELSE RestoreDbOps
<1> IInv /\ TypeOK /\ PcInv /\ LedgerInv /\ UndoneInv
  BY DEF IInv
<1> DEFINE a == art'
<1>1. /\ pc' = "rb" /\ todo = <<>> /\ a \in left /\ left' = left \ {a}
      /\ journal' = journal /\ UNCHANGED disk /\ loaded' = loaded
      /\ ~Stuck(a) /\ todo' = UndoOps(a)
  BY DEF Take
<1>2. a \in Things /\ Attempted(a) /\ journal.state = "active" /\ ledger = journal.ledger
  BY <1>1 DEF TypeOK, Things, UndoneInv, PcInv, Backward
<1>3. CASE a = "db"
  <2>1. UndoOps(a) = IF "restored" \in journal.ledger THEN <<"lineage">> ELSE RestoreDbOps
    BY <1>2, <1>3 DEF UndoOps, UndoDb
  <2>2. <<"lineage">> # <<>>
    OBVIOUS
  <2> QED
    BY <1>1, <1>2, <1>3, <2>1, <2>2, DbBegins
<1>4. CASE a # "db"
  <2>1. a \in Artifacts /\ Safe(a) /\ now[a] \in may[a] /\ now \in [Artifacts -> States]
    BY <1>2, <1>4 DEF Things, LedgerInv, TypeOK
  <2>2. Fixable(a, now[a])
    BY <2>1 DEF Safe
  <2>3. a = "marker" => (MarkerExisted <=> "marker-absent" \notin ledger)
    BY <1>2 DEF LedgerInv, Attempted, MarkerOf
  <2>4. install.marker \in BOOLEAN
    BY FlagsAssumption DEF TypeOK
  <2> HIDE DEF a
  <2>5. /\ UndoOps(a) \in UndoLeft(a) /\ UndoOps(a) # <<>>
        /\ Todo(UndoOps(a), "restore") \/ Todo(UndoOps(a), "replace") => now[a].rb = "old"
        /\ \/ Todo(UndoOps(a), "restore") \/ Todo(UndoOps(a), "replace")
           \/ Todo(UndoOps(a), "remove") \/ now[a].live = OldLive(a)
        /\ Todo(UndoOps(a), "sync") \/ Todo(UndoOps(a), "remove")
    BY <1>1, <2>1, <2>2, <2>3, <2>4, UndoBegins
  <2> QED
    BY <1>1, <1>2, <1>4, <2>1, <2>5 DEF a
<1> QED
  BY <1>3, <1>4

\* Every step keeps the account of what is undone.
LEMMA UndoneStep == IInv /\ [Next]_vars => UndoneInv'
<1> SUFFICES ASSUME IInv, [Next]_vars PROVE UndoneInv'
  OBVIOUS
<1> install' = install
  BY DEF Next, vars
<1> IInv /\ TypeOK /\ PcInv /\ UndoneInv
  BY DEF IInv
<1>a. ASSUME pc' \notin {"rb", "rbsync", "rbstart", "rbdone"}
      PROVE  UndoneInv'
  BY <1>a DEF UndoneInv
<1>c. \A a \in Artifacts : OldLive(a)' = OldLive(a)
  BY DEF OldLive, MarkerExisted
<1>d. ASSUME now' = now, may' = may
      PROVE  \A a \in Artifacts : Back(a)' = Back(a)
  BY <1>c, <1>d DEF Back, ArtOld
<1>b. ASSUME pc' = pc, UNCHANGED <<work, journal, now, may, loaded, ran>>, DbOld => DbOld'
      PROVE  UndoneInv'
  BY <1>b, <1>d DEF UndoneInv, work, InHand, Attempted
<1>1. CASE BeginRun
  BY <1>1, <1>a DEF BeginRun
<1>2. CASE Classify
  BY <1>2, <1>a DEF Classify
<1>3. CASE DryRun
  BY <1>3, <1>a DEF DryRun
<1>4. CASE RecoveryGate
  BY <1>4, <1>a DEF RecoveryGate
<1>5. CASE AcquireFence
  BY <1>5, <1>a DEF AcquireFence, PreActivationFence
<1>6. CASE FenceAnswer
  BY <1>6, <1>a DEF FenceAnswer
<1>7. CASE DisableAutostart
  BY <1>7, <1>a DEF DisableAutostart
<1>8. CASE StopService
  BY <1>8, <1>a DEF StopService
<1>9. CASE Take
  <2>1. CASE pc = "rb" /\ pc' # "off"
    <3>1. /\ pc' = "rb" /\ todo = <<>> /\ todo' # <<>> /\ art' \in left /\ left' = left \ {art'}
          /\ journal' = journal /\ UNCHANGED disk /\ loaded' = loaded
      BY <1>9, <2>1, TakeBack
    <3>2. now' = now /\ may' = may /\ mayDb' = mayDb
      BY <3>1 DEF disk
    <3>3. (\A a \in Artifacts : Back(a)' = Back(a)) /\ DbOld' = DbOld
      BY <3>2, <1>d DEF DbOld
    <3>4. \A a : Attempted(a)' = Attempted(a)
      BY <3>1 DEF Attempted
    <3>5. \A a \in Things : a \in left => a \in left' \/ InHand(a)'
      BY <3>1 DEF InHand
    <3>6. "unit" \in Things /\ "db" \in Things /\ \A a \in Artifacts : a \in Things
      BY DEF Things, Artifacts
    <3>7. \A a \in Artifacts : a \in left \/ Back(a)
      BY <2>1, <3>1 DEF UndoneInv, InHand
    <3>8. ("unit" \in left \/ loaded = "old") /\ ("db" \in left \/ DbOld)
      BY <2>1, <3>1 DEF UndoneInv, InHand
    <3>9. \A a \in left' : Attempted(a)
      BY <2>1, <3>1 DEF UndoneInv
    <3> QED
      BY <3>1, <3>3, <3>4, <3>5, <3>6, <3>7, <3>8, <3>9 DEF UndoneInv
  <2>2. CASE pc # "rb" \/ pc' = "off"
    BY <1>9, <2>2, <1>a DEF Take
  <2> QED
    BY <2>1, <2>2
<1>10. CASE Do
  BY <1>10, DoStep DEF IInv
<1>11. CASE StartTarget
  BY <1>11, <1>a DEF StartTarget
<1>12. CASE FinishTarget
  BY <1>12, <1>a DEF FinishTarget
<1>13. CASE ReleaseFence
  BY <1>13, <1>a DEF ReleaseFence
<1>14. CASE Cleanup
  BY <1>14, <1>a DEF Cleanup
<1>15. CASE ClearJournal
  BY <1>15, <1>a DEF ClearJournal
<1>16. CASE Untouched
  BY <1>16, <1>a DEF Untouched
<1>17. CASE ExitTrap
  BY <1>17, <1>a DEF ExitTrap
<1>18. CASE RollbackStop
  <2>1. /\ pc = "rbstop" /\ pc' = "rb" /\ left' = {a \in Things : MarkerOf(a) \in ledger}
        /\ todo' = <<>> /\ journal' = journal /\ UNCHANGED disk /\ loaded' = loaded
    BY <1>18 DEF RollbackStop, Things
  <2>2. journal.state = "active" /\ ledger = journal.ledger /\ LedgerInv
    BY <2>1 DEF PcInv, Backward, IInv
  <2>3. \A a \in Artifacts : a \in left' \/ Back(a)
    <3>1. ASSUME NEW a \in Artifacts, a \notin left'
          PROVE  Back(a)
      <4>1. ~Attempted(a) /\ Safe(a)
        BY <2>1, <2>2, <3>1 DEF Attempted, Things, LedgerInv
      <4>2. ArtOld(a) /\ now[a] \in may[a]
        BY <4>1 DEF Safe, ArtOld, TypeOK
      <4> QED
        BY <4>2 DEF Back, ArtOld
    <3> QED
      BY <3>1
  <2>4. "unit" \in left' \/ loaded = "old"
    BY <2>1, <2>2 DEF LedgerInv, MarkerOf, Things, Artifacts
  <2>5. "db" \in left' \/ DbOld
    BY <2>1, <2>2 DEF LedgerInv, MarkerOf, Things, DbOld
  <2>6. \A a \in left' : Attempted(a)
    BY <2>1, <2>2 DEF Attempted
  <2>7. now' = now /\ may' = may /\ mayDb' = mayDb
    BY <2>1 DEF disk
  <2>8. (\A a \in Artifacts : Back(a)' = Back(a)) /\ DbOld' = DbOld
    BY <2>7, <1>d DEF DbOld
  <2>9. \A a : Attempted(a)' = Attempted(a)
    BY <2>1 DEF Attempted
  <2> QED
    BY <2>1, <2>3, <2>4, <2>5, <2>6, <2>8, <2>9 DEF UndoneInv
<1>19. CASE FinishRollback
  <2>1. loaded' = loaded
    BY <1>19 DEF FinishRollback
  <2>2. CASE pc = "rb"
    <3>1. /\ todo = <<>> /\ left = {} /\ pc' \in {"rbsync", "rbstart"}
          /\ WriteEnable(TRUE) \/ UNCHANGED disk
      BY <1>19, <2>2, RollbackFacts
    <3>2. now' = now /\ may' = may /\ mayDb' = mayDb
      BY <3>1 DEF WriteEnable, disk
    <3>3. (\A a \in Artifacts : Back(a)) /\ loaded = "old" /\ DbOld
      BY <2>2, <3>1 DEF UndoneInv, InHand
    <3>4. (\A a \in Artifacts : Back(a)') /\ DbOld'
      BY <3>2, <3>3, <1>d DEF DbOld
    <3> QED
      BY <2>1, <3>1, <3>3, <3>4 DEF UndoneInv
  <2>3. CASE pc = "rbsync"
    <3>1. pc' = "rbstart" /\ Sync({"etc"})
      BY <1>19, <2>3, RollbackFacts
    <3>2. (\A a \in Artifacts : Back(a)) /\ loaded = "old" /\ DbOld
      BY <2>3 DEF UndoneInv
    <3>3. (\A a \in Artifacts : Back(a)') /\ DbOld'
      BY <3>1, <3>2, SyncKeeps
    <3> QED
      BY <2>1, <3>1, <3>2, <3>3 DEF UndoneInv
  <2>4. CASE pc = "rbstart"
    <3>1. pc' \in {"off", "rbdone"} /\ StartService
      BY <1>19, <2>4, RollbackFacts
    <3>2. (\A a \in Artifacts : Back(a)) /\ loaded = "old" /\ DbOld
      BY <2>4 DEF UndoneInv
    <3>3. db \in {"old", "oldw"} /\ \A a \in Artifacts : now[a].live = OldLive(a)
      BY <3>2 DEF TypeOK, DbOld, Back
    <3>4. ran' = "old"
      BY <3>1, <3>2, <3>3, StartFacts, OldStarts
    <3>5. now' = now /\ may' = may /\ mayDb' = mayDb
      BY <3>1, <3>3, StartFacts
    <3>6. (\A a \in Artifacts : Back(a)') /\ DbOld'
      BY <3>2, <3>5, <1>d DEF DbOld
    <3> QED
      BY <2>1, <3>1, <3>2, <3>4, <3>6 DEF UndoneInv
  <2>5. CASE pc = "rbdone"
    BY <1>19, <2>5, <1>a, RollbackFacts
  <2> QED
    BY <1>19, <2>2, <2>3, <2>4, <2>5, RollbackFacts
<1>20. CASE ServeFence
  BY <1>20, <1>b DEF ServeFence, disk, DbOld
<1>21. CASE FenceAbandon
  BY <1>21, <1>a DEF FenceAbandon
<1>22. CASE CommandFails
  BY <1>22, <1>a DEF CommandFails
<1>23. CASE ProcessEnds
  BY <1>23, <1>a DEF ProcessEnds
<1>24. CASE PowerLoss
  BY <1>24, <1>a DEF PowerLoss
<1>25. CASE Workload
  BY <1>25, <1>b DEF Workload, disk, DbOld
<1>26. CASE ServiceWrites
  BY <1>26, <1>b DEF ServiceWrites, DbOld
<1>27. CASE UNCHANGED vars
  BY <1>27, <1>b DEF vars, disk, DbOld
<1>28. QED
  BY <1>1, <1>2, <1>3, <1>4, <1>5, <1>6, <1>7, <1>8, <1>9, <1>10, <1>11,
     <1>12, <1>13, <1>14, <1>15, <1>16, <1>17, <1>18, <1>19, <1>20, <1>21,
     <1>22, <1>23, <1>24, <1>25, <1>26, <1>27 DEF Next, Updater

\* Every step keeps the account of the artifact in hand, backwards.
LEMMA UndoHandStep == IInv /\ [Next]_vars => UndoHand'
<1> SUFFICES ASSUME IInv, [Next]_vars PROVE UndoHand'
  OBVIOUS
<1> install' = install
  BY DEF Next, vars
<1> IInv /\ TypeOK /\ PcInv /\ UndoHand
  BY DEF IInv
<1>a. ASSUME pc' # "rb" \/ todo' = <<>>
      PROVE  UndoHand'
  BY <1>a DEF UndoHand
<1>b. ASSUME pc' = pc, UNCHANGED <<work, journal, now, may, db, mayDb>>
      PROVE  UndoHand'
  BY <1>b DEF UndoHand, work, ArtOld, OldLive, MarkerExisted, UndoLeft, Attempted, MarkerOf
<1>1. CASE BeginRun
  BY <1>1, <1>a DEF BeginRun
<1>2. CASE Classify
  BY <1>2, <1>a DEF Classify
<1>3. CASE DryRun
  BY <1>3, <1>a DEF DryRun
<1>4. CASE RecoveryGate
  BY <1>4, <1>a DEF RecoveryGate
<1>5. CASE AcquireFence
  BY <1>5, <1>a DEF AcquireFence, PreActivationFence
<1>6. CASE FenceAnswer
  BY <1>6, <1>a DEF FenceAnswer
<1>7. CASE DisableAutostart
  BY <1>7, <1>a DEF DisableAutostart
<1>8. CASE StopService
  BY <1>8, <1>a DEF StopService
<1>9. CASE Take
  <2>1. CASE pc = "rb" /\ pc' # "off"
    <3> DEFINE a == art'
    <3>1. /\ todo' # <<>> /\ journal' = journal /\ UNCHANGED disk /\ Attempted(a)
          /\ todo' = UndoOps(a)
          /\ a = "db" =>
                todo' = IF "restored" \in journal.ledger THEN <<"lineage">> ELSE RestoreDbOps
      BY <1>9, <2>1, TakeBack
    <3>2. a # "db" =>
             /\ a \in Artifacts /\ todo' \in UndoLeft(a)
             /\ Todo(todo', "restore") \/ Todo(todo', "replace") => now[a].rb = "old"
             /\ \/ Todo(todo', "restore") \/ Todo(todo', "replace")
                \/ Todo(todo', "remove") \/ now[a].live = OldLive(a)
             /\ Todo(todo', "sync") \/ Todo(todo', "remove")
      BY <1>9, <2>1, TakeBack
    <3>3. now' = now /\ may' = may /\ db' = db /\ mayDb' = mayDb
      BY <3>1 DEF disk
    <3>4. UndoLeft(art)' = UndoLeft(a) /\ OldLive(art)' = OldLive(a) /\ Attempted(art)' = Attempted(a)
      BY <3>1 DEF UndoLeft, OldLive, MarkerExisted, Attempted, MarkerOf
    <3> QED
      BY <3>1, <3>2, <3>3, <3>4, DbBegins DEF UndoHand
  <2>2. CASE pc # "rb" \/ pc' = "off"
    BY <1>9, <2>2, <1>a DEF Take
  <2> QED
    BY <2>1, <2>2
<1>10. CASE Do
  BY <1>10, DoStep DEF IInv
<1>11. CASE StartTarget
  BY <1>11, <1>a DEF StartTarget
<1>12. CASE FinishTarget
  BY <1>12, <1>a DEF FinishTarget
<1>13. CASE ReleaseFence
  BY <1>13, <1>a DEF ReleaseFence
<1>14. CASE Cleanup
  BY <1>14, <1>a DEF Cleanup
<1>15. CASE ClearJournal
  BY <1>15, <1>a DEF ClearJournal
<1>16. CASE Untouched
  BY <1>16, <1>a DEF Untouched
<1>17. CASE ExitTrap
  BY <1>17, <1>a DEF ExitTrap
<1>18. CASE RollbackStop
  BY <1>18, <1>a DEF RollbackStop
<1>19. CASE FinishRollback
  BY <1>19, <1>a DEF FinishRollback
<1>20. CASE ServeFence
  BY <1>20, <1>b DEF ServeFence, disk
<1>21. CASE FenceAbandon
  BY <1>21, <1>a DEF FenceAbandon
<1>22. CASE CommandFails
  BY <1>22, <1>a DEF CommandFails
<1>23. CASE ProcessEnds
  BY <1>23, <1>a DEF ProcessEnds
<1>24. CASE PowerLoss
  BY <1>24, <1>a DEF PowerLoss
<1>25. CASE Workload
  BY <1>25, <1>b DEF Workload, disk
<1>26. CASE ServiceWrites
  <2>1. /\ "restored" \in journal.ledger /\ pc' = pc
        /\ UNCHANGED <<work, journal, now, may>>
    BY <1>26 DEF ServiceWrites
  <2> QED
    BY <2>1 DEF UndoHand, work, ArtOld, OldLive, MarkerExisted, UndoLeft, Attempted, MarkerOf
<1>27. CASE UNCHANGED vars
  BY <1>27, <1>b DEF vars, disk
<1>28. QED
  BY <1>1, <1>2, <1>3, <1>4, <1>5, <1>6, <1>7, <1>8, <1>9, <1>10, <1>11,
     <1>12, <1>13, <1>14, <1>15, <1>16, <1>17, <1>18, <1>19, <1>20, <1>21,
     <1>22, <1>23, <1>24, <1>25, <1>26, <1>27 DEF Next, Updater

----------------------------------------------------------------------------
(* The theorems.                                                           *)

\* The old installation, before any run, satisfies the invariant.
LEMMA InitHolds == Init => IInv
<1> SUFFICES ASSUME Init PROVE IInv
  OBVIOUS
<1> USE DEF Init
<1>1. /\ NoJournal.state = "none" /\ NoJournal.run = 0
      /\ NoJournal.armed = FALSE /\ NoJournal.ledger = {}
  BY DEF NoJournal
<1>2. 0 \in 0..MaxRuns /\ 0 \in 0..MaxFaults
  BY FlagsAssumption
<1>3. NoJournal \in JournalType
  BY <1>2 DEF NoJournal, JournalType
<1>4. install.marker \in BOOLEAN /\ install.route \in BOOLEAN
  BY FlagsAssumption
<1>5. \A a \in Artifacts : /\ OldState(a) \in States /\ OldState(a).live = OldLive(a)
                           /\ now[a] = OldState(a) /\ may[a] = {OldState(a)}
  BY DEF OldState, OldLive, States, Lives
<1>6. RunTypes
  BY <1>2, <1>3 DEF RunTypes, Pcs, Things, Artifacts, Markers, JournalType
<1>7. DiskTypes
  BY <1>5 DEF DiskTypes
<1>8. RestTypes
  BY <1>2, <1>4 DEF RestTypes, Lives, OldHasRoute
<1>9. OldForSure
  BY <1>5 DEF OldForSure
<1>10. PcInv /\ LedgerInv
  BY <1>1 DEF PcInv, LedgerInv, Early, Window, Accepted, Backward
<1>11. BootInv /\ CalmInv /\ DoneInv
  <2>1. BootInv /\ DoneInv
    BY <1>1 DEF BootInv, DoneInv
  <2>2. ~OldHasRoute => ~job
    BY <1>4 DEF OldHasRoute
  <2> QED
    BY <2>1, <2>2, <1>9 DEF CalmInv
<1>12. SwapInv /\ SwapHand /\ UndoneInv /\ UndoHand
  BY DEF SwapInv, SwapHand, UndoneInv, UndoHand, Accepted
<1>13. FenceInv
  BY <1>1 DEF FenceInv, NoOrphanFence
<1> QED
  BY <1>6, <1>7, <1>8, <1>10, <1>11, <1>12, <1>13, TypeParts DEF IInv

\* Every step keeps the invariant.
LEMMA StepHolds == IInv /\ [Next]_vars => IInv'
<1> SUFFICES ASSUME IInv, [Next]_vars PROVE IInv'
  OBVIOUS
<1>1. TypeOK' /\ PcInv' /\ LedgerInv' /\ BootInv' /\ CalmInv' /\ DoneInv'
  BY TypeStep, PcStep, LedgerStep, BootStep, CalmStep, DoneStep
<1>2. SwapInv' /\ SwapHand' /\ UndoneInv' /\ UndoHand' /\ FenceInv'
  BY SwapStep, SwapHandStep, UndoneStep, UndoHandStep, FenceStep
<1> QED
  BY <1>1, <1>2 DEF IInv

\* The account of the update (IInv) holds in every reachable state: the journal
\* bounds what was touched, and every state a fault may leave can be undone.
THEOREM Inductive == Spec => []IInv
  BY InitHolds, StepHolds, PTL DEF Spec

\* Every ending of an update is one whole installation: what is recorded as
\* recovered is durably the old one, what is recorded as completed durably the
\* target, and no mixture runs before boot activation is restored.
THEOREM WholeEndings == Spec => []EndsWhole
<1>1. IInv => EndsWhole
  <2> SUFFICES ASSUME IInv PROVE EndsWhole
    OBVIOUS
  <2>1. TypeOK /\ MixedOnlyAfterReenable
    BY DEF IInv, BootInv, MixedOnlyAfterReenable
  <2>2. RecoveredIsOld
    <3>1. ASSUME journal.state = "recovered"
          PROVE  Calm
      <4>1. pc # "done"
        BY <3>1 DEF IInv, PcInv, NoJournal
      <4> QED
        BY <3>1, <4>1 DEF Calm
    <3> QED
      BY <3>1 DEF RecoveredIsOld, IInv, CalmInv
  <2>3. CompletedIsNew
    BY DEF CompletedIsNew, IInv, DoneInv
  <2> QED
    BY <2>1, <2>2, <2>3 DEF EndsWhole
<1> QED
  BY <1>1, Inductive, PTL

\* From the first mutation to the proven end of a run its fence is durable and
\* no workload update is active, even if fence clients are interrupted.
THEOREM FenceCovers == Spec => []FenceCoversWindow
<1>1. IInv => FenceCoversWindow
  BY DEF IInv, PcInv, FenceInv, FenceCoversWindow
<1> QED
  BY <1>1, Inductive, PTL

\* Where no interrupted client leaves its request behind, the fence is there
\* for exactly as long as a run needs it: it never outlives its journal.
THEOREM FenceHolds ==
    ASSUME ~ClientMayDie
    PROVE  Spec => []FenceIsTheRuns
<1>1. IInv => FenceIsTheRuns
  BY DEF IInv, PcInv, FenceInv, FenceCoversWindow, FenceIsTheRuns
<1> QED
  BY <1>1, Inductive, PTL

\* A replayed rollback never overwrites what the restored service committed:
\* only the next run gives the database a new baseline.
THEOREM WritesStand == Spec => WritesSurvive
<1>1. IInv /\ [Next]_vars => [db = "oldw" => db' = "oldw" \/ BeginRun]_vars
  <2> SUFFICES ASSUME IInv, Next, db = "oldw", ~BeginRun
               PROVE  db' = "oldw"
    BY DEF vars, disk
  <2>1. TypeOK /\ mayDb = {"oldw"}
    BY DEF IInv, CalmInv, TypeOK
  <2>2. ASSUME NEW F, Sync(F)
        PROVE  db' = db
    BY <2>2 DEF Sync
  <2>3. ASSUME StartService
        PROVE  db' = db
    BY <2>3, <2>1, StartFacts
  <2>4. CASE Do
    <3>1. install' = install
      BY DEF Next
    <3>2. journal.state = "active" /\ pc \in {"swap", "mark", "rb"} /\ todo # <<>>
      BY <2>4, <3>1, DoFrame
    <3>3. "restored" \in journal.ledger
      BY <3>2 DEF IInv, LedgerInv
    <3>4. CASE art = "db"
      <4>1. pc = "rb"
        BY <3>2, <3>3 DEF IInv, PcInv, Window
      <4>2. todo = <<"lineage">>
        BY <3>2, <3>3, <3>4, <4>1 DEF IInv, UndoHand
      <4> QED
        BY <2>4, <3>1, <3>4, <4>2, DoDb
    <3>5. CASE art # "db"
      BY <2>4, <3>1, <3>5, DoDisk
    <3> QED
      BY <3>4, <3>5
  <2>5. CASE PowerLoss
    BY <2>1, <2>5, PowerLossFacts
  <2>6. CASE \/ DryRun \/ FenceAnswer \/ DisableAutostart \/ StopService \/ FinishTarget
             \/ ReleaseFence \/ Untouched
    BY <2>2, <2>6 DEF DryRun, FenceAnswer, DisableAutostart, StopService, FinishTarget,
          ReleaseFence, Untouched, Record, Checkpoint, WriteEnable, disk
  <2>7. CASE StartTarget \/ FinishRollback
    BY <2>2, <2>3, <2>7 DEF StartTarget, FinishRollback, Checkpoint, WriteEnable, disk
  <2>8. CASE \/ Classify \/ RecoveryGate \/ AcquireFence \/ Take \/ Cleanup \/ ClearJournal
             \/ ExitTrap \/ RollbackStop \/ ServeFence \/ FenceAbandon \/ CommandFails
             \/ ProcessEnds \/ Workload
    BY <2>8 DEF Classify, RecoveryGate, AcquireFence, Take, Cleanup, ClearJournal, ExitTrap,
          RollbackStop, ServeFence, FenceAbandon, CommandFails, ProcessEnds, Workload, disk
  <2>9. ~ServiceWrites
    BY DEF ServiceWrites
  <2> QED
    BY <2>4, <2>5, <2>6, <2>7, <2>8, <2>9 DEF Next, Updater
<1> QED
  BY <1>1, Inductive, PTL DEF Spec, WritesSurvive
============================================================================
