------------------------------ MODULE SyncProofs ------------------------------
(***************************************************************************)
(* The shard sync, for any number of tables, shards, faults and ticks.     *)
(* The invariant has a part for each owner of state: the copy's files, the *)
(* unit (what its run has yet to copy, and what its exit status says of    *)
(* the copy), the emitter (what it is about to write) and the reader's     *)
(* views.                                                                  *)
(***************************************************************************)
EXTENDS LoggerSync, FiniteSetTheorems, TLAPS

Labels == {"rest", "copy", "delete", "stop", "emit", "tmp"}
Exits == {0, 12, 20, 23, 24, 25, 30, Signal, NoExit}
UnitSet ==
    [pc : Labels, list : SUBSET Shards, todo : SUBSET Shards, flags : SUBSET {23, 24},
     deleted : 0..MaxDelete, at : 0..MaxTime, last : 0..MaxTime, exit : Exits,
     died : BOOLEAN]
MetricSet == [last : 0..MaxTime, code : Exits \ {Signal}, cut : BOOLEAN]
ViewSet == {"none", "broken", "empty", "files"}
StoreSet ==
    [pc : {"closed", "probe", "create", "drop", "table", "empty", "ready"},
     table : 1..(NTables + 1), opening : BOOLEAN, view : [Tables -> ViewSet],
     failed : BOOLEAN, bare : BOOLEAN, touched : [Tables -> BOOLEAN]]
WipeSet == [on : BOOLEAN, runs : Nat, gone : SUBSET Shards]

(* Every file of the copy is the one the Logger exported.                  *)
Copies == \A x \in Shards : mirror[x] \in {Absent, source[x]}

(* How far the run is, and what its exit status says.                      *)
Progress ==
    /\ At("copy") /\ ~moved =>
          unit.list = Listed
          /\ \A x \in unit.list \ unit.todo : x \in Mirrored \/ unit.flags # {}
    /\ At("delete") /\ ~moved =>
          unit.list = Listed /\ (unit.flags = {} => unit.list \subseteq Mirrored)
    /\ unit.pc \in {"rest", "stop", "emit", "tmp"} /\ unit.exit = 0 /\ ~moved =>
          Mirrored = Listed

(* What the emitter has published, and what it is about to.                *)
Emitter ==
    /\ unit.pc \in {"emit", "tmp"} => unit.exit \notin {Signal, NoExit}
    /\ At("stop") => unit.exit # NoExit
    /\ At("tmp") =>
          IF unit.exit \in SuccessExitCodes THEN unit.last = unit.at
          ELSE IF lost THEN unit.last <= good ELSE unit.last = good
    /\ At("rest") /\ unit.exit \notin {Signal, NoExit} /\ ~unit.died =>
          metric.code \in {unit.exit, NoExit}

(* What the views know of the tables.                                      *)
Views ==
    /\ Attaching => store.table \in Tables
    /\ store.pc = "create" => (ShardsOf(store.table) = {} => store.bare)
    /\ Emptying => store.bare
    /\ \A t \in Tables : store.view[t] = "files" /\ ~store.touched[t] => ShardsOf(t) # {}
    /\ \A t \in Tables : store.view[t] = "broken" =>
          /\ Attaching => ~(t < store.table)
          /\ store.pc = "ready" => store.failed

IInv == TypeOK /\ Copies /\ Progress /\ Emitter /\ GaugeIsLastSuccess /\ Views

LEMMA Typed ==
    TypeOK <=>
      /\ source \in [Shards -> {Absent, Whole}] /\ evicted \subseteq Shards
      /\ mirror \in [Shards -> {Absent, Whole, Torn}]
      /\ unit \in UnitSet /\ metric \in MetricSet
      /\ orphans \in [young : Nat, old : Nat] /\ store \in StoreSet /\ wipe \in WipeSet
      /\ now \in 1..MaxTime /\ good \in 0..MaxTime
      /\ moved \in BOOLEAN /\ lost \in BOOLEAN /\ faults \in 0..MaxFaults
<1>1. Exits \ {Signal} = {0, 12, 20, 23, 24, 25, 30, NoExit}
  BY DEF Exits, Signal, NoExit
<1> QED BY <1>1 DEF TypeOK, UnitSet, MetricSet, StoreSet, ViewSet, WipeSet, Labels, Exits

LEMMA Sizes == NTables \in Nat \ {0} /\ MaxDelete \in Nat /\ MaxTime \in Nat \ {0}
               /\ MaxFaults \in Nat /\ \A x \in Shards : x[1] \in Tables
BY SyncAssumption DEF Tables

(***************************************************************************)
(* The unit's record after each operator that sets it.                     *)
(***************************************************************************)
LEMMA AtRestIs ==
    /\ AtRest \in UnitSet /\ AtRest.pc = "rest" /\ AtRest.exit = NoExit /\ AtRest.flags = {}
    /\ AtRest.list = {} /\ AtRest.todo = {} /\ AtRest.deleted = 0
<1>1. 0 \in 0..MaxDelete /\ 0 \in 0..MaxTime
  BY Sizes
<1> QED BY <1>1 DEF AtRest, UnitSet, Labels, Exits

LEMMA StopIs ==
    ASSUME NEW code \in Exits, Stop(code)
    PROVE  unit' \in UnitSet /\ unit'.pc = "stop" /\ unit'.exit = code
BY AtRestIs DEF Stop, UnitSet, Labels

LEMMA RestIs ==
    ASSUME NEW died \in BOOLEAN, Rest(died), unit \in UnitSet
    PROVE  unit' \in UnitSet /\ unit'.pc = "rest" /\ unit'.exit = unit.exit
           /\ unit'.died = died
<1> DEFINE e == unit.exit
<1>1. e \in Exits /\ unit' = [AtRest EXCEPT !.exit = e, !.died = died] /\ e = unit.exit
  BY DEF Rest, UnitSet
<1> HIDE DEF e
<1>2. [AtRest EXCEPT !.exit = e, !.died = died] \in UnitSet
  BY <1>1, AtRestIs DEF UnitSet
<1>3. LET y == [AtRest EXCEPT !.exit = e, !.died = died]
      IN  y.pc = "rest" /\ y.exit = e /\ y.died = died
  BY AtRestIs DEF UnitSet
<1> QED BY <1>1, <1>2, <1>3

LEMMA RunIs ==
    ASSUME TypeOK, NEW list \in SUBSET Shards, Run(list)
    PROVE  /\ unit' \in UnitSet /\ unit'.pc = "copy" /\ unit'.list = list /\ unit'.flags = {}
           /\ unit'.todo = {x \in list : mirror[x] # source[x]} /\ unit'.deleted = 0
<1> DEFINE d == {x \in list : mirror[x] # source[x]}
<1>1. d \in SUBSET Shards
  OBVIOUS
<1>2. unit' = [AtRest EXCEPT !.pc = "copy", !.list = list, !.todo = d]
  BY DEF Run
<1> HIDE DEF d
<1>3. unit' \in UnitSet /\ unit'.pc = "copy" /\ unit'.list = list /\ unit'.flags = {}
      /\ unit'.todo = d /\ unit'.deleted = 0
  BY <1>1, <1>2, AtRestIs DEF UnitSet, Labels
<1> QED BY <1>3 DEF d

LEMMA ListedIs == Listed \in SUBSET Shards /\ {} \in SUBSET Shards
BY DEF Listed

(* A run starts: it lists the Logger's tree, or sees none.                 *)
RunStarts == TimerFires \/ AppearsEmpty

LEMMA DoneIs ==
    ASSUME unit \in UnitSet, NEW x \in Shards, NEW flags \in SUBSET {23, 24}, Done(x, flags)
    PROVE  /\ unit' \in UnitSet /\ unit'.pc = unit.pc /\ unit'.list = unit.list
           /\ unit'.todo = unit.todo \ {x} /\ unit'.flags = unit.flags \cup flags
           /\ unit'.deleted = unit.deleted
<1> DEFINE d == unit.todo \ {x}
           f == unit.flags \cup flags
<1>1. d \in SUBSET Shards /\ f \in SUBSET {23, 24}
  BY DEF UnitSet
<1>2. unit' = [unit EXCEPT !.todo = d, !.flags = f]
  BY DEF Done
<1> HIDE DEF d, f
<1>3. /\ unit' \in UnitSet /\ unit'.pc = unit.pc /\ unit'.list = unit.list
      /\ unit'.todo = d /\ unit'.flags = f /\ unit'.deleted = unit.deleted
  BY <1>1, <1>2 DEF UnitSet
<1> QED BY <1>3 DEF d, f

LEMMA GotoIs ==
    ASSUME unit \in UnitSet, NEW label \in Labels, Goto(label)
    PROVE  /\ unit' \in UnitSet /\ unit'.pc = label /\ unit'.list = unit.list
           /\ unit'.flags = unit.flags /\ unit'.deleted = unit.deleted
BY DEF Goto, UnitSet

(***************************************************************************)
(* The steps, by what they touch.                                          *)
(***************************************************************************)
StoreStep ==
    \/ Attach \/ Probe \/ CreateView \/ DropTable \/ CreateTable \/ CreateEmptyView
    \/ Close \/ AttachFails
CopyStep(x) == Copy(x) \/ Vanished(x) \/ CopyFails(x)
BreakStep == Killed \/ \E code \in {12, 20, 30} : Broken(code)

LEMMA Steps ==
    ASSUME Next
    PROVE  \/ Tick \/ Age \/ StoreStep \/ RunStarts \/ EndCopy \/ EndDelete \/ ParseExitCode
           \/ ReadCrashes \/ WriteTmp \/ Replace \/ BreakStep \/ EmitDies \/ LoseMetric \/ HostCrash
           \/ \E x \in Shards : Export(x) \/ Evict(x) \/ CopyStep(x) \/ Delete(x)
BY DEF Next, UnitStep, StoreStep, CopyStep, BreakStep, RunStarts

(***************************************************************************)
(* The reader                                                              *)
(***************************************************************************)
LEMMA NextTableIs ==
    ASSUME IInv, Attaching, NEW v \in {"empty", "files"}
    PROVE  LET y == NextTable(v)
           IN  /\ y \in StoreSet /\ y.table = store.table + 1
               /\ y.pc = IF store.table = NTables THEN "ready" ELSE "probe"
               /\ \A t \in Tables :
                     /\ y.view[t] = IF t = store.table THEN v ELSE store.view[t]
                     /\ y.touched[t] <=> t # store.table /\ store.touched[t]
<1> DEFINE n == store.table + 1
           w == [store.view EXCEPT ![store.table] = v]
           d == [store.touched EXCEPT ![store.table] = FALSE]
           p == IF store.table = NTables THEN "ready" ELSE "probe"
           y == [store EXCEPT !.view = w, !.table = n, !.touched = d, !.bare = FALSE, !.pc = p]
<1>1. /\ store \in StoreSet /\ store.table \in Tables /\ NTables \in Nat /\ Tables = 1..NTables
  BY Typed, Sizes DEF IInv, Views, Tables
<1>2. y = NextTable(v)
  BY <1>1 DEF NextTable, StoreSet
<1>3. /\ w \in [Tables -> ViewSet] /\ d \in [Tables -> BOOLEAN]
      /\ \A t \in Tables : /\ w[t] = IF t = store.table THEN v ELSE store.view[t]
                           /\ d[t] <=> t # store.table /\ store.touched[t]
  BY <1>1 DEF StoreSet, ViewSet
<1>4. n \in 1..(NTables + 1) /\ p \in {"probe", "ready"}
  BY <1>1
<1>5. n = store.table + 1 /\ p = IF store.table = NTables THEN "ready" ELSE "probe"
  OBVIOUS
<1> HIDE DEF n, w, d, p
<1>6. y \in StoreSet /\ y.pc = p /\ y.table = n /\ y.view = w /\ y.touched = d
  BY <1>1, <1>3, <1>4 DEF StoreSet
<1> HIDE DEF y
<1> QED BY <1>2, <1>3, <1>5, <1>6

LEMMA ClosedIs ==
    Closed \in StoreSet /\ Closed.pc = "closed" /\ \A t \in Tables : Closed.view[t] = "none"
<1>1. 1 \in 1..(NTables + 1)
  BY Sizes
<1> QED BY <1>1 DEF Closed, StoreSet, ViewSet

(* _create_empty_view's first two steps only swap the view of their table  *)
(* between what is over the table and what lost it.                        *)
LEMMA SwapIs ==
    ASSUME IInv, Emptying, NEW label \in {"table", "empty"}, NEW old, NEW new \in {"broken", "empty"},
           Swap(label, old, new)
    PROVE  /\ store' \in StoreSet /\ store'.pc = label /\ store'.table = store.table
           /\ store'.bare = store.bare /\ store'.touched = store.touched
           /\ \A t \in Tables : store'.view[t] = store.view[t] \/ (t = store.table /\ store'.view[t] = new)
<1> DEFINE k == store.table
           c == IF store.view[k] = old THEN new ELSE store.view[k]
           w == [store.view EXCEPT ![k] = c]
           y == [store EXCEPT !.pc = label, !.view = w]
<1>1. store \in StoreSet /\ k \in Tables
  BY Typed DEF IInv, Views, Attaching
<1>2. store' = y
  BY <1>1 DEF Swap, StoreSet
<1>3. c \in ViewSet /\ c \in {store.view[k], new}
  BY <1>1 DEF StoreSet, ViewSet
<1> HIDE DEF c
<1>4. w \in [Tables -> ViewSet]
      /\ \A t \in Tables : w[t] = store.view[t] \/ (t = store.table /\ w[t] = new)
  BY <1>1, <1>3 DEF StoreSet
<1> HIDE DEF w
<1>5. /\ y \in StoreSet /\ y.pc = label /\ y.table = store.table /\ y.bare = store.bare
      /\ y.touched = store.touched /\ y.view = w
  BY <1>1, <1>4 DEF StoreSet
<1> QED BY <1>2, <1>4, <1>5

(* The reader's steps keep its views true to the copy's tree, which they   *)
(* leave alone.                                                            *)
LEMMA StoreIInv == ASSUME IInv, StoreStep PROVE store' \in StoreSet /\ Views'
                                                /\ UNCHANGED syncVars
<1>1. UNCHANGED syncVars /\ UNCHANGED mirror
  BY DEF StoreStep, Attach, Probe, CreateView, DropTable, CreateTable, CreateEmptyView, Close,
         AttachFails, syncVars
<1>2. \A t : ShardsOf(t)' = ShardsOf(t)
  BY <1>1 DEF ShardsOf, Mirrored
<1>3. store \in StoreSet /\ 1 \in Tables /\ 1 \in 1..(NTables + 1) /\ Views
      /\ Tables = 1..NTables /\ NTables \in Nat
  BY Typed, Sizes DEF IInv, Tables
<1>4. ASSUME store' = Closed PROVE store' \in StoreSet /\ Views'
  BY <1>4, ClosedIs DEF Views, Attaching, Emptying
<1>5. ASSUME NEW v \in {"empty", "files"}, Attaching, store' = NextTable(v),
             v = "files" => ShardsOf(store.table) # {}
      PROVE  store' \in StoreSet /\ Views'
  <2>1. /\ store' \in StoreSet /\ store'.table = store.table + 1
        /\ store'.pc = IF store.table = NTables THEN "ready" ELSE "probe"
        /\ \A t \in Tables :
              /\ store'.view[t] = IF t = store.table THEN v ELSE store.view[t]
              /\ store'.touched[t] <=> t # store.table /\ store.touched[t]
    BY <1>5, NextTableIs
  <2>2. store.table \in 1..NTables
    BY <1>3, <1>5 DEF Views
  <2>3. Attaching' => store'.table \in Tables
    BY <1>3, <2>1, <2>2 DEF Attaching, Emptying
  <2>4. ASSUME NEW t \in Tables, store'.view[t] = "files", ~store'.touched[t]
        PROVE  ShardsOf(t)' # {}
    BY <1>2, <1>3, <1>5, <2>1, <2>4 DEF Views
  <2>5. ASSUME NEW t \in Tables, store'.view[t] = "broken"
        PROVE  ~(t < store'.table) /\ store'.pc = "probe"
    <3>1. t # store.table /\ store.view[t] = "broken"
      BY <2>1, <2>5
    <3>2. ~(t < store.table)
      BY <1>3, <1>5, <3>1 DEF Views
    <3> QED BY <1>3, <2>1, <2>2, <3>1, <3>2
  <2> QED BY <2>1, <2>3, <2>4, <2>5 DEF Views, Attaching, Emptying
<1>6. ASSUME Abort PROVE store' \in StoreSet /\ Views'
  <2>1. CASE store' = Closed
    BY <1>4, <2>1
  <2>2. CASE store' = [store EXCEPT !.pc = "ready", !.failed = TRUE]
    <3>1. store' \in StoreSet /\ UNCHANGED store.view /\ UNCHANGED store.touched
          /\ store'.pc = "ready" /\ store'.failed
      BY <1>3, <2>2 DEF StoreSet
    <3> QED BY <1>2, <1>3, <3>1 DEF Views, Attaching, Emptying
  <2> QED BY <1>6, <2>1, <2>2 DEF Abort
<1>7. CASE Attach
  <2>1. PICK o \in BOOLEAN : store' = [store EXCEPT !.pc = "probe", !.table = 1,
                                                   !.failed = FALSE, !.opening = o]
    BY <1>7 DEF Attach
  <2>2. store' \in StoreSet /\ UNCHANGED store.view /\ UNCHANGED store.touched
        /\ store'.pc = "probe" /\ store'.table = 1
    BY <1>3, <2>1 DEF StoreSet
  <2>3. \A t \in Tables : ~(t < 1)
    BY <1>3
  <2> QED BY <1>1, <1>2, <1>3, <2>2, <2>3 DEF Views, Attaching, Emptying
<1>8. CASE Probe
  <2>1. PICK p, b : /\ p = IF ShardsOf(store.table) = {} THEN "drop" ELSE "create"
                    /\ b = (ShardsOf(store.table) = {})
    OBVIOUS
  <2>2. store' = [store EXCEPT !.pc = p, !.bare = b] /\ Attaching /\ b \in BOOLEAN
    BY <1>8, <2>1 DEF Probe, Attaching
  <2>3. store' \in StoreSet /\ UNCHANGED store.view /\ UNCHANGED store.touched
        /\ store'.pc = p /\ store'.bare = b /\ store'.table = store.table
    BY <1>3, <2>1, <2>2 DEF StoreSet
  <2>4. store'.table \in Tables
    BY <1>3, <2>2, <2>3 DEF Views
  <2>5. Emptying' => store'.bare
    BY <2>1, <2>3 DEF Emptying
  <2>6. store'.pc = "create" => (ShardsOf(store.table)' = {} => store'.bare)
    BY <1>2, <2>1, <2>3
  <2>7. \A t \in Tables : store'.view[t] = "broken" => ~(t < store'.table)
    BY <1>3, <2>2, <2>3 DEF Views
  <2>8. store'.pc # "ready"
    BY <2>1, <2>3
  <2>9. \A t \in Tables : store'.view[t] = "files" /\ ~store'.touched[t] => ShardsOf(t)' # {}
    BY <1>2, <1>3, <2>3 DEF Views
  <2> QED BY <2>3, <2>4, <2>5, <2>6, <2>7, <2>8, <2>9, <1>1 DEF Views
<1>9. CASE CreateView
  <2>1. Attaching /\ store.pc = "create"
    BY <1>9 DEF CreateView, Attaching
  <2>2. CASE ShardsOf(store.table) # {}
    BY <1>1, <1>5, <1>9, <2>1, <2>2 DEF CreateView
  <2>3. CASE ShardsOf(store.table) = {}
    <3>1. store' = [store EXCEPT !.pc = "drop"]
      BY <1>9, <2>3 DEF CreateView
    <3>2. store' \in StoreSet /\ UNCHANGED store.view /\ UNCHANGED store.touched
          /\ store'.pc = "drop" /\ store'.table = store.table /\ store'.bare = store.bare
      BY <1>3, <3>1 DEF StoreSet
    <3> QED BY <1>1, <1>2, <1>3, <2>1, <2>3, <3>2 DEF Views, Attaching, Emptying
  <2> QED BY <2>2, <2>3
<1>10. CASE DropTable \/ CreateTable
  <2>1. Emptying
    BY <1>10 DEF DropTable, CreateTable, Emptying
  <2>2. /\ store' \in StoreSet /\ store'.pc \in {"table", "empty"}
        /\ store'.table = store.table /\ store'.bare = store.bare
        /\ store'.touched = store.touched
        /\ \A t \in Tables :
              \/ store'.view[t] = store.view[t]
              \/ t = store.table /\ store'.view[t] \in {"broken", "empty"}
    <3>1. CASE DropTable
      BY <2>1, <3>1, SwapIs DEF DropTable
    <3>2. CASE CreateTable
      BY <2>1, <3>2, SwapIs DEF CreateTable
    <3> QED BY <1>10, <3>1, <3>2
  <2>3. store.table \in 1..NTables
    BY <1>3, <2>1 DEF Views, Attaching
  <2>4. \A t \in Tables : store'.view[t] = "broken" => ~(t < store'.table)
    BY <1>3, <2>1, <2>2, <2>3 DEF Views, Attaching
  <2>5. \A t \in Tables : store'.view[t] = "files" => store.view[t] = "files"
    BY <2>2
  <2> QED BY <1>1, <1>2, <1>3, <2>1, <2>2, <2>4, <2>5 DEF Views, Attaching, Emptying
<1>11. CASE CreateEmptyView
  BY <1>1, <1>5, <1>11 DEF CreateEmptyView, Attaching, Emptying
<1>12. CASE AttachFails
  BY <1>1, <1>6, <1>12 DEF AttachFails
<1>13. CASE Close
  BY <1>1, <1>4, <1>13 DEF Close
<1> QED BY <1>7, <1>8, <1>9, <1>10, <1>11, <1>12, <1>13, <1>1 DEF StoreStep

(* A file of table x[1] comes or goes: that table's view is touched.       *)
LEMMA TouchViews ==
    ASSUME IInv, NEW x \in Shards, Touch(x), NEW c, mirror' = [mirror EXCEPT ![x] = c]
    PROVE  store' \in StoreSet /\ Views'
<1> DEFINE d == [store.touched EXCEPT ![x[1]] = TRUE]
           r == \/ store.bare
                \/ /\ store.pc = "create"
                   /\ \A y \in Shards : y[1] = store.table => mirror'[y] = Absent
           y == [store EXCEPT !.touched = d, !.bare = r]
<1>1. store \in StoreSet /\ x[1] \in Tables /\ mirror \in [Shards -> {Absent, Whole, Torn}]
      /\ Views
  BY Typed, Sizes DEF IInv
<1>2. d \in [Tables -> BOOLEAN] /\ r \in BOOLEAN
      /\ \A t \in Tables : d[t] <=> (t = x[1] \/ store.touched[t])
  BY <1>1 DEF StoreSet
<1>3. store' = y
  BY <1>1 DEF Touch, StoreSet
<1>4. PICK k : k = store.table
  OBVIOUS
<1>5. store.bare => r
  OBVIOUS
<1>6. store.pc = "create" /\ ShardsOf(k)' = {} => r
  BY <1>4 DEF ShardsOf, Mirrored
<1> HIDE DEF d, r
<1>7. /\ y \in StoreSet /\ y.touched = d /\ y.bare = r /\ y.pc = store.pc
      /\ y.table = store.table /\ y.view = store.view /\ y.failed = store.failed
  BY <1>1, <1>2 DEF StoreSet
<1> HIDE DEF y
<1>8. \A t : t # x[1] => ShardsOf(t)' = ShardsOf(t)
  BY <1>1 DEF ShardsOf, Mirrored
<1>9. store'.pc = "create" => (ShardsOf(store.table)' = {} => store'.bare)
  <2>1. store'.pc = "create" => (ShardsOf(k)' = {} => store'.bare)
    BY <1>3, <1>6, <1>7
  <2> QED BY <1>3, <1>4, <1>7, <2>1 DEF ShardsOf
<1>10. \A t \in Tables : store'.view[t] = "files" /\ ~store'.touched[t] => ShardsOf(t)' # {}
  BY <1>1, <1>2, <1>3, <1>7, <1>8 DEF Views
<1>11. Attaching' = Attaching /\ Emptying' = Emptying
  BY <1>3, <1>7 DEF Attaching, Emptying
<1> QED BY <1>1, <1>3, <1>5, <1>7, <1>9, <1>10, <1>11 DEF Views

(***************************************************************************)
(* The Logger, rsync and the emitter: the type, step by step.              *)
(***************************************************************************)
LEMMA TypeIInv ==
    ASSUME IInv, Next, store' \in StoreSet,
           unit' \in UnitSet, metric' \in MetricSet, orphans' \in [young : Nat, old : Nat],
           source' \in [Shards -> {Absent, Whole}], evicted' \subseteq Shards,
           mirror' \in [Shards -> {Absent, Whole, Torn}],
           now' \in 1..MaxTime, good' \in 0..MaxTime, moved' \in BOOLEAN, lost' \in BOOLEAN,
           wipe' \in WipeSet
    PROVE  TypeOK'
<1>1. faults' \in 0..MaxFaults
  <2>1. NoFault \/ Fault
    BY DEF Next
  <2>2. faults \in 0..MaxFaults
    BY Typed DEF IInv
  <2> QED BY <2>1, <2>2, Sizes DEF NoFault, Fault
<1>2. Exits \ {Signal} = {0, 12, 20, 23, 24, 25, 30, NoExit}
  BY DEF Exits, Signal, NoExit
<1> QED BY <1>1, <1>2 DEF TypeOK, UnitSet, MetricSet, StoreSet, ViewSet, WipeSet, Labels, Exits

(* The unit moves, the files, the metric and the reader stay.              *)
LEMMA UnitIInv ==
    ASSUME IInv, Next, UNCHANGED <<source, evicted, mirror, metric, store, now, good, lost>>,
           unit' \in UnitSet, moved' \in BOOLEAN, orphans' \in [young : Nat, old : Nat],
           wipe' \in WipeSet, Progress', Emitter'
    PROVE  IInv'
<1>1. TypeOK'
  BY TypeIInv, Typed DEF IInv
<1>2. Copies' /\ GaugeIsLastSuccess'
  BY DEF IInv, Copies, GaugeIsLastSuccess
<1>3. Views'
  BY DEF IInv, Views, Attaching, Emptying, ShardsOf, Mirrored
<1> QED BY <1>1, <1>2, <1>3 DEF IInv

LEMMA StartIInv == ASSUME IInv, Next, RunStarts PROVE IInv'
<1>1. PICK list \in SUBSET Shards :
         Run(list) /\ wipe' \in WipeSet /\ moved' \in BOOLEAN /\ (~moved' => list = Listed)
  <2>1. wipe \in WipeSet
    BY Typed DEF IInv
  <2>2. ASSUME NEW on \in BOOLEAN, NEW runs \in Nat
        PROVE  [wipe EXCEPT !.on = on, !.runs = runs] \in WipeSet
    BY <2>1 DEF WipeSet
  <2>3. ASSUME NEW on \in BOOLEAN PROVE [wipe EXCEPT !.on = on] \in WipeSet
    BY <2>1 DEF WipeSet
  <2>4. wipe.runs + 1 \in Nat
    BY <2>1 DEF WipeSet
  <2>5. wipe' \in WipeSet
    BY <2>2, <2>3, <2>4 DEF RunStarts, TimerFires, AppearsEmpty
  <2> QED BY <2>5, ListedIs DEF RunStarts, TimerFires, AppearsEmpty
<1>2. /\ unit' \in UnitSet /\ unit'.pc = "copy" /\ unit'.list = list /\ unit'.flags = {}
      /\ unit'.todo = {x \in list : mirror[x] # source[x]}
  BY <1>1, RunIs DEF IInv
<1>3. /\ UNCHANGED <<source, evicted, mirror, metric, store, now, good, lost>>
      /\ UNCHANGED orphans
  BY <1>1 DEF Run
<1>4. Listed' = Listed /\ Mirrored' = Mirrored
  BY <1>3 DEF Listed, Mirrored
<1>5. ~moved' => \A x \in unit'.list \ unit'.todo : x \in Mirrored
  BY <1>1, <1>2 DEF Listed, Mirrored
<1>6. Progress'
  BY <1>1, <1>2, <1>4, <1>5 DEF Progress, At
<1>7. Emitter'
  BY <1>2 DEF Emitter, At
<1> QED BY <1>1, <1>2, <1>3, <1>6, <1>7, UnitIInv, Typed DEF IInv

(* The tree and the copy stay: what is listed and mirrored is the same.    *)
LEMMA Still ==
    ASSUME UNCHANGED <<source, evicted, mirror>>
    PROVE  Listed' = Listed /\ Mirrored' = Mirrored /\ \A t : ShardsOf(t)' = ShardsOf(t)
BY DEF Listed, Mirrored, ShardsOf

LEMMA DropIInv ==
    ASSUME IInv, Next, NEW x \in Shards, Vanished(x) \/ CopyFails(x) PROVE IInv'
<1>1. PICK f \in {23, 24} : At("copy") /\ Done(x, {f})
  BY DEF Vanished, CopyFails
<1>2. /\ UNCHANGED <<source, evicted, mirror, metric, store, now, good, lost>>
      /\ UNCHANGED orphans /\ UNCHANGED moved /\ UNCHANGED wipe /\ UNCHANGED <<source, evicted, mirror>>
  BY DEF Vanished, CopyFails
<1>3. unit \in UnitSet /\ {f} \in SUBSET {23, 24}
  BY Typed DEF IInv
<1>4. /\ unit' \in UnitSet /\ unit'.pc = unit.pc /\ unit'.list = unit.list
      /\ unit'.flags = unit.flags \cup {f}
  BY <1>1, <1>3, DoneIs
<1>5. Progress'
  BY <1>1, <1>2, <1>4, Still DEF IInv, Progress, At
<1>6. Emitter'
  BY <1>1, <1>4 DEF Emitter, At
<1> QED BY <1>2, <1>4, <1>5, <1>6, UnitIInv, Typed DEF IInv

LEMMA EndCopyIInv == ASSUME IInv, Next, EndCopy PROVE IInv'
<1>1. /\ UNCHANGED <<source, evicted, mirror, metric, store, now, good, lost>>
      /\ UNCHANGED orphans /\ UNCHANGED moved /\ UNCHANGED wipe /\ UNCHANGED <<source, evicted, mirror>>
      /\ At("copy") /\ unit.todo = {}
  BY DEF EndCopy
<1>2. unit \in UnitSet
  BY Typed DEF IInv
<1>3. CASE Stop(23)
  <2>1. unit' \in UnitSet /\ unit'.pc = "stop" /\ unit'.exit = 23
    BY <1>3, StopIs DEF Exits
  <2>2. Progress' /\ Emitter'
    BY <2>1 DEF Progress, Emitter, At, NoExit
  <2> QED BY <1>1, <2>1, <2>2, UnitIInv, Typed DEF IInv
<1>4. CASE Goto("delete")
  <2>1. /\ unit' \in UnitSet /\ unit'.pc = "delete" /\ unit'.list = unit.list
        /\ unit'.flags = unit.flags
    BY <1>2, <1>4, GotoIs DEF Labels
  <2>2. Progress' /\ Emitter'
    BY <1>1, <2>1, Still DEF IInv, Progress, Emitter, At
  <2> QED BY <1>1, <2>1, <2>2, UnitIInv, Typed DEF IInv
<1> QED BY <1>3, <1>4 DEF EndCopy

(* An exit status 0 means that nothing was left out and nothing is extra.  *)
LEMMA EndDeleteIInv == ASSUME IInv, Next, EndDelete PROVE IInv'
<1>1. /\ UNCHANGED <<source, evicted, mirror, metric, store, now, good, lost>>
      /\ UNCHANGED orphans /\ UNCHANGED moved /\ UNCHANGED wipe /\ UNCHANGED <<source, evicted, mirror>>
      /\ At("delete")
  BY DEF EndDelete
<1>2. PICK code : code = RsyncExit(unit.flags \cup (IF Extras = {} THEN {} ELSE {25}))
  OBVIOUS
<1>3. code \in {0, 23, 24, 25} /\ (code = 0 => unit.flags = {} /\ Extras = {})
  <2>1. unit.flags \in SUBSET {23, 24}
    BY Typed DEF IInv, UnitSet
  <2> QED BY <1>2, <2>1 DEF RsyncExit
<1>4. unit' \in UnitSet /\ unit'.pc = "stop" /\ unit'.exit = code
  <2>1. Stop(code) /\ code \in Exits
    BY <1>2, <1>3 DEF EndDelete, Exits
  <2> QED BY <2>1, StopIs
<1>5. ASSUME code = 0, ~moved PROVE Mirrored = Listed
  BY <1>1, <1>3, <1>5 DEF IInv, Progress, Extras
<1>6. Progress'
  BY <1>1, <1>4, <1>5, Still DEF Progress, At
<1>7. Emitter'
  BY <1>3, <1>4 DEF Emitter, At, NoExit
<1> QED BY <1>1, <1>4, <1>6, <1>7, UnitIInv, Typed DEF IInv

LEMMA BreakIInv == ASSUME IInv, Next, BreakStep PROVE IInv'
<1>1. PICK code \in {12, 20, 30, Signal} : Stop(code)
  BY DEF BreakStep, Killed, Broken
<1>2. /\ UNCHANGED <<source, evicted, mirror, metric, store, now, good, lost>>
      /\ UNCHANGED orphans /\ UNCHANGED moved /\ UNCHANGED wipe
  BY DEF BreakStep, Killed, Broken, PartialFile
<1>3. unit' \in UnitSet /\ unit'.pc = "stop" /\ unit'.exit = code
  BY <1>1, StopIs DEF Exits
<1>4. Progress' /\ Emitter'
  BY <1>1, <1>3 DEF Progress, Emitter, At, NoExit, Signal
<1> QED BY <1>2, <1>3, <1>4, UnitIInv, Typed DEF IInv

(***************************************************************************)
(* A file of the copy comes or goes.                                       *)
(***************************************************************************)
LEMMA MirrorIInv ==
    ASSUME IInv, Next, NEW x \in Shards, Touch(x), NEW c \in {Absent, source[x]},
           mirror' = [mirror EXCEPT ![x] = c], unit' \in UnitSet,
           UNCHANGED <<source, evicted, metric, orphans, now, moved, good, lost>>,
           wipe' \in WipeSet, Progress', Emitter'
    PROVE  IInv'
<1>1. /\ source \in [Shards -> {Absent, Whole}] /\ mirror \in [Shards -> {Absent, Whole, Torn}]
      /\ orphans' \in [young : Nat, old : Nat]
  BY Typed DEF IInv
<1>2. mirror' \in [Shards -> {Absent, Whole, Torn}]
  BY <1>1
<1>3. store' \in StoreSet /\ Views'
  BY TouchViews
<1>4. TypeOK'
  BY <1>1, <1>2, <1>3, TypeIInv, Typed DEF IInv
<1>5. Copies'
  BY <1>1 DEF IInv, Copies
<1>6. GaugeIsLastSuccess'
  BY DEF IInv, GaugeIsLastSuccess
<1> QED BY <1>3, <1>4, <1>5, <1>6 DEF IInv

LEMMA CopyIInv == ASSUME IInv, Next, NEW x \in Shards, Copy(x) PROVE IInv'
<1>1. /\ At("copy") /\ x \in unit.todo /\ x \in Listed /\ Done(x, {}) /\ Touch(x)
      /\ mirror' = [mirror EXCEPT ![x] = source[x]]
      /\ UNCHANGED <<source, evicted, metric, orphans, now, moved, good, lost>>
  BY DEF Copy
<1>2. unit \in UnitSet /\ mirror \in [Shards -> {Absent, Whole, Torn}]
  BY Typed DEF IInv
<1>3. /\ unit' \in UnitSet /\ unit'.pc = unit.pc /\ unit'.list = unit.list
      /\ unit'.todo = unit.todo \ {x} /\ unit'.flags = unit.flags
  BY <1>1, <1>2, DoneIs
<1>4. Listed' = Listed
  BY <1>1 DEF Listed
<1>8. wipe' \in WipeSet
  <2>1. wipe \in WipeSet /\ wipe.gone \ {x} \in SUBSET Shards
    BY Typed DEF IInv, WipeSet
  <2> QED BY <2>1 DEF Copy, WipeSet
<1>5. x \in Mirrored' /\ Mirrored \subseteq Mirrored'
  BY <1>1, <1>2 DEF Listed, Mirrored
<1>6. Progress'
  BY <1>1, <1>3, <1>4, <1>5 DEF IInv, Progress, At
<1>7. Emitter'
  BY <1>1, <1>3 DEF Emitter, At
<1> QED BY <1>1, <1>3, <1>6, <1>7, <1>8, MirrorIInv

LEMMA DeleteIInv == ASSUME IInv, Next, NEW x \in Shards, Delete(x) PROVE IInv'
<1>1. /\ At("delete") /\ x \in Mirrored /\ x \notin unit.list /\ Touch(x)
      /\ unit.deleted < MaxDelete
      /\ mirror' = [mirror EXCEPT ![x] = Absent]
      /\ unit' = [unit EXCEPT !.deleted = unit.deleted + 1]
      /\ UNCHANGED <<source, evicted, metric, orphans, now, moved, good, lost>>
  BY DEF Delete, CountDelete, Extras
<1>9. wipe' \in WipeSet
  <2>1. wipe \in WipeSet /\ wipe.gone \cup {x} \in SUBSET Shards
    BY Typed DEF IInv, WipeSet
  <2> QED BY <2>1 DEF Delete, WipeSet
<1>2. unit \in UnitSet /\ mirror \in [Shards -> {Absent, Whole, Torn}]
  BY Typed DEF IInv
<1>3. unit.deleted + 1 \in 0..MaxDelete
  BY <1>1, <1>2, Sizes DEF UnitSet
<1>4. /\ unit' \in UnitSet /\ unit'.pc = unit.pc /\ unit'.list = unit.list
      /\ unit'.flags = unit.flags
  BY <1>1, <1>2, <1>3 DEF UnitSet
<1>5. Listed' = Listed
  BY <1>1 DEF Listed
<1>6. Mirrored' = Mirrored \ {x}
  BY <1>1, <1>2 DEF Mirrored
<1>7. Progress'
  BY <1>1, <1>4, <1>5, <1>6 DEF IInv, Progress, At
<1>8. Emitter'
  BY <1>1, <1>4 DEF Emitter, At
<1> QED BY <1>1, <1>4, <1>7, <1>8, <1>9, MirrorIInv

(***************************************************************************)
(* The emitter                                                             *)
(***************************************************************************)
LEMMA ParseIInv == ASSUME IInv, Next, ParseExitCode PROVE IInv'
<1>1. /\ UNCHANGED <<source, evicted, mirror, metric, store, now, good, lost>>
      /\ UNCHANGED orphans /\ UNCHANGED moved /\ UNCHANGED wipe /\ UNCHANGED <<source, evicted, mirror>>
      /\ At("stop")
  BY DEF ParseExitCode
<1>2. unit \in UnitSet /\ now \in 0..MaxTime
  BY Typed, Sizes DEF IInv
<1>3. CASE unit.exit = Signal
  <2>1. unit' \in UnitSet /\ unit'.pc = "rest" /\ unit'.exit = Signal
    BY <1>2, <1>3, RestIs DEF ParseExitCode
  <2>2. Progress' /\ Emitter'
    BY <2>1 DEF Progress, Emitter, At, Signal
  <2> QED BY <1>1, <2>1, <2>2, UnitIInv, Typed DEF IInv
<1>4. CASE unit.exit # Signal
  <2>1. unit' = [unit EXCEPT !.pc = "emit", !.at = now]
    BY <1>4 DEF ParseExitCode
  <2>2. unit' \in UnitSet /\ unit'.pc = "emit" /\ unit'.exit = unit.exit
    BY <1>2, <2>1 DEF UnitSet, Labels
  <2>3. Progress'
    BY <1>1, <2>2, Still DEF IInv, Progress, At
  <2>4. Emitter'
    BY <1>1, <1>4, <2>2 DEF IInv, Emitter, At
  <2> QED BY <1>1, <2>2, <2>3, <2>4, UnitIInv, Typed DEF IInv
<1> QED BY <1>3, <1>4

(* The emitter stumbles over a cut line: nothing is written.               *)
LEMMA ReadCrashesIInv == ASSUME IInv, Next, ReadCrashes PROVE IInv'
<1>1. /\ UNCHANGED <<source, evicted, mirror, metric, store, now, good, lost>>
      /\ UNCHANGED orphans /\ UNCHANGED moved /\ UNCHANGED wipe
      /\ UNCHANGED <<source, evicted, mirror>> /\ At("emit") /\ Rest(TRUE)
  BY DEF ReadCrashes
<1>2. unit' \in UnitSet /\ unit'.pc = "rest" /\ unit'.exit = unit.exit /\ unit'.died
  BY <1>1, RestIs, Typed DEF IInv
<1>3. Progress' /\ Emitter'
  BY <1>1, <1>2, Still DEF IInv, Progress, Emitter, At
<1> QED BY <1>1, <1>2, <1>3, UnitIInv, Typed DEF IInv

(* A run that failed carries the last success over from the old file.      *)
LEMMA WriteTmpIInv == ASSUME IInv, Next, WriteTmp PROVE IInv'
<1>1. /\ UNCHANGED <<source, evicted, mirror, metric, store, now, good, lost>>
      /\ UNCHANGED moved /\ UNCHANGED wipe /\ UNCHANGED <<source, evicted, mirror>> /\ At("emit")
      /\ orphans' = [orphans EXCEPT !.old = 0]
  BY DEF WriteTmp, Sweep
<1>2. unit \in UnitSet /\ metric \in MetricSet /\ orphans \in [young : Nat, old : Nat]
  BY Typed DEF IInv
<1>3. orphans' \in [young : Nat, old : Nat]
  BY <1>1, <1>2
<1>4. PICK l : l = IF unit.exit \in SuccessExitCodes THEN unit.at ELSE metric.last
  OBVIOUS
<1>5. l \in 0..MaxTime
  BY <1>2, <1>4 DEF UnitSet, MetricSet
<1>6. unit' = [unit EXCEPT !.pc = "tmp", !.last = l]
  BY <1>4 DEF WriteTmp, ReadPrev
<1>7. /\ unit' \in UnitSet /\ unit'.pc = "tmp" /\ unit'.last = l /\ unit'.exit = unit.exit
      /\ unit'.at = unit.at
  BY <1>2, <1>5, <1>6 DEF UnitSet, Labels
<1>8. Progress'
  BY <1>1, <1>7, Still DEF IInv, Progress, At
<1>9. IF lost THEN metric.last <= good ELSE metric.last = good
  BY DEF IInv, GaugeIsLastSuccess
<1>10. Emitter'
  BY <1>1, <1>4, <1>7, <1>9 DEF IInv, Emitter, At
<1> QED BY <1>1, <1>3, <1>7, <1>8, <1>10, UnitIInv, Typed DEF IInv

LEMMA ReplaceIInv == ASSUME IInv, Next, Replace PROVE IInv'
<1>1. /\ At("tmp") /\ Rest(FALSE)
      /\ UNCHANGED <<source, evicted, mirror, wipe, orphans, store, now, moved>>
      /\ metric' = [last |-> unit.last, code |-> unit.exit, cut |-> FALSE]
      /\ IF unit.exit \in SuccessExitStatus THEN good' = unit.at /\ lost' = FALSE
         ELSE UNCHANGED <<good, lost>>
  BY DEF Replace
<1>2. unit \in UnitSet /\ good \in 0..MaxTime /\ lost \in BOOLEAN
  BY Typed DEF IInv
<1>3. unit' \in UnitSet /\ unit'.pc = "rest" /\ unit'.exit = unit.exit
  BY <1>1, <1>2, RestIs
<1>4. unit.exit \notin {Signal, NoExit}
      /\ IF unit.exit \in SuccessExitCodes THEN unit.last = unit.at
         ELSE IF lost THEN unit.last <= good ELSE unit.last = good
  BY <1>1 DEF IInv, Emitter, At
<1>5. metric' \in MetricSet /\ metric'.last = unit.last /\ metric'.code = unit.exit
  BY <1>1, <1>2, <1>4 DEF MetricSet, UnitSet
<1>6. good' \in 0..MaxTime /\ lost' \in BOOLEAN
  BY <1>1, <1>2 DEF UnitSet
<1>7. GaugeIsLastSuccess'
  <2>1. SuccessExitCodes = SuccessExitStatus
    BY DEF SuccessExitCodes, SuccessExitStatus
  <2>2. CASE unit.exit \in SuccessExitStatus
    BY <1>1, <1>4, <1>5, <2>1, <2>2 DEF GaugeIsLastSuccess
  <2>3. CASE unit.exit \notin SuccessExitStatus
    BY <1>1, <1>4, <1>5, <2>1, <2>3 DEF GaugeIsLastSuccess
  <2> QED BY <2>2, <2>3
<1>8. UNCHANGED <<source, evicted, mirror>> /\ UNCHANGED store
  BY <1>1
<1>9. Progress'
  BY <1>1, <1>3, <1>8, Still DEF IInv, Progress, At
<1>10. Emitter'
  BY <1>3, <1>5 DEF Emitter, At
<1>11. Views' /\ Copies'
  BY <1>8, Still DEF IInv, Views, Attaching, Emptying, Copies
<1>12. TypeOK'
  BY <1>1, <1>3, <1>5, <1>6, TypeIInv, Typed DEF IInv
<1> QED BY <1>7, <1>9, <1>10, <1>11, <1>12 DEF IInv

LEMMA OrphansAreTyped ==
    ASSUME TypeOK, orphans' = [orphans EXCEPT !.young = IF At("tmp") THEN @ + 1 ELSE @]
    PROVE  orphans' \in [young : Nat, old : Nat]
<1>1. PICK y : y = IF At("tmp") THEN orphans.young + 1 ELSE orphans.young
  OBVIOUS
<1>2. orphans \in [young : Nat, old : Nat]
  BY Typed
<1>3. y \in Nat
  BY <1>1, <1>2
<1>4. orphans' = [orphans EXCEPT !.young = y]
  BY <1>1
<1> QED BY <1>2, <1>3, <1>4

LEMMA EmitDiesIInv == ASSUME IInv, Next, EmitDies PROVE IInv'
<1>1. /\ UNCHANGED <<source, evicted, mirror, metric, store, now, good, lost>>
      /\ UNCHANGED moved /\ UNCHANGED wipe /\ UNCHANGED <<source, evicted, mirror>>
      /\ unit.pc \in {"stop", "emit", "tmp"} /\ Rest(TRUE)
      /\ orphans' = [orphans EXCEPT !.young = IF At("tmp") THEN @ + 1 ELSE @]
  BY DEF EmitDies
<1>2. unit \in UnitSet
  BY Typed DEF IInv
<1>3. unit' \in UnitSet /\ unit'.pc = "rest" /\ unit'.exit = unit.exit /\ unit'.died
  BY <1>1, <1>2, RestIs
<1>4. Progress'
  BY <1>1, <1>3, Still DEF IInv, Progress, At
<1>5. Emitter'
  BY <1>3 DEF Emitter, At
<1>6. orphans' \in [young : Nat, old : Nat]
  BY <1>1, OrphansAreTyped DEF IInv
<1> QED BY <1>1, <1>3, <1>4, <1>5, <1>6, UnitIInv, Typed DEF IInv

LEMMA LoseMetricIInv == ASSUME IInv, Next, LoseMetric PROVE IInv'
<1>1. /\ lost' = TRUE /\ metric \in MetricSet /\ good \in Nat
      /\ UNCHANGED <<source, evicted, mirror, wipe, unit, orphans, store, now, moved, good>>
  BY Typed, Sizes DEF LoseMetric, IInv
<1>2. metric' \in MetricSet /\ metric'.last <= good /\ metric'.code = NoExit
  <2>1. PICK n \in 0..metric.last, c \in BOOLEAN : metric' = [last |-> n, code |-> NoExit, cut |-> c]
    <3>1. metric.last \in Nat /\ 0 \in 0..metric.last
      BY <1>1, Sizes DEF MetricSet
    <3>2. CASE \E n \in 0..metric.last : metric' = [NoMetric EXCEPT !.last = n]
      BY <3>2 DEF NoMetric
    <3>3. CASE metric' = [NoMetric EXCEPT !.cut = TRUE]
      BY <3>1, <3>3 DEF NoMetric
    <3> QED BY <3>2, <3>3 DEF LoseMetric
  <2>2. metric.last \in 0..MaxTime /\ metric.last <= good
    BY <1>1, Sizes DEF IInv, GaugeIsLastSuccess, MetricSet
  <2>3. n \in 0..MaxTime /\ n <= good /\ NoExit \in Exits \ {Signal}
    BY <1>1, <2>1, <2>2, Sizes DEF Exits, NoExit, Signal
  <2> QED BY <2>1, <2>3 DEF MetricSet
<1>3. UNCHANGED <<source, evicted, mirror>> /\ UNCHANGED store /\ UNCHANGED unit
      /\ UNCHANGED good /\ UNCHANGED moved
  BY <1>1
<1>4. Progress'
  BY <1>3, Still DEF IInv, Progress, At
<1>5. GaugeIsLastSuccess'
  BY <1>1, <1>2 DEF GaugeIsLastSuccess
<1>6. Emitter'
  BY <1>1, <1>2, <1>3 DEF IInv, Emitter, At
<1>7. Views' /\ Copies'
  BY <1>3, Still DEF IInv, Views, Attaching, Emptying, Copies
<1>8. TypeOK'
  BY <1>1, <1>2, TypeIInv, Typed DEF IInv
<1> QED BY <1>4, <1>5, <1>6, <1>7, <1>8 DEF IInv

LEMMA HostCrashIInv == ASSUME IInv, Next, HostCrash PROVE IInv'
<1>1. /\ UNCHANGED <<source, evicted, mirror, wipe, metric, now, moved, good, lost>>
      /\ unit' = AtRest /\ store' = Closed
      /\ orphans' = [orphans EXCEPT !.young = IF At("tmp") THEN @ + 1 ELSE @]
  BY DEF HostCrash
<1>2. orphans' \in [young : Nat, old : Nat]
  BY <1>1, OrphansAreTyped DEF IInv
<1>3. Progress' /\ Emitter'
  BY <1>1, AtRestIs DEF Progress, Emitter, At, NoExit
<1>4. Views'
  BY <1>1, ClosedIs DEF Views, Attaching, Emptying
<1>5. Copies' /\ GaugeIsLastSuccess'
  BY <1>1 DEF IInv, Copies, GaugeIsLastSuccess
<1>6. TypeOK'
  BY <1>1, <1>2, AtRestIs, ClosedIs, TypeIInv, Typed DEF IInv
<1> QED BY <1>3, <1>4, <1>5, <1>6 DEF IInv

(***************************************************************************)
(* The Logger, time and the reader.                                        *)
(***************************************************************************)
(* What the Logger does leaves every earlier shard as it is.               *)
LEMMA SourceIInv == ASSUME IInv, Next, NEW x \in Shards, Export(x) \/ Evict(x) PROVE IInv'
<1>1. /\ moved' = TRUE /\ UNCHANGED <<mirror, wipe, unit, metric, orphans, store, now, good, lost>>
      /\ \/ source[x] = Absent /\ source' = [source EXCEPT ![x] = Whole] /\ UNCHANGED evicted
         \/ UNCHANGED source /\ evicted' = evicted \cup {x}
  BY DEF Export, Evict, Logger!Write
<1>2. source \in [Shards -> {Absent, Whole}] /\ evicted \subseteq Shards
  BY Typed DEF IInv
<1>3. source' \in [Shards -> {Absent, Whole}] /\ evicted' \subseteq Shards
  BY <1>1, <1>2
<1>4. \A z \in Shards : source[z] # Absent => source'[z] = source[z]
  BY <1>1, <1>2
<1>5. Copies'
  BY <1>1, <1>2, <1>4 DEF IInv, Copies
<1>6. Progress'
  BY <1>1 DEF Progress, At
<1>7. Emitter' /\ GaugeIsLastSuccess'
  BY <1>1 DEF IInv, Emitter, GaugeIsLastSuccess, At
<1>8. Views'
  BY <1>1 DEF IInv, Views, Attaching, Emptying, ShardsOf, Mirrored
<1>9. TypeOK'
  BY <1>1, <1>3, TypeIInv, Typed DEF IInv
<1> QED BY <1>5, <1>6, <1>7, <1>8, <1>9 DEF IInv

LEMMA TimeIInv == ASSUME IInv, Next, Tick \/ Age PROVE IInv'
<1>1. /\ UNCHANGED <<source, evicted, mirror, wipe, unit, metric, store, moved, good, lost>>
      /\ UNCHANGED <<source, evicted, mirror>>
  BY DEF Tick, Age
<1>2. now' \in 1..MaxTime
  BY Typed, Sizes DEF IInv, Tick, Age
<1>3. orphans' \in [young : Nat, old : Nat]
  BY Typed DEF IInv, Tick, Age
<1>4. TypeOK'
  BY <1>1, <1>2, <1>3, TypeIInv, Typed DEF IInv
<1>5. Progress'
  BY <1>1, Still DEF IInv, Progress, At
<1>6. Emitter' /\ GaugeIsLastSuccess' /\ Copies'
  BY <1>1 DEF IInv, Emitter, GaugeIsLastSuccess, Copies, At
<1>7. Views'
  BY <1>1, Still DEF IInv, Views, Attaching, Emptying
<1> QED BY <1>4, <1>5, <1>6, <1>7 DEF IInv

LEMMA ReaderIInv == ASSUME IInv, Next, StoreStep PROVE IInv'
<1>1. store' \in StoreSet /\ Views'
      /\ UNCHANGED <<source, evicted, mirror, wipe, unit, metric, orphans, now, moved, good, lost>>
      /\ UNCHANGED <<source, evicted, mirror>>
  BY StoreIInv DEF syncVars
<1>2. TypeOK'
  BY <1>1, TypeIInv, Typed DEF IInv
<1>3. Progress'
  BY <1>1, Still DEF IInv, Progress, At
<1>4. Emitter' /\ GaugeIsLastSuccess' /\ Copies'
  BY <1>1 DEF IInv, Emitter, GaugeIsLastSuccess, Copies, At
<1> QED BY <1>1, <1>2, <1>3, <1>4 DEF IInv

LEMMA InitIInv == Init => IInv
<1> SUFFICES ASSUME Init PROVE IInv
  OBVIOUS
<1>1. /\ source = [x \in Shards |-> Absent] /\ mirror = [x \in Shards |-> Absent]
      /\ evicted = {} /\ unit = AtRest /\ metric = NoMetric /\ store = Closed
      /\ orphans = [young |-> 0, old |-> 0] /\ now = 1 /\ moved = FALSE /\ good = 0
      /\ lost = FALSE /\ faults = 0 /\ wipe = [on |-> FALSE, runs |-> 0, gone |-> {}]
  BY DEF Init, Logger!Init
<1>2. metric \in MetricSet /\ metric.last = 0
  BY <1>1, Sizes DEF NoMetric, MetricSet, Exits, NoExit, Signal
<1>3. orphans \in [young : Nat, old : Nat] /\ now \in 1..MaxTime /\ good \in 0..MaxTime
      /\ faults \in 0..MaxFaults
  BY <1>1, Sizes
<1>4. source \in [Shards -> {Absent, Whole}] /\ mirror \in [Shards -> {Absent, Whole, Torn}]
      /\ wipe \in WipeSet
  BY <1>1 DEF WipeSet
<1>5. TypeOK
  BY <1>1, <1>2, <1>3, <1>4, AtRestIs, ClosedIs, Typed
<1>6. Copies
  BY <1>1 DEF Copies
<1>7. Progress /\ Emitter
  BY <1>1, AtRestIs DEF Progress, Emitter, At, NoExit
<1>8. Views
  BY <1>1, ClosedIs DEF Views, Attaching, Emptying
<1>9. GaugeIsLastSuccess
  BY <1>1, <1>2 DEF GaugeIsLastSuccess
<1> QED BY <1>5, <1>6, <1>7, <1>8, <1>9 DEF IInv

LEMMA NextIInv == ASSUME IInv, [Next]_vars PROVE IInv'
<1>1. CASE UNCHANGED vars
  <2>1. TypeOK' /\ Copies' /\ Emitter' /\ GaugeIsLastSuccess'
    BY <1>1 DEF vars, IInv, TypeOK, Copies, Emitter, GaugeIsLastSuccess, At
  <2>2. Progress' /\ Views'
    <3>1. UNCHANGED <<source, evicted, mirror>> /\ UNCHANGED <<unit, store, moved>>
      BY <1>1 DEF vars
    <3> QED BY <3>1, Still DEF IInv, Progress, Views, Attaching, Emptying, At
  <2> QED BY <2>1, <2>2 DEF IInv
<1>2. CASE Next
  <2>1. ASSUME NEW x \in Shards, Export(x) \/ Evict(x) \/ CopyStep(x) \/ Delete(x) PROVE IInv'
    BY <1>2, <2>1, SourceIInv, CopyIInv, DropIInv, DeleteIInv DEF CopyStep
  <2>2. CASE Tick \/ Age \/ StoreStep
    BY <1>2, <2>2, TimeIInv, ReaderIInv
  <2>3. CASE RunStarts \/ EndCopy \/ EndDelete \/ BreakStep
    BY <1>2, <2>3, StartIInv, EndCopyIInv, EndDeleteIInv, BreakIInv
  <2>4. CASE ParseExitCode \/ ReadCrashes \/ WriteTmp \/ Replace \/ EmitDies \/ LoseMetric \/ HostCrash
    BY <1>2, <2>4, ParseIInv, ReadCrashesIInv, WriteTmpIInv, ReplaceIInv, EmitDiesIInv, LoseMetricIInv,
       HostCrashIInv
  <2> QED BY <1>2, <2>1, <2>2, <2>3, <2>4, Steps
<1> QED BY <1>1, <1>2

LEMMA Inductive == Spec => []IInv
<1>1. IInv /\ [Next]_vars => IInv'
  BY NextIInv
<1> QED BY <1>1, InitIInv, PTL DEF Spec

(***************************************************************************)
(* Theorems                                                                *)
(***************************************************************************)
(* Every value stays in its set, whatever fails.                           *)
THEOREM SyncTypes == Spec => []TypeOK
<1>1. IInv => TypeOK
  BY DEF IInv
<1> QED BY <1>1, Inductive, PTL

(* No interrupted transfer leaves part of a shard under a shard's name.    *)
THEOREM CopyWhole == Spec => []MirrorIsWhole
<1>1. IInv => MirrorIsWhole
  BY DEF IInv, Copies, MirrorIsWhole, Mirrored
<1> QED BY <1>1, Inductive, PTL

(* The gauge of the alert is the end of the last published success.        *)
THEOREM GaugeKept == Spec => []GaugeIsLastSuccess
<1>1. IInv => GaugeIsLastSuccess
  BY DEF IInv
<1> QED BY <1>1, Inductive, PTL

(* An exit code 0 on the gauge says that the copy is the source's tree.    *)
THEOREM CleanIsSynced == Spec => []CleanGaugeMeansSynced
<1>1. ASSUME IInv PROVE CleanGaugeMeansSynced
  <2> SUFFICES ASSUME At("rest"), unit.exit \notin {Signal, NoExit}, ~unit.died,
                      metric.code = 0, ~moved
               PROVE  Mirrored = Listed
    BY DEF CleanGaugeMeansSynced
  <2>1. unit.exit = 0
    BY <1>1 DEF IInv, Emitter, NoExit
  <2> QED BY <1>1, <2>1 DEF IInv, Progress, At
<1> QED BY <1>1, Inductive, PTL

(* athena-logger-sync.service:39-40 wants the metric "after every run      *)
(* (including failures)".  What holds: a run that no signal ended and      *)
(* whose emitter lived has its own exit status on the gauge, failures      *)
(* included, or the metric file was lost since.                            *)
PublishedUnlessKilled ==
    At("rest") /\ unit.exit \notin {Signal, NoExit} /\ ~unit.died =>
        metric.code \in {unit.exit, NoExit}

THEOREM ExitsArePublished == Spec => []PublishedUnlessKilled
<1>1. IInv => PublishedUnlessKilled
  BY DEF IInv, Emitter, PublishedUnlessKilled
<1> QED BY <1>1, Inductive, PTL

(* Views over files read some until rsync touches the table again; an empty*)
(* one was put over a table that had no shard at some moment of that very  *)
(* attach, which says nothing of the shards that came after the moment     *)
(* (EmptyViewsAreTrue is refuted by them); and none lacks its table but    *)
(* after an attach that failed.                                            *)
THEOREM ViewsTrue == Spec => []ViewsFollowTheTree
<1>1. IInv => ViewsFollowTheTree
  BY DEF IInv, Views, ViewsFollowTheTree
<1> QED BY <1>1, Inductive, PTL

Survives == Attaching /\ store'.pc \in {"closed", "ready"} =>
                store.table = NTables \/ faults' > faults

(* Only a fault ends an attach before its last table.                      *)
THEOREM AttachGoesOn == Spec => AttachSurvivesDeletes
<1>1. ASSUME IInv, [Next]_vars PROVE Survives
  <2> SUFFICES ASSUME Attaching, store'.pc \in {"closed", "ready"}, store.table # NTables
               PROVE  faults' > faults
    BY DEF Survives
  <2>1. store \in StoreSet /\ faults \in Nat
    BY <1>1, Typed, Sizes DEF IInv
  <2>2. CASE Fault
    BY <2>1, <2>2 DEF Fault
  <2>3. CASE UNCHANGED vars \/ (NoFault /\ (UnitStep \/ Tick \/ Age \/ \E x \in Shards :
                                               Export(x) \/ Evict(x)))
    <3>1. store'.pc = store.pc
      <4>1. CASE UNCHANGED store
        BY <4>1
      <4>2. ASSUME NEW x \in Shards, Touch(x) PROVE store'.pc = store.pc
        BY <2>1, <4>2 DEF Touch, StoreSet
      <4>3. UNCHANGED store \/ \E x \in Shards : Touch(x)
        BY <2>3 DEF vars, UnitStep, Tick, Age, Export, Evict, TimerFires, EndCopy, EndDelete,
                    Run, Copy, Vanished, Delete, ParseExitCode, ReadCrashes, WriteTmp, Replace
      <4> QED BY <4>1, <4>2, <4>3
    <3> QED BY <3>1 DEF Attaching, Emptying
  <2>4. CASE Attach \/ Close
    BY <2>4 DEF Attach, Close, Attaching, Emptying
  <2>5. CASE Probe
    <3>1. store'.pc \in {"drop", "create"}
      BY <2>1, <2>5 DEF Probe, StoreSet
    <3> QED BY <3>1
  <2>6. ASSUME NEW v, store' = NextTable(v) PROVE FALSE
    <3>1. store'.pc = "probe"
      BY <2>1, <2>6 DEF NextTable, StoreSet
    <3> QED BY <3>1
  <2>7. ASSUME \/ store' = [store EXCEPT !.pc = "drop"]
               \/ \E label \in {"table", "empty"} : \E old, new : Swap(label, old, new)
        PROVE  FALSE
    <3>1. store'.pc \in {"drop", "table", "empty"}
      BY <2>1, <2>7 DEF StoreSet, Swap
    <3> QED BY <3>1
  <2>8. CASE CreateView \/ DropTable \/ CreateTable \/ CreateEmptyView
    BY <2>6, <2>7, <2>8 DEF CreateView, DropTable, CreateTable, CreateEmptyView
  <2> QED BY <1>1, <2>2, <2>3, <2>4, <2>5, <2>8 DEF Next
<1> QED BY <1>1, Inductive, PTL DEF Spec, AttachSurvivesDeletes, Survives

(***************************************************************************)
(* Deletions.  The list of a run may be old by the time the deletions come;*)
(* if the run saw the Logger's tree, what the list lacks was evicted all   *)
(* the same, as every file of the copy was exported and the list had       *)
(* everything exported and not evicted.  A run that saw the Logger empty   *)
(* has as many unevicted shards left to delete as --max-delete lets it.    *)
(***************************************************************************)
ListInv ==
    unit.pc \in {"copy", "delete"} =>
        /\ unit.todo \subseteq unit.list
        /\ wipe.on \/ Mirrored \ unit.list \subseteq evicted

Gone == wipe.gone \ evicted
ToWipe ==
    IF wipe.on /\ unit.pc \in {"copy", "delete"} THEN MaxDelete - unit.deleted ELSE 0
CapInv == Cardinality(Gone) + ToWipe <= MaxDelete * wipe.runs

LEMMA InitListInv == Init => ListInv /\ CapInv
<1> SUFFICES ASSUME Init PROVE ListInv /\ CapInv
  OBVIOUS
<1>1. unit.pc = "rest" /\ Gone = {} /\ ToWipe = 0 /\ wipe.runs = 0
  BY AtRestIs DEF Init, Gone, ToWipe
<1>2. Cardinality(Gone) = 0
  BY <1>1, FS_EmptySet
<1> QED BY <1>1, <1>2, Sizes DEF ListInv, CapInv

(* The steps, by what ListInv speaks of.                                   *)
LEMMA ListSteps ==
    ASSUME IInv, [Next]_vars
    PROVE  \/ UNCHANGED <<unit, mirror, wipe>> /\ evicted \subseteq evicted'
           \/ RunStarts
           \/ unit'.pc \notin {"copy", "delete"} /\ UNCHANGED <<mirror, evicted, wipe>>
           \/ /\ unit.pc = "copy" /\ unit'.pc = "delete" /\ unit'.todo = unit.todo
              /\ unit'.list = unit.list /\ unit'.deleted = unit.deleted
              /\ UNCHANGED <<mirror, evicted, wipe>>
           \/ \E x \in Shards :
                 /\ unit.pc = "copy" /\ unit'.pc = "copy" /\ unit'.todo = unit.todo \ {x}
                 /\ unit'.list = unit.list /\ unit'.deleted = unit.deleted
                 /\ UNCHANGED evicted
                 /\ \/ UNCHANGED <<mirror, wipe>>
                    \/ Copy(x) /\ Mirrored' = Mirrored \cup {x}
           \/ \E x \in Shards :
                 /\ Delete(x) /\ unit.pc = "delete" /\ unit'.pc = "delete"
                 /\ unit'.todo = unit.todo /\ unit'.list = unit.list /\ UNCHANGED evicted
                 /\ unit'.deleted = unit.deleted + 1 /\ Mirrored' = Mirrored \ {x}
<1>1. unit \in UnitSet /\ mirror \in [Shards -> {Absent, Whole, Torn}]
  BY Typed DEF IInv
<1>2. CASE UNCHANGED vars \/ Tick \/ Age \/ StoreStep \/ LoseMetric
           \/ \E x \in Shards : Export(x) \/ Evict(x)
  BY <1>2 DEF vars, Tick, Age, StoreStep, LoseMetric, Export, Evict, Attach, Probe,
              CreateView, DropTable, CreateTable, CreateEmptyView, Close, AttachFails, syncVars
<1>3. CASE EndCopy
  <2>1. CASE Goto("delete")
    <3>1. /\ unit'.pc = "delete" /\ unit'.list = unit.list /\ unit'.todo = unit.todo
          /\ unit'.deleted = unit.deleted
      BY <1>1, <2>1 DEF Goto, UnitSet
    <3> QED BY <1>3, <3>1 DEF EndCopy, At
  <2>2. CASE Stop(23)
    <3>1. unit'.pc = "stop"
      BY <2>2, StopIs DEF Exits
    <3> QED BY <1>3, <3>1 DEF EndCopy
  <2> QED BY <1>3, <2>1, <2>2 DEF EndCopy
<1>4. CASE EndDelete
  <2>1. unit'.pc = "stop"
    BY <1>4, AtRestIs DEF EndDelete, Stop, UnitSet
  <2> QED BY <1>4, <2>1 DEF EndDelete
<1>5. CASE ParseExitCode \/ WriteTmp
  <2>1. PICK l : l = IF unit.exit \in SuccessExitCodes THEN unit.at ELSE ReadPrev(metric)
    OBVIOUS
  <2>2. \/ Rest(FALSE)
        \/ unit' = [unit EXCEPT !.pc = "emit", !.at = now]
        \/ unit' = [unit EXCEPT !.pc = "tmp", !.last = l]
    BY <1>5, <2>1 DEF ParseExitCode, WriteTmp
  <2>3. unit'.pc \in {"rest", "emit", "tmp"}
    BY <1>1, <2>2, RestIs DEF UnitSet
  <2> QED BY <1>5, <2>3 DEF ParseExitCode, WriteTmp
<1>6. CASE Replace \/ EmitDies \/ ReadCrashes
  <2>1. unit'.pc = "rest"
    BY <1>1, <1>6, RestIs DEF Replace, EmitDies, ReadCrashes
  <2> QED BY <1>6, <2>1 DEF Replace, EmitDies, ReadCrashes
<1>7. CASE BreakStep \/ HostCrash
  <2>1. unit'.pc \in {"stop", "rest"}
    BY <1>7, AtRestIs, StopIs DEF BreakStep, Killed, Broken, HostCrash, Exits
  <2> QED BY <1>7, <2>1 DEF BreakStep, Killed, Broken, PartialFile, HostCrash
<1>8. ASSUME NEW x \in Shards, Vanished(x) \/ CopyFails(x)
      PROVE  /\ unit.pc = "copy" /\ unit'.pc = "copy" /\ unit'.todo = unit.todo \ {x}
             /\ unit'.list = unit.list /\ unit'.deleted = unit.deleted
             /\ UNCHANGED evicted /\ UNCHANGED <<mirror, wipe>>
  <2>1. PICK f \in SUBSET {23, 24} : Done(x, f) /\ At("copy")
    BY <1>8 DEF Vanished, CopyFails
  <2> QED BY <1>1, <1>8, <2>1, DoneIs DEF Vanished, CopyFails, At
<1>9. ASSUME NEW x \in Shards, Copy(x)
      PROVE  /\ unit.pc = "copy" /\ unit'.pc = "copy" /\ unit'.todo = unit.todo \ {x}
             /\ unit'.list = unit.list /\ unit'.deleted = unit.deleted
             /\ UNCHANGED evicted /\ Mirrored' = Mirrored \cup {x}
  <2>1. Done(x, {}) /\ At("copy") /\ UNCHANGED evicted /\ source[x] # Absent
        /\ mirror' = [mirror EXCEPT ![x] = source[x]]
    BY <1>9 DEF Copy, Listed
  <2>2. Mirrored' = Mirrored \cup {x}
    BY <1>1, <2>1 DEF Mirrored
  <2> QED BY <1>1, <2>1, <2>2, DoneIs DEF At
<1>10. ASSUME NEW x \in Shards, Delete(x)
       PROVE  /\ unit.pc = "delete" /\ unit'.pc = "delete" /\ unit'.todo = unit.todo
              /\ unit'.list = unit.list /\ unit'.deleted = unit.deleted + 1
              /\ UNCHANGED evicted /\ Mirrored' = Mirrored \ {x}
  <2>1. /\ At("delete") /\ UNCHANGED evicted /\ mirror' = [mirror EXCEPT ![x] = Absent]
        /\ unit' = [unit EXCEPT !.deleted = unit.deleted + 1]
    BY <1>10 DEF Delete, CountDelete
  <2>2. Mirrored' = Mirrored \ {x}
    BY <1>1, <2>1 DEF Mirrored
  <2>3. /\ unit'.pc = unit.pc /\ unit'.todo = unit.todo /\ unit'.list = unit.list
        /\ unit'.deleted = unit.deleted + 1
    BY <1>1, <2>1 DEF UnitSet
  <2> QED BY <2>1, <2>2, <2>3 DEF At
<1>11. CASE Next
  <2>1. CASE \E x \in Shards : Copy(x)
    BY <1>9, <2>1
  <2>2. CASE \E x \in Shards : Vanished(x) \/ CopyFails(x)
    BY <1>8, <2>2
  <2>3. CASE \E x \in Shards : Delete(x)
    BY <1>10, <2>3
  <2> QED BY <1>2, <1>3, <1>4, <1>5, <1>6, <1>7, <1>11, <2>1, <2>2, <2>3, Steps
          DEF CopyStep
<1> QED BY <1>2, <1>11

(* What a copied or deleted shard does to the observer.                    *)
LEMMA WipeAfter ==
    ASSUME wipe \in WipeSet, NEW x \in Shards
    PROVE  /\ Copy(x) => /\ wipe'.on = wipe.on /\ wipe'.runs = wipe.runs
                         /\ wipe'.gone = wipe.gone \ {x}
           /\ Delete(x) => /\ wipe'.on = wipe.on /\ wipe'.runs = wipe.runs
                           /\ wipe'.gone = wipe.gone \cup {x}
BY DEF WipeSet, Copy, Delete

LEMMA NextListInv == ASSUME IInv, ListInv, [Next]_vars PROVE ListInv'
<1>1. CASE UNCHANGED <<unit, mirror, wipe>> /\ evicted \subseteq evicted'
  BY <1>1 DEF ListInv, Mirrored
<1>2. CASE RunStarts
  <2>1. CASE TimerFires
    <3>1. unit'.list = Listed /\ unit'.todo \subseteq Listed
      BY <2>1, RunIs, ListedIs DEF IInv, TimerFires
    <3>2. UNCHANGED <<source, evicted, mirror>>
      BY <2>1 DEF TimerFires, Run
    <3>3. Mirrored \ Listed \subseteq evicted
      BY DEF IInv, Copies, Mirrored, Listed
    <3> QED BY <3>1, <3>2, <3>3, Still DEF ListInv
  <2>2. CASE AppearsEmpty
    <3>1. unit'.todo \subseteq unit'.list
      BY <2>2, RunIs, ListedIs DEF IInv, AppearsEmpty
    <3>2. wipe'.on
      BY <2>2, Typed DEF IInv, AppearsEmpty, WipeSet
    <3> QED BY <3>1, <3>2 DEF ListInv
  <2> QED BY <1>2, <2>1, <2>2 DEF RunStarts
<1>3. CASE unit'.pc \notin {"copy", "delete"}
  BY <1>3 DEF ListInv
<1>4. CASE /\ unit.pc = "copy" /\ unit'.pc = "delete" /\ unit'.todo = unit.todo
           /\ unit'.list = unit.list /\ UNCHANGED <<mirror, evicted, wipe>>
  BY <1>4 DEF ListInv, Mirrored
<1>5. ASSUME NEW x \in Shards, unit.pc = "copy", unit'.todo = unit.todo \ {x},
             unit'.list = unit.list, UNCHANGED evicted,
             UNCHANGED <<mirror, wipe>> \/ (Copy(x) /\ Mirrored' = Mirrored \cup {x})
      PROVE  ListInv'
  <2>1. /\ unit.todo \subseteq unit.list
        /\ wipe.on \/ Mirrored \ unit.list \subseteq evicted
    BY <1>5 DEF ListInv
  <2>2. Mirrored' \ unit.list \subseteq Mirrored \ unit.list /\ wipe'.on = wipe.on
    <3>1. CASE UNCHANGED <<mirror, wipe>>
      BY <3>1 DEF Mirrored
    <3>2. CASE Copy(x) /\ Mirrored' = Mirrored \cup {x}
      <4>1. wipe'.on = wipe.on
        BY <3>2, WipeAfter, Typed DEF IInv
      <4> QED BY <2>1, <3>2, <4>1 DEF Copy
    <3> QED BY <1>5, <3>1, <3>2
  <2> QED BY <1>5, <2>1, <2>2 DEF ListInv
<1>6. ASSUME NEW x \in Shards, Delete(x), unit.pc = "delete", unit'.todo = unit.todo,
             unit'.list = unit.list, UNCHANGED evicted, Mirrored' = Mirrored \ {x}
      PROVE  ListInv'
  <2>1. wipe'.on = wipe.on
    BY <1>6, WipeAfter, Typed DEF IInv
  <2> QED BY <1>6, <2>1 DEF ListInv
<1> QED BY <1>1, <1>2, <1>3, <1>4, <1>5, <1>6, ListSteps

(***************************************************************************)
(* The cap.  What is gone and was not evicted grows by Delete alone, in a  *)
(* run that saw the Logger empty, and such a run brings its own MaxDelete. *)
(***************************************************************************)
LEMMA Finite == ASSUME NEW S \in SUBSET Shards PROVE IsFiniteSet(S) /\ Cardinality(S) \in Nat
BY SyncAssumption, FS_Subset, FS_CardinalityType

LEMMA Shrinks ==
    ASSUME NEW S \in SUBSET Shards, NEW T \in SUBSET S
    PROVE  Cardinality(T) <= Cardinality(S)
BY Finite, FS_Subset

LEMMA NextCapInv == ASSUME IInv, IInv', ListInv, CapInv, [Next]_vars PROVE CapInv'
<1>1. /\ Gone \in SUBSET Shards /\ Gone' \in SUBSET Shards
      /\ MaxDelete \in Nat /\ wipe.runs \in Nat /\ unit.deleted \in 0..MaxDelete
      /\ wipe \in WipeSet
  BY Typed, Sizes DEF IInv, TypeOK, WipeSet, UnitSet, Gone
<1>2. PICK n, k, m : n = Cardinality(Gone) /\ k = Cardinality(Gone') /\ m = MaxDelete * wipe.runs
  OBVIOUS
<1>3. n \in Nat /\ k \in Nat /\ m \in Nat
  BY <1>1, <1>2, Finite
<1>4. ToWipe \in Nat /\ n + ToWipe <= m
  <2>1. ToWipe \in Nat
    BY <1>1 DEF ToWipe
  <2> QED BY <1>2, <2>1 DEF CapInv
<1>5. ASSUME Gone' \subseteq Gone, wipe'.runs = wipe.runs, ToWipe' \in Nat, ToWipe' <= ToWipe
      PROVE  CapInv'
  <2>1. k <= n
    BY <1>1, <1>2, <1>5, Shrinks
  <2>2. k + ToWipe' <= m
    BY <1>3, <1>4, <1>5, <2>1
  <2> QED BY <1>2, <1>5, <2>2 DEF CapInv
<1>6. CASE UNCHANGED <<unit, mirror, wipe>> /\ evicted \subseteq evicted'
  <2>1. Gone' \subseteq Gone /\ wipe'.runs = wipe.runs /\ ToWipe' = ToWipe
    BY <1>6 DEF Gone, ToWipe
  <2> QED BY <1>3, <1>4, <1>5, <2>1
<1>7. CASE TimerFires
  <2>1. wipe' = [wipe EXCEPT !.on = FALSE] /\ UNCHANGED evicted
    BY <1>7 DEF TimerFires, Run
  <2>2. ~wipe'.on /\ wipe'.runs = wipe.runs /\ wipe'.gone = wipe.gone
    BY <1>1, <2>1 DEF WipeSet
  <2>3. Gone' \subseteq Gone /\ ToWipe' = 0
    BY <2>1, <2>2 DEF Gone, ToWipe
  <2> QED BY <1>4, <1>5, <2>2, <2>3
<1>8. CASE AppearsEmpty
  <2>1. wipe' = [wipe EXCEPT !.on = TRUE, !.runs = wipe.runs + 1] /\ UNCHANGED evicted
    BY <1>8 DEF AppearsEmpty, Run
  <2>2. wipe'.on /\ wipe'.runs = wipe.runs + 1 /\ wipe'.gone = wipe.gone
    BY <1>1, <2>1 DEF WipeSet
  <2>3. unit'.pc = "copy" /\ unit'.deleted = 0
    BY <1>8, RunIs, ListedIs DEF AppearsEmpty, IInv
  <2>4. Gone' = Gone /\ ToWipe' = MaxDelete
    BY <1>1, <2>1, <2>2, <2>3 DEF Gone, ToWipe
  <2>5. MaxDelete * wipe'.runs = m + MaxDelete
    BY <1>1, <1>2, <2>2
  <2>6. k = n
    BY <1>2, <2>4
  <2>7. n + MaxDelete <= m + MaxDelete
    BY <1>1, <1>3, <1>4
  <2> QED BY <1>2, <2>4, <2>5, <2>6, <2>7 DEF CapInv
<1>9. CASE unit'.pc \notin {"copy", "delete"} /\ UNCHANGED <<mirror, evicted, wipe>>
  <2>1. Gone' \subseteq Gone /\ wipe'.runs = wipe.runs /\ ToWipe' = 0
    BY <1>9 DEF Gone, ToWipe
  <2> QED BY <1>4, <1>5, <2>1
<1>10. CASE /\ unit.pc = "copy" /\ unit'.pc = "delete" /\ unit'.deleted = unit.deleted
            /\ UNCHANGED <<mirror, evicted, wipe>>
  <2>1. Gone' \subseteq Gone /\ wipe'.runs = wipe.runs /\ ToWipe' = ToWipe
    BY <1>10 DEF Gone, ToWipe
  <2> QED BY <1>3, <1>4, <1>5, <2>1
<1>11. ASSUME NEW x \in Shards, unit.pc = "copy", unit'.pc = "copy",
              unit'.deleted = unit.deleted, UNCHANGED evicted,
              UNCHANGED wipe \/ Copy(x)
       PROVE  CapInv'
  <2>1. wipe'.on = wipe.on /\ wipe'.runs = wipe.runs /\ wipe'.gone \subseteq wipe.gone
    <3>1. CASE UNCHANGED wipe
      BY <3>1
    <3>2. CASE Copy(x)
      BY <1>1, <3>2, WipeAfter
    <3> QED BY <1>11, <3>1, <3>2
  <2>2. Gone' \subseteq Gone /\ ToWipe' = ToWipe
    BY <1>11, <2>1 DEF Gone, ToWipe
  <2> QED BY <1>4, <1>5, <2>1, <2>2
<1>12. ASSUME NEW x \in Shards, Delete(x), unit.pc = "delete", unit'.pc = "delete",
              UNCHANGED evicted, unit'.deleted = unit.deleted + 1
       PROVE  CapInv'
  <2>1. /\ wipe'.on = wipe.on /\ wipe'.runs = wipe.runs
        /\ wipe'.gone = wipe.gone \cup {x} /\ unit.deleted < MaxDelete
    BY <1>1, <1>12, WipeAfter DEF Delete
  <2>2. CASE wipe.on
    <3>1. ToWipe = MaxDelete - unit.deleted /\ ToWipe' = MaxDelete - (unit.deleted + 1)
      BY <1>12, <2>1, <2>2 DEF ToWipe
    <3>2. Gone' \in SUBSET (Gone \cup {x})
      BY <1>12, <2>1 DEF Gone
    <3>3. Cardinality(Gone \cup {x}) \in {n, n + 1} /\ Gone \cup {x} \in SUBSET Shards
      BY <1>1, <1>2, Finite, FS_AddElement
    <3>4. k <= Cardinality(Gone \cup {x})
      BY <1>2, <3>2, <3>3, Shrinks
    <3>5. k <= n + 1
      BY <1>3, <3>3, <3>4
    <3>6. k + ToWipe' <= m
      BY <1>1, <1>3, <1>4, <2>1, <3>1, <3>5
    <3> QED BY <1>2, <2>1, <3>6 DEF CapInv
  <2>3. CASE ~wipe.on
    <3>1. x \in evicted
      BY <1>12, <2>3 DEF ListInv, Delete, Extras
    <3>2. Gone' \subseteq Gone /\ ToWipe' = 0
      BY <1>12, <2>1, <2>3, <3>1 DEF Gone, ToWipe
    <3> QED BY <1>4, <1>5, <2>1, <3>2
  <2> QED BY <2>2, <2>3
<1>13. CASE RunStarts
  BY <1>7, <1>8, <1>13 DEF RunStarts
<1> QED BY <1>6, <1>9, <1>10, <1>11, <1>12, <1>13, ListSteps

LEMMA InductiveList == Spec => [](IInv /\ ListInv /\ CapInv)
<1>1. IInv /\ ListInv /\ CapInv /\ [Next]_vars => IInv' /\ ListInv' /\ CapInv'
  BY NextIInv, NextListInv, NextCapInv
<1> QED BY <1>1, InitIInv, InitListInv, PTL DEF Spec

(* --max-delete is the only bound on what a Logger that appears empty can  *)
(* cost the copy, and it is one: per run, whatever else fails.             *)
THEOREM WipesAreCapped == Spec => []WipeIsCapped
<1>1. IInv /\ CapInv => WipeIsCapped
  <2> SUFFICES ASSUME IInv, CapInv PROVE WipeIsCapped
    OBVIOUS
  <2>1. /\ Gone \in SUBSET Shards /\ MaxDelete \in Nat /\ wipe.runs \in Nat
        /\ unit.deleted \in 0..MaxDelete
    BY Typed, Sizes DEF IInv, WipeSet, UnitSet, Gone
  <2>2. PICK n, m : n = Cardinality(Gone) /\ m = MaxDelete * wipe.runs
    OBVIOUS
  <2>3. n \in Nat /\ m \in Nat /\ ToWipe \in Nat
    BY <2>1, <2>2, Finite DEF ToWipe
  <2>4. n <= m
    BY <2>2, <2>3 DEF CapInv
  <2> QED BY <2>2, <2>4 DEF WipeIsCapped, Gone
<1> QED BY <1>1, InductiveList, PTL

DeletesEvicted == \A x \in Mirrored : x \notin Mirrored' => x \in evicted

LEMMA OnlyEvictedLeave == ASSUME IInv, ListInv, [Next]_vars, ~wipe.on PROVE DeletesEvicted
<1>1. CASE UNCHANGED mirror
  BY <1>1 DEF DeletesEvicted, Mirrored
<1>2. ASSUME NEW x \in Shards, Delete(x), unit.pc = "delete", Mirrored' = Mirrored \ {x}
      PROVE  DeletesEvicted
  BY <1>2 DEF ListInv, Delete, Extras, DeletesEvicted
<1>3. ASSUME NEW x, Mirrored' = Mirrored \cup {x} PROVE DeletesEvicted
  BY <1>3 DEF DeletesEvicted
<1>4. RunStarts => UNCHANGED mirror
  BY DEF RunStarts, TimerFires, AppearsEmpty, Run
<1> QED BY <1>1, <1>2, <1>3, <1>4, ListSteps

(* What the copy lacks of the Logger's tree, and has beyond it, grows by   *)
(* the Logger's steps alone, or in a run that saw the Logger empty: no     *)
(* other step of the sync, failed, killed or cut, moves the copy away from *)
(* its source.                                                             *)
Nears ==
    UNCHANGED <<source, evicted>> /\ ~wipe.on =>
        /\ (Listed \ Mirrored)' \subseteq Listed \ Mirrored
        /\ (Mirrored \ Listed)' \subseteq Mirrored \ Listed

SyncOnlyNears == [][Nears]_vars

THEOREM CopyNears == Spec => SyncOnlyNears
<1>1. ASSUME IInv, ListInv, [Next]_vars PROVE Nears
  <2> SUFFICES ASSUME UNCHANGED <<source, evicted>>, ~wipe.on
               PROVE  /\ (Listed \ Mirrored)' \subseteq Listed \ Mirrored
                      /\ (Mirrored \ Listed)' \subseteq Mirrored \ Listed
    BY DEF Nears
  <2>1. Listed' = Listed
    BY DEF Listed
  <2>2. \A x \in Mirrored : x \notin Mirrored' => x \notin Listed
    BY <1>1, OnlyEvictedLeave DEF DeletesEvicted, Listed
  <2>3. \A x \in Mirrored' : x \notin Mirrored => x \in Listed
    <3>1. CASE UNCHANGED mirror
      BY <3>1 DEF Mirrored
    <3>2. ASSUME NEW x \in Shards, Copy(x), Mirrored' = Mirrored \cup {x}
          PROVE  \A y \in Mirrored' : y \notin Mirrored => y \in Listed
      BY <3>2 DEF Copy
    <3>3. RunStarts => UNCHANGED mirror
      BY DEF RunStarts, TimerFires, AppearsEmpty, Run
    <3>4. ASSUME NEW x, Mirrored' = Mirrored \ {x} PROVE Mirrored' \subseteq Mirrored
      BY <3>4
    <3> QED BY <1>1, <3>1, <3>2, <3>3, <3>4, ListSteps
  <2> QED BY <2>1, <2>2, <2>3
<1> QED BY <1>1, InductiveList, PTL DEF Spec, SyncOnlyNears

(***************************************************************************)
(* The source of the copy is the tree that ShardExport implements.         *)
(***************************************************************************)
THEOREM SourceIsTheTree == Spec => Logger!Spec
<1>1. Init => Logger!Init
  BY DEF Init
<1>2. ASSUME [Next]_vars PROVE [Logger!Next]_source
  <2>1. CASE UNCHANGED source
    BY <2>1
  <2>2. ASSUME NEW x \in Shards, Export(x) PROVE Logger!Next
    BY <2>2 DEF Export, Logger!Next
  <2> QED BY <1>2, <2>1, <2>2, Steps
          DEF vars, Tick, Age, StoreStep, RunStarts, TimerFires, AppearsEmpty, Run, EndCopy,
              EndDelete, ParseExitCode, ReadCrashes, WriteTmp, Replace, BreakStep, EmitDies, LoseMetric, HostCrash, Evict, CopyStep,
              Copy, Vanished, CopyFails, Delete, Killed, Broken, Attach, Probe, CreateView,
              DropTable, CreateTable, CreateEmptyView, Close, AttachFails, syncVars
<1> QED BY <1>1, <1>2, PTL DEF Spec, Logger!Spec

(***************************************************************************)
(* A run ends.  This is the part of CatchesUp that is not about fairness:  *)
(* what is left of a run is a natural number that every step of the unit   *)
(* lowers and nothing but the start of a run raises.                       *)
(***************************************************************************)
Left(u) ==
    CASE u.pc = "copy"   -> 5 + MaxDelete + Cardinality(u.todo)
      [] u.pc = "delete" -> 4 + MaxDelete - u.deleted
      [] u.pc = "stop"   -> 3
      [] u.pc = "emit"   -> 2
      [] u.pc = "tmp"    -> 1
      [] OTHER           -> 0

LEMMA LeftIs ==
    ASSUME NEW u \in UnitSet
    PROVE  /\ Left(u) \in Nat /\ IsFiniteSet(u.todo) /\ u.deleted \in 0..MaxDelete
           /\ u.pc = "copy" => /\ Left(u) = 5 + MaxDelete + Cardinality(u.todo)
                               /\ Cardinality(u.todo) \in Nat
           /\ u.pc = "delete" => Left(u) = 4 + MaxDelete - u.deleted
           /\ u.pc = "stop" => Left(u) = 3
           /\ u.pc = "emit" => Left(u) = 2
           /\ u.pc = "tmp" => Left(u) = 1
           /\ u.pc = "rest" => Left(u) = 0
<1>1. IsFiniteSet(u.todo) /\ u.deleted \in 0..MaxDelete /\ MaxDelete \in Nat /\ u.pc \in Labels
  BY SyncAssumption, FS_Subset DEF UnitSet
<1>2. Cardinality(u.todo) \in Nat
  BY <1>1, FS_CardinalityType
<1> QED BY <1>1, <1>2 DEF Left, Labels

(* A file that is copied, gone or given up is one less to do.              *)
LEMMA DoneLeft ==
    ASSUME unit \in UnitSet, unit' \in UnitSet, At("copy"), NEW x \in unit.todo,
           NEW flags \in SUBSET {23, 24}, Done(x, flags)
    PROVE  Left(unit') < Left(unit)
<1>1. x \in Shards
  BY DEF UnitSet
<1>2. unit.pc = "copy" /\ unit'.pc = "copy" /\ unit'.todo = unit.todo \ {x}
  BY <1>1, DoneIs DEF At
<1>3. /\ IsFiniteSet(unit.todo) /\ Cardinality(unit.todo) \in Nat
      /\ Left(unit) = 5 + MaxDelete + Cardinality(unit.todo)
  BY <1>2, LeftIs
<1>4. Left(unit') = 5 + MaxDelete + Cardinality(unit'.todo)
  BY <1>2, LeftIs
<1>5. Cardinality(unit.todo \ {x}) = Cardinality(unit.todo) - 1
  BY <1>3, FS_RemoveElement
<1> QED BY <1>2, <1>3, <1>4, <1>5, SyncAssumption

LEMMA StepLeft ==
    ASSUME IInv, IInv', UnitStep, ~RunStarts
    PROVE  Left(unit') < Left(unit)
<1>1. unit \in UnitSet /\ unit' \in UnitSet /\ MaxDelete \in Nat
  BY Typed, SyncAssumption DEF IInv, TypeOK, UnitSet, Labels, Exits
<1>2. ASSUME NEW x \in Shards, Copy(x) \/ Vanished(x) PROVE Left(unit') < Left(unit)
  <2>1. PICK f \in SUBSET {23, 24} : At("copy") /\ x \in unit.todo /\ Done(x, f)
    BY <1>2 DEF Copy, Vanished
  <2> QED BY <1>1, <2>1, DoneLeft
<1>3. ASSUME NEW x \in Shards, Delete(x) PROVE Left(unit') < Left(unit)
  <2>1. At("delete") /\ unit' = [unit EXCEPT !.deleted = unit.deleted + 1]
    BY <1>3 DEF Delete, CountDelete
  <2>2. unit.pc = "delete" /\ unit'.pc = "delete" /\ unit'.deleted = unit.deleted + 1
    BY <1>1, <2>1 DEF UnitSet, At
  <2>3. Left(unit) = 4 + MaxDelete - unit.deleted /\ unit.deleted \in 0..MaxDelete
    BY <1>1, <2>2, LeftIs
  <2>4. Left(unit') = 4 + MaxDelete - unit'.deleted
    BY <1>1, <2>2, LeftIs
  <2> QED BY <1>1, <2>2, <2>3, <2>4
<1>4. CASE EndCopy
  <2>1. unit.pc = "copy" /\ Left(unit) \in Nat /\ Left(unit) >= 5 + MaxDelete
    BY <1>1, <1>4, LeftIs DEF EndCopy, At
  <2>2. CASE Goto("delete")
    <3>1. unit'.pc = "delete"
      BY <1>1, <2>2, GotoIs DEF Labels
    <3>2. Left(unit') = 4 + MaxDelete - unit'.deleted /\ unit'.deleted \in 0..MaxDelete
      BY <1>1, <3>1, LeftIs
    <3> QED BY <1>1, <2>1, <3>2
  <2>3. CASE Stop(23)
    <3>1. unit'.pc = "stop"
      BY <2>3, StopIs DEF Exits
    <3>2. Left(unit') = 3 /\ Left(unit) \in Nat
      BY <1>1, <3>1, LeftIs
    <3> QED BY <1>1, <2>1, <3>2
  <2> QED BY <1>4, <2>2, <2>3 DEF EndCopy
<1>5. CASE EndDelete
  <2>1. unit'.pc = "stop" /\ unit.pc = "delete"
    BY <1>5, AtRestIs DEF EndDelete, Stop, UnitSet, At
  <2>2. Left(unit') = 3
    BY <1>1, <2>1, LeftIs
  <2>3. Left(unit) = 4 + MaxDelete - unit.deleted /\ unit.deleted \in 0..MaxDelete
    BY <1>1, <2>1, LeftIs
  <2> QED BY <1>1, <2>2, <2>3
<1>6. CASE ParseExitCode
  <2>1. unit.pc = "stop" /\ unit'.pc \in {"rest", "emit"}
    <3>1. Rest(FALSE) \/ unit' = [unit EXCEPT !.pc = "emit", !.at = now]
      BY <1>6 DEF ParseExitCode
    <3> QED BY <1>1, <1>6, <3>1, RestIs DEF ParseExitCode, At, UnitSet
  <2>2. Left(unit) = 3
    BY <1>1, <2>1, LeftIs
  <2>3. Left(unit') \in {0, 2}
    BY <1>1, <2>1, LeftIs
  <2> QED BY <2>2, <2>3
<1>7. CASE WriteTmp
  <2>1. PICK l : unit' = [unit EXCEPT !.pc = "tmp", !.last = l]
    BY <1>7 DEF WriteTmp
  <2>2. unit.pc = "emit" /\ unit'.pc = "tmp"
    BY <1>1, <1>7, <2>1 DEF WriteTmp, At, UnitSet
  <2>3. Left(unit) = 2
    BY <1>1, <2>2, LeftIs
  <2>4. Left(unit') = 1
    BY <1>1, <2>2, LeftIs
  <2> QED BY <2>3, <2>4
<1>8. CASE Replace
  <2>1. unit.pc = "tmp" /\ unit'.pc = "rest"
    BY <1>1, <1>8, RestIs DEF Replace, At
  <2>2. Left(unit) = 1
    BY <1>1, <2>1, LeftIs
  <2>3. Left(unit') = 0
    BY <1>1, <2>1, LeftIs
  <2> QED BY <2>2, <2>3
<1>9. CASE ReadCrashes
  <2>1. unit.pc = "emit" /\ unit'.pc = "rest"
    BY <1>1, <1>9, RestIs DEF ReadCrashes, At
  <2>2. Left(unit) = 2
    BY <1>1, <2>1, LeftIs
  <2>3. Left(unit') = 0
    BY <1>1, <2>1, LeftIs
  <2> QED BY <2>2, <2>3
<1> QED BY <1>2, <1>3, <1>4, <1>5, <1>6, <1>7, <1>8, <1>9 DEF UnitStep, RunStarts

(* A kill, a crash or a broken connection only brings the end nearer.      *)
LEMMA OtherLeft ==
    ASSUME IInv, IInv', [Next]_vars, ~UnitStep, ~RunStarts
    PROVE  Left(unit') <= Left(unit)
<1>1. unit \in UnitSet /\ unit' \in UnitSet /\ Left(unit) \in Nat
  BY Typed, LeftIs DEF IInv, TypeOK, UnitSet, Labels, Exits
<1>2. CASE UNCHANGED unit
  <2>1. unit' = unit
    BY <1>2
  <2> QED BY <1>1, <2>1
<1>3. CASE BreakStep
  <2>1. unit.pc \in {"copy", "delete"} /\ unit'.pc = "stop"
    BY <1>3, StopIs DEF BreakStep, Killed, Broken, Exits
  <2>2. Left(unit') = 3
    BY <1>1, <2>1, LeftIs
  <2>3. Left(unit) >= 3
    <3>1. unit.deleted \in 0..MaxDelete /\ MaxDelete \in Nat
          /\ (unit.pc = "copy" => /\ Left(unit) = 5 + MaxDelete + Cardinality(unit.todo)
                                  /\ Cardinality(unit.todo) \in Nat)
          /\ (unit.pc = "delete" => Left(unit) = 4 + MaxDelete - unit.deleted)
      BY <1>1, LeftIs, SyncAssumption
    <3>2. CASE unit.pc = "copy"
      BY <3>1, <3>2
    <3>3. CASE unit.pc = "delete"
      BY <3>1, <3>3
    <3> QED BY <2>1, <3>2, <3>3
  <2> QED BY <2>2, <2>3
<1>4. CASE EmitDies \/ HostCrash
  <2>1. unit'.pc = "rest"
    BY <1>1, <1>4, AtRestIs, RestIs DEF EmitDies, HostCrash
  <2>2. Left(unit') = 0
    BY <1>1, <2>1, LeftIs
  <2> QED BY <1>1, <2>2
<1>5. ASSUME NEW x \in Shards, CopyFails(x) PROVE Left(unit') < Left(unit)
  <2>1. At("copy") /\ x \in unit.todo /\ Done(x, {23}) /\ {23} \in SUBSET {23, 24}
    BY <1>5 DEF CopyFails
  <2> QED BY <1>1, <2>1, DoneLeft
<1>6. CASE \E x \in Shards : CopyFails(x)
  <2>1. Left(unit') < Left(unit) /\ Left(unit') \in Nat
    BY <1>1, <1>5, <1>6, LeftIs
  <2> QED BY <1>1, <2>1
<1>7. CASE Tick \/ Age \/ StoreStep \/ LoseMetric \/ \E x \in Shards : Export(x) \/ Evict(x)
  BY <1>2, <1>7 DEF Tick, Age, StoreStep, LoseMetric, Export, Evict, Attach, Probe,
              CreateView, DropTable, CreateTable, CreateEmptyView, Close, AttachFails, syncVars
<1>8. CASE UNCHANGED vars
  BY <1>2, <1>8 DEF vars
<1> QED BY <1>3, <1>4, <1>6, <1>7, <1>8, Steps DEF UnitStep, CopyStep

GetsOn ==
    /\ Left(unit) \in Nat
    /\ ~RunStarts => Left(unit') <= Left(unit)
    /\ UnitStep /\ ~RunStarts => Left(unit') < Left(unit)

RunsGetOn == [][GetsOn]_vars

(* A run of the unit takes at most 5 + MaxDelete + Cardinality(todo) steps *)
(* of its own before the timer's next start, whatever happens beside it.   *)
THEOREM EveryRunEnds == Spec => RunsGetOn
<1>1. ASSUME IInv, [Next]_vars PROVE GetsOn
  <2>1. IInv'
    BY <1>1, NextIInv
  <2>2. Left(unit) \in Nat /\ Left(unit') \in Nat
    BY <1>1, <2>1, Typed, LeftIs DEF IInv, TypeOK, UnitSet, Labels, Exits
  <2>3. UnitStep /\ ~RunStarts => Left(unit') < Left(unit)
    BY <1>1, <2>1, StepLeft
  <2>4. ~UnitStep /\ ~RunStarts => Left(unit') <= Left(unit)
    BY <1>1, <2>1, OtherLeft
  <2> QED BY <2>2, <2>3, <2>4 DEF GetsOn
<1> QED BY <1>1, Inductive, PTL DEF Spec, RunsGetOn
=============================================================================
