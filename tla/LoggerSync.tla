----------------------------- MODULE LoggerSync -----------------------------
(***************************************************************************)
(* The Trading PC's copy of the shard tree: athena-logger-sync.service,    *)
(* started every minute, runs rsync and then emit_logger_sync_metric; a    *)
(* FeatureStore attaches its views over the copy at any time.              *)
(*                                                                         *)
(* The Logger's tree is AbstractShards, which ShardExport implements while *)
(* the Logger PC has power, and retention evicts shards for good.  rsync   *)
(* and systemd are external, modelled from the options and comments of the *)
(* unit file.                                                              *)
(***************************************************************************)
EXTENDS Naturals, FiniteSets

CONSTANTS NTables,   \* tables, in the order in which views are attached
          Shards,    \* shards: <<table, hour>>
          MaxDelete, \* --max-delete
          MaxTime,   \* bound: the clock
          MaxFaults  \* bound: failures, kills, crashes and losses

ASSUME SyncAssumption ==
    /\ NTables \in Nat \ {0} /\ Shards \subseteq (1..NTables) \X Nat
    /\ IsFiniteSet(Shards)
    /\ MaxDelete \in Nat /\ MaxTime \in Nat \ {0} /\ MaxFaults \in Nat

Tables == 1..NTables
Absent == 0
Whole == 1
Torn == 2

VARIABLES source,  \* every shard the Logger ever exported
          evicted, \* those its retention removed
          mirror,  \* /data/parquet/ of the Trading PC
          unit,    \* the sync service
          metric,  \* athena_logger_sync.prom
          orphans, \* tmp files of dead emitters, by age
          store,   \* a FeatureStore of the Trading PC
          now,
          wipe,    \* observer: whether the run saw the Logger empty, how
                   \* many did, and the shards deleted and not copied since
          moved,   \* observer: the source changed since the run listed it,
                   \* or the run did not see it
          good,    \* observer: end of the last published success
          lost,    \* observer: the metric was lost after that
          faults   \* observer: faults so far

syncVars == <<source, evicted, mirror, wipe, unit, metric, orphans, now, moved, good,
              lost>>
vars == <<source, evicted, mirror, wipe, unit, metric, orphans, store, now, moved, good,
          lost, faults>>

Logger == INSTANCE AbstractShards WITH file <- source, Contents <- {Whole}

Listed == {x \in Shards : source[x] # Absent /\ x \notin evicted}
Mirrored == {x \in Shards : mirror[x] # Absent}
ShardsOf(t) == {x \in Mirrored : x[1] = t}

Signal == 1000  \* $EXIT_STATUS is the name of a signal
NoExit == 1001
NoMetric == [last |-> 0, code |-> NoExit, cut |-> FALSE]

AtRest == [pc |-> "rest", list |-> {}, todo |-> {}, flags |-> {}, deleted |-> 0,
           exit |-> NoExit, at |-> 0, last |-> 0, died |-> FALSE]
Closed == [pc |-> "closed", table |-> 1, opening |-> FALSE,
           view |-> [t \in Tables |-> "none"],
           failed |-> FALSE, bare |-> FALSE, touched |-> [t \in Tables |-> FALSE]]

Init ==
    /\ Logger!Init /\ evicted = {} /\ mirror = [x \in Shards |-> Absent]
    /\ wipe = [on |-> FALSE, runs |-> 0, gone |-> {}]
    /\ unit = AtRest /\ metric = NoMetric /\ orphans = [young |-> 0, old |-> 0]
    /\ store = Closed /\ now = 1
    /\ moved = FALSE /\ good = 0 /\ lost = FALSE /\ faults = 0

At(label) == unit.pc = label
Goto(label) == unit' = [unit EXCEPT !.pc = label]
(* rsync ends, and its lists with it; the unit goes to ExecStopPost.       *)
Stop(code) == unit' = [AtRest EXCEPT !.pc = "stop", !.exit = code]
(* The unit is done with a run, whose emitter may have failed.             *)
Rest(died) == unit' = [AtRest EXCEPT !.exit = unit.exit, !.died = died]
Fault == faults < MaxFaults /\ faults' = faults + 1
NoFault == UNCHANGED faults

(***************************************************************************)
(* The Logger PC, and time.                                                *)
(***************************************************************************)
Export(x) ==
    /\ x \notin evicted /\ Logger!Write(x, Whole) /\ moved' = TRUE
    /\ UNCHANGED <<evicted, mirror, wipe, unit, metric, orphans, store, now, good, lost>>

Evict(x) ==
    /\ x \in Listed /\ evicted' = evicted \cup {x} /\ moved' = TRUE
    /\ UNCHANGED <<source, mirror, wipe, unit, metric, orphans, store, now, good, lost>>

Tick ==
    /\ now < MaxTime /\ now' = now + 1
    /\ UNCHANGED <<source, evicted, mirror, wipe, unit, metric, orphans, store, moved, good,
                   lost>>

(* _STALE_TMP_AGE_SECONDS go by.                                           *)
Age ==
    /\ orphans.young > 0
    /\ orphans' = [young |-> 0, old |-> orphans.old + orphans.young]
    /\ UNCHANGED <<source, evicted, mirror, wipe, unit, metric, store, now, moved, good,
                   lost>>

(***************************************************************************)
(* ExecStart: rsync -a --partial --partial-dir --delete-after --max-delete *)
(***************************************************************************)
(* rsync lists the source and compares.                                    *)
Run(list) ==
    /\ At("rest")
    /\ unit' = [AtRest EXCEPT !.pc = "copy", !.list = list,
                              !.todo = {x \in list : mirror[x] # source[x]}]
    /\ UNCHANGED <<source, evicted, mirror, metric, orphans, store, now, good, lost>>

TimerFires_OnceOnly ==
    /\ unit.exit = NoExit /\ Run(Listed)
    /\ moved' = FALSE /\ wipe' = [wipe EXCEPT !.on = FALSE]
(* The timer starts the unit.                                              *)
TimerFires ==
    /\ Run(Listed)
    /\ moved' = FALSE /\ wipe' = [wipe EXCEPT !.on = FALSE]

(* It does, and the Logger PC appears empty.                               *)
AppearsEmpty ==
    /\ Run({})
    /\ moved' = TRUE /\ wipe' = [wipe EXCEPT !.on = TRUE, !.runs = @ + 1]

(* Observer: the tree changed under a view, and the table being attached   *)
(* may have lost its last shard.                                           *)
Touch(x) ==
    store' = [store EXCEPT !.touched[x[1]] = TRUE,
        !.bare = \/ @
                 \/ /\ store.pc = "create"
                    /\ \A y \in Shards : y[1] = store.table => mirror'[y] = Absent]

Done(x, flags) == unit' = [unit EXCEPT !.todo = @ \ {x}, !.flags = @ \cup flags]

(* A file is renamed to its name when all of it has arrived.               *)
Copy(x) ==
    /\ At("copy") /\ x \in unit.todo \cap Listed
    /\ mirror' = [mirror EXCEPT ![x] = source[x]] /\ Done(x, {}) /\ Touch(x)
    /\ wipe' = [wipe EXCEPT !.gone = @ \ {x}]
    /\ UNCHANGED <<source, evicted, metric, orphans, now, moved, good, lost>>

Vanished(x) ==
    /\ At("copy") /\ x \in unit.todo \cap evicted /\ Done(x, {24})
    /\ UNCHANGED <<source, evicted, mirror, wipe, metric, orphans, store, now, moved, good,
                   lost>>

CopyFails(x) ==
    /\ At("copy") /\ x \in unit.todo /\ Done(x, {23})
    /\ UNCHANGED <<source, evicted, mirror, wipe, metric, orphans, store, now, moved, good,
                   lost>>

Extras_Kept == {}
(* --delete-after: what the list did not have.                             *)
Extras == Mirrored \ unit.list

(* After an I/O error rsync may skip the deletions.                        *)
EndCopy ==
    /\ At("copy") /\ unit.todo = {}
    /\ \/ Goto("delete")
       \/ 23 \in unit.flags /\ Stop(23)
    /\ UNCHANGED <<source, evicted, mirror, wipe, metric, orphans, store, now, moved, good,
                   lost>>

CountDelete_Never == UNCHANGED unit
CountDelete == unit' = [unit EXCEPT !.deleted = @ + 1]

Delete(x) ==
    /\ At("delete") /\ x \in Extras /\ unit.deleted < MaxDelete
    /\ mirror' = [mirror EXCEPT ![x] = Absent] /\ CountDelete /\ Touch(x)
    /\ wipe' = [wipe EXCEPT !.gone = @ \cup {x}]
    /\ UNCHANGED <<source, evicted, metric, orphans, now, moved, good, lost>>

(* What rsync exits with: 23 partial, 24 vanished, 25 --max-delete reached.*)
RsyncExit(flags) ==
    CASE 23 \in flags -> 23 [] 24 \in flags -> 24 [] 25 \in flags -> 25 [] OTHER -> 0

EndDelete ==
    /\ At("delete") /\ (Extras = {} \/ unit.deleted = MaxDelete)
    /\ Stop(RsyncExit(unit.flags \cup (IF Extras = {} THEN {} ELSE {25})))
    /\ UNCHANGED <<source, evicted, mirror, wipe, metric, orphans, store, now, moved, good,
                   lost>>

PartialFile_InTree(x) == mirror' = [mirror EXCEPT ![x] = Torn] /\ Touch(x)
(* --partial-dir: what has arrived of a file is kept outside the tree.     *)
PartialFile(x) == UNCHANGED <<mirror, store>>

(* No connection (12), --timeout (30), or SIGTERM after TimeoutStartSec.   *)
Broken(code) ==
    /\ unit.pc \in {"copy", "delete"} /\ Stop(code)
    /\ IF unit.todo = {} THEN UNCHANGED <<mirror, store>>
       ELSE \E x \in unit.todo : PartialFile(x)
    /\ UNCHANGED <<source, evicted, wipe, metric, orphans, now, moved, good, lost>>

Killed ==
    /\ unit.pc \in {"copy", "delete"} /\ Stop(Signal)
    /\ UNCHANGED <<source, evicted, mirror, wipe, metric, orphans, store, now, moved, good,
                   lost>>

SuccessExitStatus == {0, 23, 24, 30}

(***************************************************************************)
(* ExecStopPost: emit_logger_sync_metric --exit-code $EXIT_STATUS          *)
(***************************************************************************)
(* argparse: int() of a signal's name raises, and nothing is written.      *)
ParseExitCode ==
    /\ At("stop")
    /\ IF unit.exit = Signal THEN Rest(FALSE)
       ELSE unit' = [unit EXCEPT !.pc = "emit", !.at = now]
    /\ UNCHANGED <<source, evicted, mirror, wipe, metric, orphans, store, now, moved, good,
                   lost>>

SuccessExitCodes == {0, 23, 24, 30}

ReadPrev_Never(m) == 0
(* _read_prev_last_success: 0 for a file that is missing or unreadable.    *)
ReadPrev(m) == m.last

Sweep_Never(o) == o
Sweep(o) == [o EXCEPT !.old = 0]

(* A line that ends after its name has no second word: IndexError, which   *)
(* is not caught.                                                          *)
ReadCrashes ==
    /\ At("emit") /\ metric.cut /\ Rest(TRUE)
    /\ UNCHANGED <<source, evicted, mirror, wipe, metric, orphans, store, now, moved, good,
                   lost>>

(* The old file is read and stale tmp files go; the body is in a tmp file. *)
WriteTmp ==
    /\ At("emit") /\ ~metric.cut
    /\ unit' = [unit EXCEPT !.pc = "tmp",
                   !.last = IF unit.exit \in SuccessExitCodes THEN unit.at ELSE ReadPrev(metric)]
    /\ orphans' = Sweep(orphans)
    /\ UNCHANGED <<source, evicted, mirror, wipe, metric, store, now, moved, good, lost>>

Replace ==
    /\ At("tmp") /\ Rest(FALSE)
    /\ metric' = [last |-> unit.last, code |-> unit.exit, cut |-> FALSE]
    /\ IF unit.exit \in SuccessExitStatus THEN good' = unit.at /\ lost' = FALSE
       ELSE UNCHANGED <<good, lost>>
    /\ UNCHANGED <<source, evicted, mirror, wipe, orphans, store, now, moved>>

(* A kill or a full disk; the tmp file stays.                              *)
EmitDies ==
    /\ unit.pc \in {"stop", "emit", "tmp"} /\ Rest(TRUE)
    /\ orphans' = [orphans EXCEPT !.young = IF At("tmp") THEN @ + 1 ELSE @]
    /\ UNCHANGED <<source, evicted, mirror, wipe, metric, store, now, moved, good, lost>>

(* The metric file is removed or damaged, by a power cut (nothing syncs    *)
(* it) or by hand: the stamp reads 0, or as fewer digits, or is cut off    *)
(* after its name.                                                         *)
LoseMetric ==
    /\ metric # NoMetric /\ lost' = TRUE
    /\ \/ \E n \in 0..metric.last : metric' = [NoMetric EXCEPT !.last = n]
       \/ metric' = [NoMetric EXCEPT !.cut = TRUE]
    /\ UNCHANGED <<source, evicted, mirror, wipe, unit, orphans, store, now, moved, good>>

(* OnBootSec starts the timer again after a crash of the host.             *)
HostCrash ==
    /\ unit' = AtRest /\ store' = Closed
    /\ orphans' = [orphans EXCEPT !.young = IF At("tmp") THEN @ + 1 ELSE @]
    /\ UNCHANGED <<source, evicted, mirror, wipe, metric, now, moved, good, lost>>

(***************************************************************************)
(* FeatureStore and attach_parquet_views                                   *)
(***************************************************************************)
Emptying == store.pc \in {"drop", "table", "empty"}
Attaching == store.pc \in {"probe", "create"} \/ Emptying

(* __init__, or refresh_views on a store that is there.                    *)
Attach ==
    /\ store.pc \in {"closed", "ready"}
    /\ store' = [store EXCEPT !.pc = "probe", !.table = 1, !.failed = FALSE,
                              !.opening = store.pc = "closed"]
    /\ UNCHANGED syncVars

(* _has_any_parquet of the table's directory.                              *)
Probe ==
    /\ store.pc = "probe"
    /\ store' = [store EXCEPT !.pc = IF ShardsOf(store.table) = {} THEN "drop" ELSE "create",
                              !.bare = ShardsOf(store.table) = {}]
    /\ UNCHANGED syncVars

NextTable_NoEnd(view) ==
    [store EXCEPT !.view[store.table] = view, !.table = @ + 1,
                  !.touched[store.table] = FALSE, !.bare = FALSE,
                  !.pc = "probe"]
NextTable(view) ==
    [store EXCEPT !.view[store.table] = view, !.table = @ + 1,
                  !.touched[store.table] = FALSE, !.bare = FALSE,
                  !.pc = IF store.table = NTables THEN "ready" ELSE "probe"]

(* The constructor closes the connection, refresh_views does not.          *)
Abort == store' = IF store.opening THEN Closed
                  ELSE [store EXCEPT !.pc = "ready", !.failed = TRUE]

CreateView_NoExcept ==
    /\ store.pc = "create"
    /\ IF ShardsOf(store.table) # {} THEN store' = NextTable("files") ELSE Abort
    /\ UNCHANGED syncVars
(* CREATE OR REPLACE VIEW; DuckDB's glob raises IOException if it finds    *)
(* nothing.                                                                *)
CreateView ==
    /\ store.pc = "create"
    /\ store' = IF ShardsOf(store.table) # {} THEN NextTable("files")
                ELSE [store EXCEPT !.pc = "drop"]
    /\ UNCHANGED syncVars

(* _create_empty_view: DROP TABLE takes the table from under the view that *)
(* an earlier attach put over it, CREATE TABLE puts it back, and CREATE    *)
(* VIEW is last.                                                           *)
Swap(label, old, new) ==
    store' = [store EXCEPT !.pc = label,
                 !.view[store.table] = IF @ = old THEN new ELSE @]
DropTable ==
    /\ store.pc = "drop" /\ Swap("table", "empty", "broken")
    /\ UNCHANGED syncVars
CreateTable ==
    /\ store.pc = "table" /\ Swap("empty", "broken", "empty")
    /\ UNCHANGED syncVars

CreateEmptyView_IfNone ==
    /\ store.pc = "empty"
    /\ store' = NextTable(IF store.view[store.table] = "none" THEN "empty"
                          ELSE store.view[store.table])
    /\ UNCHANGED syncVars
CreateEmptyView ==
    /\ store.pc = "empty" /\ store' = NextTable("empty")
    /\ UNCHANGED syncVars

(* Any other exception of DuckDB.                                          *)
AttachFails == Attaching /\ Abort /\ UNCHANGED syncVars

Close == store.pc = "ready" /\ store' = Closed /\ UNCHANGED syncVars

(***************************************************************************)
UnitStep ==
    \/ TimerFires \/ EndCopy \/ EndDelete
    \/ \E x \in Shards : Copy(x) \/ Vanished(x) \/ Delete(x)
    \/ ParseExitCode \/ ReadCrashes \/ WriteTmp \/ Replace

Next ==
    \/ NoFault /\ (UnitStep \/ Tick \/ Age \/ \E x \in Shards : Export(x) \/ Evict(x))
    \/ NoFault /\ \/ Attach \/ Probe \/ CreateView \/ DropTable \/ CreateTable
                  \/ CreateEmptyView \/ Close
    \/ Fault /\ \/ AppearsEmpty \/ Killed \/ EmitDies \/ LoseMetric \/ HostCrash
                \/ AttachFails
                \/ \E x \in Shards : CopyFails(x)
                \/ \E code \in {12, 20, 30} : Broken(code)

Spec == Init /\ [][Next]_vars

(* The timer starts the unit again after every run, whatever its result,   *)
(* and systemd and rsync finish what they began.                           *)
FairSpec == Spec /\ WF_vars(NoFault /\ UnitStep)

(***************************************************************************)
(* Properties                                                              *)
(***************************************************************************)
TypeOK ==
    /\ source \in [Shards -> {Absent, Whole}] /\ evicted \subseteq Shards
    /\ mirror \in [Shards -> {Absent, Whole, Torn}]
    /\ unit \in [pc : {"rest", "copy", "delete", "stop", "emit", "tmp"},
                 list : SUBSET Shards, todo : SUBSET Shards, flags : SUBSET {23, 24},
                 deleted : 0..MaxDelete, at : 0..MaxTime, last : 0..MaxTime,
                 exit : {0, 12, 20, 23, 24, 25, 30, Signal, NoExit}, died : BOOLEAN]
    /\ metric \in [last : 0..MaxTime, code : {0, 12, 20, 23, 24, 25, 30, NoExit},
                   cut : BOOLEAN]
    /\ orphans \in [young : Nat, old : Nat]
    /\ store \in [pc : {"closed", "probe", "create", "drop", "table", "empty", "ready"},
                  table : 1..(NTables + 1), opening : BOOLEAN,
                  view : [Tables -> {"none", "broken", "empty", "files"}],
                  failed : BOOLEAN, bare : BOOLEAN, touched : [Tables -> BOOLEAN]]
    /\ wipe \in [on : BOOLEAN, runs : Nat, gone : SUBSET Shards]
    /\ now \in 1..MaxTime /\ good \in 0..MaxTime
    /\ moved \in BOOLEAN /\ lost \in BOOLEAN /\ faults \in 0..MaxFaults

(* Whatever interrupts a transfer, a file under a shard's name is the      *)
(* whole shard the Logger exported, evicted since or not: the promise of   *)
(* the export survives the copy (athena-logger-sync.service:19-21).        *)
MirrorIsWhole == \A x \in Mirrored : mirror[x] = source[x]

(* The alert's gauge is the end of the last run that systemd counts as a   *)
(* success and whose metric landed: runs that fail, emitters that die and  *)
(* host crashes keep it, and a lost or damaged file cannot raise it.       *)
GaugeIsLastSuccess ==
    IF lost THEN metric.last <= good ELSE metric.last = good

(* An exit code 0 on the gauge, from a run whose emitter lived, says that  *)
(* the copy is the source's tree, if the run saw that and it has not moved *)
(* since.                                                                  *)
CleanGaugeMeansSynced ==
    At("rest") /\ unit.exit \notin {Signal, NoExit} /\ ~unit.died /\ metric.code = 0 /\ ~moved =>
        Mirrored = Listed

(* The list that --delete-after works from may be old when it does, the    *)
(* deletions of a run may stop anywhere, and the Logger may appear empty:  *)
(* the shards that retention did not evict and the copy lost are never     *)
(* more than MaxDelete for each run that saw the Logger empty              *)
(* (athena-logger-sync.service:15-18).                                     *)
WipeIsCapped == Cardinality(wipe.gone \ evicted) <= MaxDelete * wipe.runs

(* No attach makes up its views.  One over files reads a glob that matches *)
(* some until rsync touches the table again; an empty one is put only over *)
(* a table that had no shard at some moment of that very attach; and one   *)
(* whose table is gone is there only after an attach that failed.          *)
ViewsFollowTheTree ==
    /\ Emptying => store.bare
    /\ store.pc = "ready" => \A t \in Tables :
          /\ store.view[t] = "files" /\ ~store.touched[t] => ShardsOf(t) # {}
          /\ store.view[t] = "broken" => store.failed

(* parquet_reader.py:40-43: files that rsync adds between the probe and    *)
(* the view are handled, so that an empty view says that there are none    *)
(* until rsync touches the table again.                                    *)
EmptyViewsAreTrue ==
    store.pc = "ready" => \A t \in Tables :
        store.view[t] = "empty" /\ ~store.touched[t] => ShardsOf(t) = {}

(* Files that vanish between the probe and DuckDB's glob never end an      *)
(* attach early (parquet_reader.py:41-43).                                 *)
AttachSurvivesDeletes ==
    [][Attaching /\ store'.pc \in {"closed", "ready"} =>
          store.table = NTables \/ faults' > faults]_vars

(* Once the faults and the Logger's changes are over, the copy becomes and *)
(* stays the source's tree, in slices of MaxDelete, and the gauge the      *)
(* current time, unless the metric file was left cut: then no emitter ever *)
(* gets past it.                                                           *)
CatchesUp == <>[](Mirrored = Listed /\ (metric.cut \/ metric.last = now))

(* Tmp files of dead emitters are swept once they are old, unless none     *)
(* gets past the metric file.                                              *)
OrphansAreSwept == <>[](metric.cut \/ orphans.old = 0)
=============================================================================
