----------------------------- MODULE ShardExport -----------------------------
(***************************************************************************)
(* The hourly export of the feature store: export_parquet_shard runs       *)
(* export_hour_shard for each table, which writes one Parquet file per     *)
(* symbol of the hour.  A cron job or the operator runs it, in the default *)
(* mode ("fail") or with --check-only ("check"); DuckDB lets one process   *)
(* at a time open the database, the Logger daemon or an export.            *)
(*                                                                         *)
(* One hour is modelled.  The rows of a shard only grow, so its content is *)
(* the number of rows it holds; 0 is no file.                              *)
(*                                                                         *)
(* The export syncs neither the file nor its directory: until the kernel   *)
(* has written them back, a power cut may empty or cut a file that was     *)
(* renamed to its final name, or undo the rename.                          *)
(***************************************************************************)
EXTENDS Naturals, FiniteSets

CONSTANTS NTables,    \* tables, in the order of --tables
          NSymbols,   \* symbols, in the order of the query
          BadSymbols, \* those _validate_symbol refuses
          MaxRows,    \* bound: rows the Logger ever inserts into the hour
          MaxKills,   \* bound: processes killed
          MaxCuts     \* bound: power cuts

ASSUME ShardAssumption ==
    /\ NTables \in Nat \ {0} /\ NSymbols \in Nat \ {0}
    /\ BadSymbols \subseteq 1..NSymbols
    /\ MaxRows \in Nat /\ MaxKills \in Nat /\ MaxCuts \in Nat

Tables == 1..NTables
Symbols == 1..NSymbols
Shards == Tables \X Symbols
Torn == MaxRows + 1   \* content of a file that was cut short

VARIABLES rows,     \* rows of each shard in features_logger.duckdb
          file,     \* content of each shard's final file
          unsynced, \* final files that are not on the disk yet
          orphans,  \* tmp files that their process left behind
          job,      \* the running or last export
          inserts,  \* observer: rows inserted so far
          kills,    \* observer: processes killed so far
          cuts      \* observer: power cuts so far

vars == <<rows, file, unsynced, orphans, job, inserts, kills, cuts>>

Tree == INSTANCE AbstractShards WITH Absent <- 0, Contents <- 1..MaxRows

NoExit == 99
Idle == [pc |-> "idle", mode |-> "fail", tables |-> {}, table |-> 0,
         todo |-> {}, syms |-> {}, exit |-> NoExit]

Init ==
    /\ rows = [x \in Shards |-> 0] /\ file = [x \in Shards |-> 0]
    /\ unsynced = {} /\ orphans = {} /\ job = Idle
    /\ inserts = 0 /\ kills = 0 /\ cuts = 0

Files == <<file, unsynced>>
At(label) == job.pc = label
First(S) == CHOOSE n \in S : \A m \in S : n <= m
Current == <<job.table, First(job.syms)>>

(* The Logger daemon holds the database only between exports; rows may     *)
(* also come late, after the hour was exported.                            *)
Insert(x) ==
    /\ At("idle") /\ inserts < MaxRows
    /\ rows' = [rows EXCEPT ![x] = @ + 1] /\ inserts' = inserts + 1
    /\ UNCHANGED <<file, unsynced, orphans, job, kills, cuts>>

(***************************************************************************)
(* main                                                                    *)
(***************************************************************************)
Run(mode, tables) ==
    /\ At("idle")
    /\ job' = [Idle EXCEPT !.pc = "table", !.mode = mode, !.tables = tables,
                           !.todo = tables]
    /\ UNCHANGED <<rows, Files, orphans, inserts, kills, cuts>>

(* The daemon holds the lock: duckdb.IOException.                          *)
DbLocked(mode, tables) ==
    /\ At("idle")
    /\ job' = [Idle EXCEPT !.pc = "exit", !.mode = mode, !.tables = tables,
                           !.exit = 3]
    /\ UNCHANGED <<rows, Files, orphans, inserts, kills, cuts>>

Fail(code) == job' = [job EXCEPT !.pc = "exit", !.exit = code]

(* The process is gone and with it the lock.                               *)
Exit ==
    /\ At("exit")
    /\ job' = Idle
    /\ UNCHANGED <<rows, Files, orphans, inserts, kills, cuts>>

(***************************************************************************)
(* export_hour_shard                                                       *)
(***************************************************************************)
(* The query of one table: the symbols that have rows in the hour.         *)
NextTable ==
    /\ At("table")
    /\ IF job.todo = {} THEN Fail(0)
       ELSE LET t == First(job.todo)
                found == {s \in Symbols : rows[<<t, s>>] > 0}
            IN  job' = [job EXCEPT !.todo = @ \ {t}, !.table = t, !.syms = found,
                                   !.pc = IF found = {} THEN "table" ELSE "symbol"]
    /\ UNCHANGED <<rows, Files, orphans, inserts, kills, cuts>>

NextSymbol_NoEnd == [job EXCEPT !.syms = @ \ {First(@)}, !.pc = "symbol"]
(* The loop goes on to the next symbol, or the table is done.              *)
NextSymbol ==
    LET rest == job.syms \ {First(job.syms)}
    IN  [job EXCEPT !.syms = rest, !.pc = IF rest = {} THEN "table" ELSE "symbol"]

Exists(x) == file[x] # 0

DataEquals_Prefix(x) == file[x] <= rows[x]
DataEquals(x) == file[x] = rows[x]

(* The checks before a symbol is written, in the order of the code; a file *)
(* that is no Parquet raises when a check reads it.                        *)
Symbol ==
    /\ At("symbol")
    /\ IF First(job.syms) \in BadSymbols THEN Fail(4)
       ELSE IF ~Exists(Current) THEN job' = [job EXCEPT !.pc = "write"]
       ELSE IF job.mode = "fail" THEN Fail(1)
       ELSE IF file[Current] = Torn THEN Fail(4)
       ELSE IF DataEquals(Current) THEN job' = NextSymbol
       ELSE Fail(1)
    /\ UNCHANGED <<rows, Files, orphans, inserts, kills, cuts>>

WriteTmp_Direct ==
    /\ At("write") /\ job' = [job EXCEPT !.pc = "replace"]
    /\ file' = [file EXCEPT ![Current] = Torn] /\ unsynced' = unsynced \cup {Current}
    /\ UNCHANGED <<rows, orphans, inserts, kills, cuts>>
(* write_parquet fills the tmp file, which has its own name.               *)
WriteTmp ==
    /\ At("write") /\ job' = [job EXCEPT !.pc = "replace"]
    /\ UNCHANGED <<rows, Files, orphans, inserts, kills, cuts>>

(* tmp_file.replace(out_file), with no fsync before or after.              *)
Replace ==
    /\ At("replace") /\ job' = NextSymbol
    /\ file' = [file EXCEPT ![Current] = rows[Current]]
    /\ unsynced' = unsynced \cup {Current}
    /\ UNCHANGED <<rows, orphans, inserts, kills, cuts>>

CleanUp_ExceptionOnly(interrupt) ==
    orphans' = IF At("replace") /\ interrupt THEN orphans \cup {Current} ELSE orphans
(* except BaseException: the tmp file is unlinked, whatever the cause.     *)
CleanUp(interrupt) == UNCHANGED orphans

(* The disk is full, say, during the write or at the replace.              *)
WriteFails ==
    /\ job.pc \in {"write", "replace"} /\ CleanUp(FALSE) /\ Fail(4)
    /\ UNCHANGED <<rows, Files, inserts, kills, cuts>>

(* SIGTERM: SystemExit(130), raised wherever the export is.                *)
Term ==
    /\ job.pc \in {"table", "symbol", "write", "replace"}
    /\ CleanUp(TRUE) /\ Fail(130)
    /\ UNCHANGED <<rows, Files, inserts, kills, cuts>>

TmpInUse == IF At("replace") THEN {Current} ELSE {}

(* SIGKILL: no handler runs.                                               *)
Kill ==
    /\ job.pc \in {"table", "symbol", "write", "replace"} /\ kills < MaxKills
    /\ kills' = kills + 1 /\ job' = Idle
    /\ orphans' = orphans \cup TmpInUse
    /\ UNCHANGED <<rows, Files, inserts, cuts>>

(***************************************************************************)
(* The disk of the Logger PC                                               *)
(***************************************************************************)
(* The kernel writes back what it holds.                                   *)
Flush ==
    /\ unsynced # {} /\ unsynced' = {}
    /\ UNCHANGED <<rows, file, orphans, job, inserts, kills, cuts>>

(* Of the files not on the disk, any may be torn or renamed back; a tmp    *)
(* file may be left of those and of the one being written.                 *)
PowerCut ==
    /\ cuts < MaxCuts /\ cuts' = cuts + 1 /\ job' = Idle /\ unsynced' = {}
    /\ \E torn, undone \in SUBSET unsynced :
         /\ torn \cap undone = {}
         /\ file' = [x \in Shards |-> IF x \in torn THEN Torn
                                      ELSE IF x \in undone THEN 0 ELSE file[x]]
         /\ \E left \in SUBSET (undone \cup TmpInUse) : orphans' = orphans \cup left
    /\ UNCHANGED <<rows, inserts, kills>>

Next ==
    \/ \E x \in Shards : Insert(x)
    \/ \E mode \in {"fail", "check"}, tables \in SUBSET Tables \ {{}} :
           Run(mode, tables) \/ DbLocked(mode, tables)
    \/ NextTable \/ Symbol \/ WriteTmp \/ Replace \/ WriteFails
    \/ Exit \/ Term \/ Kill \/ Flush \/ PowerCut

Spec == Init /\ [][Next]_vars

(***************************************************************************)
(* Properties                                                              *)
(***************************************************************************)
TypeOK ==
    /\ rows \in [Shards -> 0..MaxRows] /\ file \in [Shards -> 0..Torn]
    /\ unsynced \subseteq Shards /\ orphans \subseteq Shards
    /\ job \in [pc : {"idle", "table", "symbol", "write", "replace", "exit"},
                mode : {"fail", "check"}, tables : SUBSET Tables,
                table : 0..NTables, todo : SUBSET Tables,
                syms : SUBSET Symbols, exit : {0, 1, 3, 4, 130, NoExit}]
    /\ At("symbol") \/ At("write") \/ At("replace") => job.syms # {}
    /\ inserts \in 0..MaxRows /\ kills \in 0..MaxKills /\ cuts \in 0..MaxCuts

(* parquet_shard.py:234-242: nothing, a power cut included, leaves half a  *)
(* shard under a final name, where it would block the hour.                *)
NoTornShard == \A x \in Shards : file[x] # Torn

(* Prior-hour files are never modified: no run of either mode, after any   *)
(* failure or late row, changes or removes a shard that is there; only a   *)
(* power cut may, and only what was not on the disk.                       *)
ShardsAreFrozen ==
    [][\A x \in Shards : file[x] # 0 =>
          file'[x] = file[x] \/ (cuts' > cuts /\ x \in unsynced)]_vars

(* Exit 0, of an export as of a check, means that every shard of the       *)
(* tables asked for is there and holds the rows of the database now,       *)
(* across partial earlier runs, late rows and what power cuts left.        *)
SuccessMeansComplete ==
    At("exit") /\ job.exit = 0 =>
        \A t \in job.tables, s \in Symbols : file[<<t, s>>] = rows[<<t, s>>]

(* Tmp files pile up only where no handler could run: a refused, failed or *)
(* terminated export leaves none.                                          *)
OrphansNeedAKill == cuts = 0 => Cardinality(orphans) <= kills

(* However many runs, failures and kills it takes, the tree is the         *)
(* write-once map that LoggerSync copies from, step by step, but for the   *)
(* power cuts, which take only what was not on the disk.                   *)
PowerCutStep == cuts' > cuts /\ \A x \in Shards \ unsynced : file'[x] = file[x]
ImplementsTree == Tree!Init /\ [][Tree!Next \/ PowerCutStep]_file

(* export_parquet_shard.py:92, of --check-only: "no writes".               *)
CheckWritesNothing == [][job.mode = "check" => UNCHANGED file]_vars
=============================================================================
