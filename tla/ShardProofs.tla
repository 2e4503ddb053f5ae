----------------------------- MODULE ShardProofs -----------------------------
(***************************************************************************)
(* The hourly export, for any number of tables, symbols, rows, kills and   *)
(* power cuts: success means complete, tmp files need a kill, and shards   *)
(* are whole and frozen but for what a power cut finds unsynced.  The      *)
(* invariant says how far the running export is: the tables it is done     *)
(* with are complete, and of the current one the symbols it is done with.  *)
(***************************************************************************)
EXTENDS ShardExport, FiniteSetTheorems, WellFoundedInduction, TLAPS

(* The tree is always seen with what of it is on the disk.                 *)
USE DEF Files

Working == job.pc \in {"table", "symbol", "write", "replace"}
InLoop == job.pc \in {"symbol", "write", "replace"}
Writing == job.pc \in {"write", "replace"}

(* Shards hold rows of the database, never more than there are; a torn one *)
(* was written for rows, and needs a power cut.                            *)
FilesOfRows ==
    \A x \in Shards :
        /\ rows[x] <= inserts
        /\ \/ file[x] <= rows[x]
           \/ file[x] = Torn /\ rows[x] > 0 /\ cuts > 0
        /\ x \in unsynced => rows[x] > 0

Same(t, s) == file[<<t, s>>] = rows[<<t, s>>]

Progress ==
    Working => /\ job.todo \subseteq job.tables
               /\ InLoop => job.table \in Tables
               /\ ~InLoop => job.syms = {}
               /\ \A t \in job.tables \ job.todo, s \in Symbols :
                      (t = job.table /\ s \in job.syms) \/ Same(t, s)

Fresh == Writing => file[Current] = 0

FewOrphans == cuts = 0 => IsFiniteSet(orphans) /\ Cardinality(orphans) <= kills

(* The symbols of the running loop have rows: the query found them, and    *)
(* nothing is inserted while the export holds the database.                *)
Found == InLoop => \A s \in job.syms : rows[<<job.table, s>>] > 0

IInv ==
    /\ TypeOK
    /\ FilesOfRows
    /\ Progress
    /\ Fresh
    /\ SuccessMeansComplete
    /\ FewOrphans

(* The first element of a set of tables or symbols exists and is the least.*)
LEMMA FirstIsIn ==
    ASSUME NEW S \in SUBSET Nat, S # {}
    PROVE  First(S) \in S /\ \A m \in S : First(S) <= m
<1>1. PICK x \in S : \A y \in S : ~ (<<y, x>> \in OpToRel(<, Nat))
  BY NatLessThanWellFounded, WFMin
<1>2. ASSUME NEW y \in S PROVE x <= y
  <2>1. <<y, x>> \in Nat \X Nat
    OBVIOUS
  <2>2. ~(y < x)
    BY <1>1, <2>1, Zenon DEF OpToRel
  <2> QED BY <2>2
<1> QED BY <1>2 DEF First

LEMMA CurrentIsShard ==
    ASSUME IInv, InLoop
    PROVE  /\ First(job.syms) \in job.syms /\ First(job.syms) \in Symbols
           /\ job.table \in Tables /\ Current \in Shards
<1>1. job.syms \in SUBSET Symbols /\ job.syms # {}
  BY DEF IInv, TypeOK, InLoop, At
<1>2. job.syms \in SUBSET Nat
  BY <1>1, ShardAssumption DEF Symbols
<1>3. First(job.syms) \in job.syms
  BY <1>1, <1>2, FirstIsIn
<1>4. job.table \in Tables
  BY DEF IInv, Progress, Working, InLoop
<1> QED BY <1>1, <1>3, <1>4 DEF Current, Shards

LEMMA InitIInv == Init => IInv
<1> SUFFICES ASSUME Init PROVE IInv
  OBVIOUS
<1>1. TypeOK
  BY ShardAssumption DEF Init, TypeOK, Idle, Shards, Torn, At, NoExit, Tables
<1>2. FewOrphans
  BY FS_EmptySet DEF Init, FewOrphans
<1> QED
  BY <1>1, <1>2 DEF Init, Idle, IInv, FilesOfRows, Progress, Working, Fresh, Writing,
                    SuccessMeansComplete, At

LEMMA InsertIInv ==
    ASSUME IInv, NEW x \in Shards, Insert(x) PROVE IInv'
<1>1. TypeOK'
  BY ShardAssumption DEF IInv, TypeOK, FilesOfRows, Insert, Torn, At
<1>2. FilesOfRows'
  BY ShardAssumption DEF IInv, TypeOK, FilesOfRows, Insert, Torn
<1> QED
  BY <1>1, <1>2 DEF IInv, Insert, Progress, Working, Fresh, Writing, At,
                    SuccessMeansComplete, FewOrphans

(* A new run has done nothing and owes every table it was asked for.       *)
LEMMA StartIInv ==
    ASSUME IInv, NEW mode \in {"fail", "check"}, NEW tables \in SUBSET Tables,
           Run(mode, tables) \/ DbLocked(mode, tables)
    PROVE  IInv'
<1>1. UNCHANGED <<rows, Files, orphans, inserts, kills, cuts>>
  BY DEF Run, DbLocked
<1>2. CASE Run(mode, tables)
  <2>1. job' = [pc |-> "table", mode |-> mode, tables |-> tables, table |-> 0,
                todo |-> tables, syms |-> {}, exit |-> 99]
    BY <1>2 DEF Run, Idle, NoExit
  <2>2. TypeOK'
    BY <1>1, <2>1, ShardAssumption DEF IInv, TypeOK, At, NoExit
  <2>3. Progress' /\ Fresh' /\ SuccessMeansComplete'
    BY <2>1 DEF Progress, Working, InLoop, Fresh, Writing, At, SuccessMeansComplete
  <2> QED
    BY <1>1, <2>2, <2>3 DEF IInv, FilesOfRows, FewOrphans
<1>3. CASE DbLocked(mode, tables)
  <2>1. job' = [pc |-> "exit", mode |-> mode, tables |-> tables, table |-> 0,
                todo |-> {}, syms |-> {}, exit |-> 3]
    BY <1>3 DEF DbLocked, Idle, NoExit
  <2>2. TypeOK'
    BY <1>1, <2>1, ShardAssumption DEF IInv, TypeOK, At, NoExit
  <2>3. Progress' /\ Fresh' /\ SuccessMeansComplete'
    BY <2>1 DEF Progress, Working, InLoop, Fresh, Writing, At, SuccessMeansComplete
  <2> QED
    BY <1>1, <2>2, <2>3 DEF IInv, FilesOfRows, FewOrphans
<1> QED BY <1>2, <1>3

LEMMA ExitIInv == ASSUME IInv, Exit PROVE IInv'
<1>1. TypeOK'
  BY ShardAssumption DEF IInv, TypeOK, Exit, Idle, At, NoExit
<1> QED
  BY <1>1 DEF IInv, Exit, Idle, FilesOfRows, Progress, Working, Fresh, Writing, At,
              SuccessMeansComplete, FewOrphans

(* A run that ends with some exit code keeps the types.                    *)
LEMMA FailType ==
    ASSUME TypeOK, NEW code \in {0, 1, 4, 130}, Fail(code),
           UNCHANGED <<rows, Files, orphans, inserts, kills, cuts>>
    PROVE  TypeOK' /\ job'.pc = "exit" /\ job'.exit = code
<1>1. job'.pc = "exit" /\ job'.exit = code
  BY DEF TypeOK, Fail
<1>2. job' \in [pc : {"idle", "table", "symbol", "write", "replace", "exit"},
                mode : {"fail", "check"}, tables : SUBSET Tables,
                table : 0..NTables, todo : SUBSET Tables,
                syms : SUBSET Symbols, exit : {0, 1, 3, 4, 130, NoExit}]
  BY DEF TypeOK, Fail
<1> QED BY <1>1, <1>2 DEF TypeOK, At

(* A refused, failed or terminated run owes nothing any more.              *)
LEMMA FailIInv ==
    ASSUME IInv, NEW code \in {1, 4, 130}, Fail(code),
           UNCHANGED <<rows, Files, orphans, inserts, kills, cuts>>
    PROVE  IInv'
<1>1. TypeOK' /\ job'.pc = "exit" /\ job'.exit = code
  BY FailType DEF IInv
<1> QED
  BY <1>1 DEF IInv, FilesOfRows, Progress, Working, Fresh, Writing,
              SuccessMeansComplete, FewOrphans

(* The end of a run, when no table is left, is where success is reported;  *)
(* a symbol the query does not find has no row, so it owes no shard.       *)
LEMMA NextTableIInv == ASSUME IInv, NextTable PROVE IInv'
<1>1. FilesOfRows' /\ FewOrphans' /\ Working
  BY DEF IInv, NextTable, FilesOfRows, FewOrphans, Working, At
<1>2. CASE job.todo = {}
  <2>1. TypeOK'
    BY <1>1, <1>2, FailType DEF IInv, NextTable
  <2>2. \A t \in job.tables, s \in Symbols : Same(t, s)
    BY <1>1, <1>2 DEF IInv, Progress, NextTable, InLoop, At
  <2>3. SuccessMeansComplete'
    <3>1. job'.tables = job.tables /\ file' = file /\ rows' = rows
      BY <1>2 DEF IInv, TypeOK, NextTable, Fail
    <3> QED BY <2>2, <3>1 DEF SuccessMeansComplete, Same
  <2> QED
    BY <1>1, <1>2, <2>1, <2>3
       DEF IInv, TypeOK, NextTable, Fail, Progress, Working, Fresh, Writing
<1>3. CASE job.todo # {}
  <2> DEFINE t == First(job.todo)
             found == {s \in Symbols : rows[<<t, s>>] > 0}
  <2>1. t \in job.todo /\ t \in Tables /\ t \in job.tables
    <3>1. job.todo \in SUBSET Nat /\ job.todo \subseteq Tables
      BY ShardAssumption DEF IInv, TypeOK, Tables
    <3>2. job.todo \subseteq job.tables
      BY <1>1 DEF IInv, Progress
    <3> QED BY <1>3, <3>1, <3>2, FirstIsIn
  <2> HIDE DEF t
  <2>2. job' = [job EXCEPT !.todo = @ \ {t}, !.table = t, !.syms = found,
                           !.pc = IF found = {} THEN "table" ELSE "symbol"]
    BY <1>3 DEF NextTable, t
  <2>3. UNCHANGED <<rows, Files, orphans, inserts, kills, cuts>>
    BY DEF NextTable
  <2>4. TypeOK'
    <3>1. t \in 0..NTables /\ found \subseteq Symbols
      BY <2>1, ShardAssumption DEF Tables
    <3> HIDE DEF found
    <3> QED BY <2>2, <2>3, <3>1 DEF IInv, TypeOK, At
  <2>5. \A s \in Symbols \ found : Same(t, s)
    <3> SUFFICES ASSUME NEW s \in Symbols \ found PROVE Same(t, s)
      OBVIOUS
    <3>1. <<t, s>> \in Shards
      BY <2>1 DEF Shards
    <3> QED BY <3>1, ShardAssumption DEF IInv, TypeOK, FilesOfRows, Same, Torn
  <2>6. \A u \in job.tables \ job.todo, s \in Symbols : Same(u, s)
    BY <1>1 DEF IInv, Progress, NextTable, InLoop, At
  <2> HIDE DEF found
  <2>7. job \in [pc : {"idle", "table", "symbol", "write", "replace", "exit"},
                 mode : {"fail", "check"}, tables : SUBSET Tables,
                 table : 0..NTables, todo : SUBSET Tables,
                 syms : SUBSET Symbols, exit : {0, 1, 3, 4, 130, NoExit}]
    BY DEF IInv, TypeOK
  <2>8. /\ job'.todo = job.todo \ {t} /\ job'.table = t /\ job'.syms = found
        /\ job'.tables = job.tables
        /\ job'.pc = IF found = {} THEN "table" ELSE "symbol"
    BY <2>2, <2>7
  <2>9. Progress'
    <3>1. job.todo \subseteq job.tables
      BY <1>1 DEF IInv, Progress
    <3>2. \A u, s : Same(u, s)' <=> Same(u, s)
      BY <2>3 DEF Same
    <3> QED BY <2>1, <2>5, <2>6, <2>8, <3>1, <3>2 DEF Progress, Working, InLoop
  <2>10. Fresh' /\ SuccessMeansComplete'
    BY <2>8 DEF Fresh, Writing, SuccessMeansComplete, At
  <2> QED BY <1>1, <2>4, <2>9, <2>10 DEF IInv
<1> QED BY <1>2, <1>3

(* A symbol is done with when its file holds its rows: written just now,   *)
(* or found equal by a check.                                              *)
LEMMA SymbolDone ==
    ASSUME IInv, InLoop, job' = NextSymbol,
           file' = [file EXCEPT ![Current] = rows[Current]],
           \/ UNCHANGED unsynced
           \/ unsynced' = unsynced \cup {Current} /\ rows[Current] > 0,
           UNCHANGED <<rows, orphans, inserts, kills, cuts>>
    PROVE  IInv'
<1> DEFINE first == First(job.syms)
           rest == job.syms \ {first}
<1>1. first \in job.syms /\ first \in Symbols /\ job.table \in Tables
      /\ Current = <<job.table, first>> /\ Current \in Shards
  BY CurrentIsShard DEF Current
<1>2. /\ job'.syms = rest /\ job'.table = job.table /\ job'.todo = job.todo
      /\ job'.tables = job.tables
      /\ job'.pc = IF rest = {} THEN "table" ELSE "symbol"
  BY DEF IInv, TypeOK, NextSymbol
<1>3. TypeOK'
  <2>1. rest \subseteq Symbols
    BY DEF IInv, TypeOK
  <2>2. job' = [job EXCEPT !.syms = rest,
                           !.pc = IF rest = {} THEN "table" ELSE "symbol"]
    BY DEF NextSymbol
  <2> HIDE DEF rest
  <2>3. job' \in [pc : {"idle", "table", "symbol", "write", "replace", "exit"},
                  mode : {"fail", "check"}, tables : SUBSET Tables,
                  table : 0..NTables, todo : SUBSET Tables,
                  syms : SUBSET Symbols, exit : {0, 1, 3, 4, 130, NoExit}]
    BY <2>1, <2>2 DEF IInv, TypeOK
  <2>4. file' \in [Shards -> 0..Torn]
    BY <1>1, ShardAssumption DEF IInv, TypeOK, Torn
  <2> QED BY <1>2, <2>3, <2>4 DEF IInv, TypeOK, At
<1>4. FilesOfRows'
  BY <1>1, ShardAssumption DEF IInv, TypeOK, FilesOfRows, Torn
<1>5. ASSUME NEW t \in Tables, NEW s \in Symbols, Same(t, s) \/ <<t, s>> = Current
      PROVE  Same(t, s)'
  <2>1. <<t, s>> \in Shards
    BY DEF Shards
  <2> QED BY <1>1, <1>5, <2>1 DEF IInv, TypeOK, Same
<1>6. Progress'
  <2>1. Working
    BY DEF InLoop, Working
  <2>2. ASSUME NEW t \in job.tables \ job.todo, NEW s \in Symbols
        PROVE  (t = job.table /\ s \in rest) \/ Same(t, s)'
    <3>1. (t = job.table /\ s \in job.syms) \/ Same(t, s)
      BY <2>1 DEF IInv, Progress
    <3>2. t \in Tables
      BY DEF IInv, TypeOK
    <3> QED BY <1>1, <1>5, <3>1, <3>2
  <2>3. job.todo \subseteq job.tables
    BY <2>1 DEF IInv, Progress
  <2> HIDE DEF rest
  <2> QED BY <1>1, <1>2, <2>2, <2>3 DEF Progress, Working, InLoop
<1>7. Fresh' /\ SuccessMeansComplete'
  BY <1>2 DEF Fresh, Writing, SuccessMeansComplete, At
<1> QED BY <1>3, <1>4, <1>6, <1>7 DEF IInv, FewOrphans

(* Only the position of the run changes: to the write of a new shard, or   *)
(* from it to the replace.                                                 *)
LEMMA OnToWriting ==
    ASSUME IInv, InLoop, file[Current] = 0,
           NEW label \in {"write", "replace"}, job' = [job EXCEPT !.pc = label],
           UNCHANGED <<rows, Files, orphans, inserts, kills, cuts>>
    PROVE  IInv'
<1>1. /\ job'.syms = job.syms /\ job'.table = job.table /\ job'.todo = job.todo
      /\ job'.tables = job.tables /\ job'.pc = label
  BY DEF IInv, TypeOK
<1>2. TypeOK'
  <2>1. job' \in [pc : {"idle", "table", "symbol", "write", "replace", "exit"},
                  mode : {"fail", "check"}, tables : SUBSET Tables,
                  table : 0..NTables, todo : SUBSET Tables,
                  syms : SUBSET Symbols, exit : {0, 1, 3, 4, 130, NoExit}]
    BY DEF IInv, TypeOK
  <2>2. job.syms # {}
    BY CurrentIsShard
  <2> QED BY <1>1, <2>1, <2>2 DEF IInv, TypeOK
<1>3. Progress'
  BY <1>1 DEF IInv, Progress, Working, InLoop, Same
<1>4. Fresh' /\ SuccessMeansComplete'
  BY <1>1 DEF Fresh, Current, SuccessMeansComplete, At
<1> QED BY <1>2, <1>3, <1>4 DEF IInv, FilesOfRows, FewOrphans

LEMMA SymbolIInv == ASSUME IInv, Symbol PROVE IInv'
<1>1. InLoop /\ UNCHANGED <<rows, Files, orphans, inserts, kills, cuts>>
  BY DEF Symbol, InLoop, At
<1>2. CASE Fail(4) \/ Fail(1)
  BY <1>1, <1>2, FailIInv
<1>3. CASE ~Exists(Current) /\ job' = [job EXCEPT !.pc = "write"]
  BY <1>1, <1>3, OnToWriting DEF Exists
<1>4. CASE DataEquals(Current) /\ job' = NextSymbol
  <2>1. file' = [file EXCEPT ![Current] = rows[Current]]
    BY <1>1, <1>4, CurrentIsShard DEF IInv, TypeOK, DataEquals
  <2> QED BY <1>1, <1>4, <2>1, SymbolDone
<1> QED BY <1>2, <1>3, <1>4 DEF Symbol

LEMMA WriteTmpIInv == ASSUME IInv, WriteTmp PROVE IInv'
<1>1. InLoop /\ file[Current] = 0
  BY DEF IInv, Fresh, Writing, WriteTmp, InLoop, At
<1> QED BY <1>1, OnToWriting DEF WriteTmp

LEMMA ReplaceIInv == ASSUME IInv, Found, Replace PROVE IInv'
<1>1. InLoop
  BY DEF Replace, InLoop, At
<1>2. rows[Current] > 0
  BY <1>1, CurrentIsShard DEF Found, Current
<1> QED BY <1>1, <1>2, SymbolDone DEF Replace

LEMMA FailuresIInv == ASSUME IInv, WriteFails \/ Term PROVE IInv'
BY FailIInv DEF WriteFails, Term, CleanUp

(* One kill leaves one tmp file at most.                                   *)
LEMMA KillIInv == ASSUME IInv, Kill PROVE IInv'
<1>1. /\ job' = Idle /\ kills' = kills + 1 /\ kills < MaxKills
      /\ UNCHANGED <<rows, Files, inserts, cuts>>
  BY DEF Kill
<1>2. FewOrphans' /\ orphans' \subseteq Shards
  <2>1. CASE At("replace")
    <3>1. orphans' = orphans \cup {Current}
      BY <2>1 DEF Kill, TmpInUse
    <3>2. Current \in Shards
      BY <2>1, CurrentIsShard DEF InLoop, At
    <3>3. ASSUME cuts = 0
          PROVE  /\ IsFiniteSet(orphans') /\ Cardinality(orphans) \in Nat
                 /\ Cardinality(orphans') \in {Cardinality(orphans), Cardinality(orphans) + 1}
      BY <3>1, <3>3, FS_AddElement, FS_CardinalityType DEF IInv, FewOrphans
    <3> QED
      BY <1>1, <3>1, <3>2, <3>3, ShardAssumption DEF IInv, TypeOK, FewOrphans
  <2>2. CASE ~At("replace")
    <3>1. orphans' = orphans /\ (cuts = 0 => Cardinality(orphans) \in Nat)
      BY <2>2, FS_CardinalityType DEF Kill, TmpInUse, IInv, FewOrphans
    <3> QED BY <1>1, <3>1, ShardAssumption DEF IInv, TypeOK, FewOrphans
  <2> QED BY <2>1, <2>2
<1>3. TypeOK'
  BY <1>1, <1>2, ShardAssumption DEF IInv, TypeOK, Idle, At, NoExit
<1> QED
  BY <1>1, <1>2, <1>3 DEF IInv, Idle, FilesOfRows, Progress, Working, Fresh, Writing,
                          SuccessMeansComplete, At

LEMMA FlushIInv == ASSUME IInv, Flush PROVE IInv'
<1>1. unsynced' = {} /\ UNCHANGED <<rows, file, orphans, job, inserts, kills, cuts>>
  BY DEF Flush
<1> QED
  BY <1>1 DEF IInv, TypeOK, FilesOfRows, Progress, Working, InLoop, Same, Fresh, Writing,
              Current, SuccessMeansComplete, FewOrphans, At

(* A power cut ends every run; what it tears had been written for rows.    *)
LEMMA PowerCutIInv == ASSUME IInv, PowerCut PROVE IInv'
<1>1. /\ job' = Idle /\ cuts' = cuts + 1 /\ cuts < MaxCuts /\ unsynced' = {}
      /\ UNCHANGED <<rows, inserts, kills>>
  BY DEF PowerCut
<1>2. PICK torn \in SUBSET unsynced, undone \in SUBSET unsynced :
         /\ file' = [x \in Shards |-> IF x \in torn THEN Torn
                                      ELSE IF x \in undone THEN 0 ELSE file[x]]
         /\ \E left \in SUBSET (undone \cup TmpInUse) : orphans' = orphans \cup left
  BY DEF PowerCut
<1>3. orphans' \subseteq Shards
  <2>1. TmpInUse \subseteq Shards
    BY CurrentIsShard DEF TmpInUse, InLoop, At
  <2> QED BY <1>2, <2>1 DEF IInv, TypeOK
<1>4. file' \in [Shards -> 0..Torn]
  BY <1>2, ShardAssumption DEF IInv, TypeOK, Torn
<1>5. TypeOK'
  BY <1>1, <1>3, <1>4, ShardAssumption DEF IInv, TypeOK, Idle, At, NoExit
<1>6. FilesOfRows'
  <2> SUFFICES ASSUME NEW x \in Shards
               PROVE  /\ rows[x] <= inserts
                      /\ \/ file'[x] <= rows[x]
                         \/ file'[x] = Torn /\ rows[x] > 0 /\ cuts' > 0
    BY <1>1 DEF FilesOfRows
  <2>1. cuts \in Nat /\ cuts' > 0 /\ rows[x] \in Nat
    BY <1>1, ShardAssumption DEF IInv, TypeOK
  <2>2. CASE x \in torn
    BY <1>2, <2>1, <2>2 DEF IInv, FilesOfRows
  <2>3. CASE x \notin torn /\ x \in undone
    BY <1>2, <2>1, <2>3 DEF IInv, FilesOfRows
  <2>4. CASE x \notin torn /\ x \notin undone
    BY <1>2, <2>1, <2>4 DEF IInv, FilesOfRows
  <2> QED BY <2>2, <2>3, <2>4
<1>7. FewOrphans'
  BY <1>1, ShardAssumption DEF IInv, TypeOK, FewOrphans
<1> QED
  BY <1>1, <1>5, <1>6, <1>7 DEF IInv, Idle, Progress, Working, Fresh, Writing,
                                SuccessMeansComplete, At

(* What the query found stays found.                                       *)
LEMMA FoundStep == ASSUME IInv, Found, [Next]_vars PROVE Found'
<1> USE DEF InLoop, At
<1>1. CASE \E x \in Shards : Insert(x)
  BY <1>1 DEF Insert, Found
<1>2. CASE NextTable
  <2> DEFINE t == First(job.todo)
             found == {s \in Symbols : rows[<<t, s>>] > 0}
  <2>1. CASE job.todo = {}
    BY <1>2, <2>1 DEF NextTable, Fail, IInv, TypeOK, Found
  <2>2. CASE job.todo # {}
    <3>1. job'.table = t /\ job'.syms = found /\ rows' = rows
      BY <1>2, <2>2 DEF NextTable, IInv, TypeOK
    <3> QED BY <3>1 DEF Found
  <2> QED BY <2>1, <2>2
<1>3. ASSUME InLoop, rows' = rows, job' = NextSymbol PROVE Found'
  <2>1. job'.table = job.table /\ job'.syms \subseteq job.syms
    BY <1>3 DEF NextSymbol, IInv, TypeOK
  <2> QED BY <1>3, <2>1 DEF Found
<1>4. CASE Symbol
  <2>1. CASE job' = NextSymbol
    BY <1>3, <1>4, <2>1 DEF Symbol
  <2>2. CASE job' # NextSymbol
    BY <1>4, <2>2 DEF Symbol, Fail, IInv, TypeOK, Found
  <2> QED BY <2>1, <2>2
<1>5. CASE Replace
  BY <1>3, <1>5 DEF Replace
<1>6. CASE WriteTmp
  BY <1>6 DEF WriteTmp, IInv, TypeOK, Found
<1>7. CASE WriteFails \/ Term \/ Exit \/ Kill \/ PowerCut
  <2>1. job'.pc \in {"exit", "idle"}
    <3>1. CASE Exit \/ Kill \/ PowerCut
      BY <3>1 DEF Exit, Kill, PowerCut, Idle
    <3>2. ASSUME NEW code, Fail(code) PROVE job'.pc = "exit"
      BY <3>2 DEF Fail, IInv, TypeOK
    <3> QED BY <1>7, <3>1, <3>2 DEF WriteFails, Term
  <2> QED BY <2>1 DEF Found
<1>8. CASE \E mode \in {"fail", "check"}, tables \in SUBSET Tables \ {{}} :
               Run(mode, tables) \/ DbLocked(mode, tables)
  BY <1>8 DEF Run, DbLocked, Idle, Found
<1>9. CASE Flush \/ UNCHANGED vars
  BY <1>9 DEF Flush, vars, Found
<1> QED BY <1>1, <1>2, <1>4, <1>5, <1>6, <1>7, <1>8, <1>9 DEF Next

LEMMA NextIInv == ASSUME IInv, Found, [Next]_vars PROVE IInv'
<1>1. CASE \E x \in Shards : Insert(x)
  BY <1>1, InsertIInv
<1>2. CASE \E mode \in {"fail", "check"}, tables \in SUBSET Tables \ {{}} :
               Run(mode, tables) \/ DbLocked(mode, tables)
  BY <1>2, StartIInv
<1>3. CASE NextTable
  BY <1>3, NextTableIInv
<1>4. CASE Symbol
  BY <1>4, SymbolIInv
<1>5. CASE WriteTmp
  BY <1>5, WriteTmpIInv
<1>6. CASE Replace
  BY <1>6, ReplaceIInv
<1>7. CASE WriteFails \/ Term
  BY <1>7, FailuresIInv
<1>8. CASE Exit
  BY <1>8, ExitIInv
<1>9. CASE Kill
  BY <1>9, KillIInv
<1>10. CASE Flush
  BY <1>10, FlushIInv
<1>11. CASE PowerCut
  BY <1>11, PowerCutIInv
<1>12. CASE UNCHANGED vars
  BY <1>12 DEF vars, IInv, TypeOK, FilesOfRows, Progress, Working, InLoop, Same, Fresh,
               Writing, Current, SuccessMeansComplete, FewOrphans, At
<1> QED
  BY <1>1, <1>2, <1>3, <1>4, <1>5, <1>6, <1>7, <1>8, <1>9, <1>10, <1>11, <1>12 DEF Next

(* The inductive invariant holds in every state of the hour.               *)
THEOREM ShardInvariant == Spec => [](IInv /\ Found)
<1>1. Init => Found
  BY DEF Init, Idle, Found, InLoop, At
<1> QED BY <1>1, InitIInv, NextIInv, FoundStep, PTL DEF Spec

(* The states of the export are those its type says.                       *)
THEOREM ShardTypes == Spec => []TypeOK
<1>1. IInv => TypeOK
  BY DEF IInv
<1> QED BY <1>1, ShardInvariant, PTL

(* No failure, signal or kill of an export leaves half a shard under a     *)
(* final name: a file holds rows of the database, and one that is torn was *)
(* torn by a power cut.                                                    *)
THEOREM OnlyPowerCutsTear == Spec => [](cuts = 0 => NoTornShard)
<1>1. IInv => (cuts = 0 => NoTornShard)
  BY ShardAssumption DEF IInv, TypeOK, FilesOfRows, NoTornShard, Torn
<1> QED BY <1>1, ShardInvariant, PTL

(* Exit 0 means complete, over any number of tables, symbols and runs.     *)
THEOREM ExitZeroIsComplete == Spec => []SuccessMeansComplete
<1>1. IInv => SuccessMeansComplete
  BY DEF IInv
<1> QED BY <1>1, ShardInvariant, PTL

(* At most one tmp file is left behind by a kill, none by anything else.   *)
THEOREM OrphansAreOfKills == Spec => []OrphansNeedAKill
<1>1. IInv => OrphansNeedAKill
  BY DEF IInv, FewOrphans, OrphansNeedAKill
<1> QED BY <1>1, ShardInvariant, PTL

(* A power cut takes only what was not on the disk.                        *)
LEMMA PowerCutTakes ==
    ASSUME TypeOK, PowerCut
    PROVE  cuts' > cuts /\ \A x \in Shards \ unsynced : file'[x] = file[x]
<1>1. cuts' = cuts + 1 /\ cuts \in Nat
  BY ShardAssumption DEF PowerCut, TypeOK
<1>2. PICK torn \in SUBSET unsynced, undone \in SUBSET unsynced :
         file' = [x \in Shards |-> IF x \in torn THEN Torn
                                  ELSE IF x \in undone THEN 0 ELSE file[x]]
  BY DEF PowerCut
<1> QED BY <1>1, <1>2

(* A shard that exists is never changed or removed: the only step that     *)
(* writes a final name found none under it, and holds the lock since.      *)
THEOREM ShardsFrozen == Spec => ShardsAreFrozen
<1>1. ASSUME IInv, [Next]_vars
      PROVE  [\A x \in Shards : file[x] # 0 =>
                 file'[x] = file[x] \/ (cuts' > cuts /\ x \in unsynced)]_vars
  <2>1. CASE Replace
    <3>1. file[Current] = 0 /\ Current \in Shards
      BY <1>1, <2>1, CurrentIsShard DEF IInv, Fresh, Writing, InLoop, Replace, At
    <3> QED BY <1>1, <2>1, <3>1 DEF IInv, TypeOK, Replace
  <2>2. CASE PowerCut
    BY <1>1, <2>2, PowerCutTakes DEF IInv
  <2>3. CASE ~Replace /\ ~PowerCut
    BY <1>1, <2>3 DEF Next, vars, Insert, Run, DbLocked, NextTable, Symbol, WriteTmp,
                      WriteFails, Exit, Term, Kill, Flush
  <2> QED BY <2>1, <2>2, <2>3
<1> QED BY <1>1, ShardInvariant, PTL DEF Spec, ShardsAreFrozen

(* A step of the export is one of the write-once map of AbstractShards:    *)
(* whatever runs, fails or is killed, the tree only ever gains a whole     *)
(* shard under a name that had none.                                       *)
LEMMA TreeStep ==
    ASSUME IInv, Found, [Next]_vars, ~PowerCut
    PROVE  [Tree!Next]_file
<1>1. CASE Replace
  <2>1. file[Current] = 0 /\ Current \in Shards /\ job.syms \subseteq Symbols
        /\ job.table \in Tables /\ First(job.syms) \in job.syms
    BY <1>1, CurrentIsShard DEF IInv, TypeOK, Fresh, Writing, InLoop, Replace, At
  <2>2. rows[Current] \in 1..MaxRows
    <3>1. rows[Current] > 0
      BY <1>1, <2>1 DEF Found, InLoop, Replace, At, Current
    <3> QED BY <2>1, <3>1, ShardAssumption DEF IInv, TypeOK
  <2>3. file' = [file EXCEPT ![Current] = rows[Current]]
    BY <1>1 DEF Replace
  <2> HIDE DEF Current
  <2> QED BY <2>1, <2>2, <2>3 DEF Tree!Next, Tree!Write
<1>2. CASE ~Replace
  BY <1>2 DEF Next, vars, Insert, Run, DbLocked, NextTable, Symbol, WriteTmp,
              WriteFails, Exit, Term, Kill, Flush
<1> QED BY <1>1, <1>2

(* The export implements AbstractShards, which LoggerSync takes for its    *)
(* source, in every step but a power cut, and that takes only files that   *)
(* were not on the disk.                                                   *)
THEOREM ShardsImplementTree == Spec => ImplementsTree
<1>1. Init => Tree!Init
  BY DEF Init, Tree!Init
<1>2. ASSUME IInv, Found, [Next]_vars PROVE [Tree!Next \/ PowerCutStep]_file
  <2>1. CASE PowerCut
    BY <1>2, <2>1, PowerCutTakes DEF IInv, PowerCutStep
  <2>2. CASE ~PowerCut
    BY <1>2, <2>2, TreeStep
  <2> QED BY <2>1, <2>2
<1> QED BY <1>1, <1>2, ShardInvariant, PTL DEF Spec, ImplementsTree

(* So a Logger PC without power cuts is an implementation of AbstractShards*)
(* in full, however its exports run, fail and are killed.                  *)
THEOREM PoweredTreeIsWriteOnce == Spec /\ [][cuts' = cuts]_vars => Tree!Spec
<1>1. Init => Tree!Init
  BY DEF Init, Tree!Init
<1>2. ASSUME IInv, Found, [Next]_vars, [cuts' = cuts]_vars PROVE [Tree!Next]_file
  <2>1. ~PowerCut \/ UNCHANGED vars
    BY <1>2, ShardAssumption DEF IInv, TypeOK, PowerCut, vars
  <2> QED BY <1>2, <2>1, TreeStep DEF vars
<1> QED BY <1>1, <1>2, ShardInvariant, PTL DEF Spec, Tree!Spec
=============================================================================
