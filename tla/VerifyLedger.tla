---------------------------- MODULE VerifyLedger ----------------------------
(***************************************************************************)
(* scripts/verify_ledger.py against a table that LedgerClient wrote and    *)
(* something else changed since: edited columns, deleted rows.             *)
(*                                                                         *)
(* verify_chain reads the rows once, ORDER BY id, and walks them with the  *)
(* hash the next row must carry; main turns the mismatches into a verdict  *)
(* and, when asked, computes the segment of the current month.  The script *)
(* opens the database read-write, so no writer runs beside it; when a      *)
(* writer holds the file already, opening fails.                           *)
(***************************************************************************)
EXTENDS HashChain, FiniteSets

CONSTANTS MaxId,    \* bound: ids of the table
          Bodies,   \* the hashed columns of a row other than prev_hash
          Junk,     \* a value no hash of the table has
          Policy,   \* POLICY_VERSION_SHA of the archive and of this build
          MaxEdits  \* bound: changes made behind the ledger's back

ASSUME VerifyAssumption == MaxId \in Nat /\ MaxEdits \in Nat

VARIABLES rows,     \* pre_trade_ledger_raw: id -> [body, prev, hash, month]
          archive,  \* segment_hash of the closed month, NoHash before that
          touched,  \* observer: ids edited, and ids next to deleted rows
          edits,    \* observer: changes made behind the ledger's back
          lost,     \* observer: months that rows were deleted from
          pc,       \* "ledger", "walk", "report", "done"
          todo,     \* ids of the fetched rows the loop has not visited
          lastThis, \* last_this of verify_chain
          reports,  \* mismatches: {[id, kind]}
          verdict   \* of the stdout JSON; the exit code is 0 iff it is "OK"

vars == <<rows, archive, touched, edits, lost, pc, todo, lastThis, reports, verdict>>

Ids == DOMAIN rows

Init ==
    /\ rows = <<>> /\ archive = NoHash
    /\ touched = {} /\ edits = 0 /\ lost = {}
    /\ pc = "ledger" /\ todo = {} /\ lastThis = NoHash /\ reports = {}
    /\ verdict = "none"

(***************************************************************************)
(* The table before the verifier runs.                                     *)
(***************************************************************************)
(* LedgerClient: genesis, then rows chained to the tip; ids may skip.      *)
AppendRow(id, body) ==
    /\ pc = "ledger" /\ edits = 0
    /\ IF Ids = {} THEN id = 1 ELSE \A i \in Ids : i < id
    /\ \E prev \in IF Ids = {} THEN {NoHash}
                  ELSE {rows[t].hash : t \in {x \in Ids : \A i \in Ids : i <= x}} :
         rows' = [i \in Ids \cup {id} |->
                    IF i # id THEN rows[i] ELSE
                      [body |-> body, prev |-> prev, hash |-> EntryHash(prev, body),
                       month |-> IF archive = NoHash THEN "closed" ELSE "current"]]
    /\ UNCHANGED <<archive, touched, edits, lost, pc, todo, lastThis, reports,
                   verdict>>

(* The month ends: monthly_ledger_chain publishes its segment hash.        *)
MonthIds(month) == {i \in Ids : rows[i].month = month}

Publish ==
    /\ pc = "ledger" /\ edits = 0 /\ archive = NoHash
    /\ archive' = SegmentHash(NoHash, MonthIds("closed"), Policy)
    /\ UNCHANGED <<rows, touched, edits, lost, pc, todo, lastThis, reports, verdict>>

(* Something other than LedgerClient changes one hashed column of a row.   *)
EditColumn(k) ==
    /\ pc = "ledger" /\ edits < MaxEdits
    /\ \/ \E b \in Bodies : rows' = [rows EXCEPT ![k].body = b]
       \/ \E h \in {Junk} \cup {rows[i].hash : i \in Ids} :
            \/ rows' = [rows EXCEPT ![k].hash = h]
            \/ k # 1 /\ rows' = [rows EXCEPT ![k].prev = h]
       \/ k # 1 /\ rows' = [rows EXCEPT ![k].prev = EmptyHash]
    /\ rows' # rows
    /\ edits' = edits + 1 /\ touched' = touched \cup {k}
    /\ UNCHANGED <<archive, lost, pc, todo, lastThis, reports, verdict>>

(* ... or deletes a row; the row after it is the one to look at.           *)
DeleteRow(k) ==
    /\ pc = "ledger" /\ edits < MaxEdits
    /\ rows' = [i \in Ids \ {k} |-> rows[i]]
    /\ edits' = edits + 1 /\ lost' = lost \cup {rows[k].month}
    /\ touched' = touched \cup {i \in Ids : IsPredecessorIn(rows, k, i)}
    /\ UNCHANGED <<archive, pc, todo, lastThis, reports, verdict>>

(***************************************************************************)
(* The verifier.                                                           *)
(***************************************************************************)
(* open_decisions_duckdb, then the SELECT ... ORDER BY id of verify_chain. *)
Fetch ==
    /\ pc = "ledger"
    /\ pc' = "walk" /\ todo' = Ids /\ lastThis' = NoHash
    /\ UNCHANGED <<rows, archive, touched, edits, lost, reports, verdict>>

(* Any exception inside the with block, from a locked file to a malformed  *)
(* --prev-segment-json, overrides the verdict.                             *)
Fail ==
    /\ pc \in {"ledger", "report"}
    /\ pc' = "done" /\ verdict' = "VERIFY_FAILED"
    /\ UNCHANGED <<rows, archive, touched, edits, lost, todo, lastThis, reports>>

ExpectedThis(i) == EntryHash(rows[i].prev, rows[i].body)

GenesisOk(i) == i = 1 /\ rows[i].prev = NoHash /\ lastThis = NoHash

(* Both checks run on every row; the next row is compared with the         *)
(* recomputed hash of this one, whether or not the stored one agrees.      *)
PrevBreak_SkipFirst(i) == lastThis # NoHash /\ rows[i].prev # lastThis
PrevBreak(i) == rows[i].prev # lastThis /\ ~GenesisOk(i)

Mismatches(i) ==
    (IF PrevBreak(i) THEN {[id |-> i, kind |-> "prev_hash_chain_break"]} ELSE {})
    \cup
    (IF rows[i].hash # ExpectedThis(i)
     THEN {[id |-> i, kind |-> "this_hash_mismatch"]} ELSE {})

Carry_Constant(i) == lastThis
Carry(i) == IF rows[i].hash # ExpectedThis(i) THEN ExpectedThis(i) ELSE rows[i].hash

Walk ==
    /\ pc = "walk"
    /\ \E i \in todo :
         /\ \A j \in todo : i <= j
         /\ reports' = reports \cup Mismatches(i)
         /\ lastThis' = Carry(i)
         /\ todo' = todo \ {i}
    /\ UNCHANGED <<rows, archive, touched, edits, lost, pc, verdict>>

EndWalk ==
    /\ pc = "walk" /\ todo = {}
    /\ pc' = "report"
    /\ verdict' = IF reports # {} THEN "CHAIN_BROKEN" ELSE "OK"
    /\ UNCHANGED <<rows, archive, touched, edits, lost, todo, lastThis, reports>>

(* With --prev-segment-json the month's segment hash, over the given one,  *)
(* is computed and printed; the verdict does not depend on it.             *)
Report ==
    /\ pc = "report" /\ pc' = "done"
    /\ UNCHANGED <<rows, archive, touched, edits, lost, todo, lastThis, reports,
                   verdict>>

Next ==
    \/ \E id \in 1..MaxId, body \in Bodies : AppendRow(id, body)
    \/ Publish
    \/ \E k \in Ids : EditColumn(k) \/ DeleteRow(k)
    \/ Fetch \/ Fail \/ Walk \/ EndWalk \/ Report

Spec == Init /\ [][Next]_vars

(***************************************************************************)
(* Properties                                                              *)
(***************************************************************************)
(* The walk, which carries one hash from row to row, decides exactly       *)
(* whether the table is a whole chain: no false alarm, no miss.            *)
VerdictIsExact ==
    pc = "done" /\ verdict # "VERIFY_FAILED" =>
      (verdict = "OK" <=> WholeChain(rows))

(* A single changed column is reported; so is a single deleted row, unless *)
(* it was the last one: then the table is a whole chain again.             *)
SingleEditIsReported ==
    pc = "done" /\ edits = 1 /\ touched # {} => verdict # "OK"

(* A mismatch does not avalanche (the comment of verify_chain): a report   *)
(* names a changed row, the row after one, or the row after a deleted one. *)
ReportsAreLocal ==
    \A r \in reports : \/ r.id \in touched
                       \/ \E p \in touched : IsPredecessorIn(rows, p, r.id)

(* What the walk cannot see of the closed month its archive can: a single  *)
(* change that passes, of a ledger whose month was published, is a deleted *)
(* row, and the month's ids no longer give the published hash unless the   *)
(* row was one of the current month.                                       *)
ArchiveSeesTheRest ==
    pc = "done" /\ verdict = "OK" /\ edits = 1 /\ archive # NoHash =>
      \/ lost = {"current"}
      \/ archive # SegmentHash(NoHash, MonthIds("closed"), Policy)
=============================================================================
