---------------------------- MODULE VerifyProofs ----------------------------
(***************************************************************************)
(* verify_chain decides exactly whether a table is a whole chain, for      *)
(* tables of any size and content.  The loop invariant: the rows visited   *)
(* are those below the rows to visit, last_this is the recomputed hash of  *)
(* the last one, and no mismatch was recorded so far iff all rows visited  *)
(* are linked and hashed correctly.  What one change does to a chain is    *)
(* ChainProofs' business; the last part here is about the changes.         *)
(***************************************************************************)
EXTENDS VerifyLedger, ChainProofs, TLAPS

IdsAreNat == Ids \subseteq Nat

Visited == Ids \ todo

RowOk(i) ==
    /\ rows[i].hash = ExpectedThis(i)
    /\ IF IsFirstIn(rows, i) THEN rows[i].prev = NoHash
       ELSE \E p \in Ids : IsPredecessorIn(rows, p, i) /\ rows[i].prev = rows[p].hash

IsLastVisited(m) == m \in Visited /\ \A i \in Visited : i <= m

LoopInv ==
    /\ todo \subseteq Ids
    /\ \A i \in Visited, j \in todo : i < j
    /\ \/ Visited = {} /\ lastThis = NoHash
       \/ \E m \in Visited : IsLastVisited(m) /\ lastThis = ExpectedThis(m)
    /\ reports = {} <=> \A i \in Visited : RowOk(i)

Decided == verdict = "OK" <=> WholeChain(rows)

VInv ==
    /\ IdsAreNat
    /\ pc = "ledger" => reports = {}
    /\ pc = "walk" => LoopInv
    /\ pc = "report" => Decided
    /\ pc = "done" /\ verdict # "VERIFY_FAILED" => Decided

(* A table is a whole chain iff every row of it is linked and hashed.      *)
LEMMA WholeChainByRow == WholeChain(rows) <=> \A i \in Ids : RowOk(i)
  BY DEF WholeChain, RowOk, ExpectedThis, Ids

(* On the first row, or after a row that was in order, the two checks of   *)
(* the loop find nothing iff the row is in order.                          *)
LEMMA MismatchesExact ==
    ASSUME IdsAreNat, LoopInv, NEW i \in todo, \A j \in todo : i <= j,
           \A v \in Visited : RowOk(v)
    PROVE  Mismatches(i) = {} <=> RowOk(i)
<1>1. Mismatches(i) = {} <=>
        /\ ~PrevBreak(i)
        /\ rows[i].hash = ExpectedThis(i)
  BY DEF Mismatches
<1>2. PrevBreak(i) <=> rows[i].prev # lastThis
  BY DEF PrevBreak, GenesisOk
<1>3. CASE Visited = {} /\ lastThis = NoHash
  <2>1. IsFirstIn(rows, i)
    BY <1>3 DEF IsFirstIn, Visited, Ids
  <2> QED BY <1>1, <1>2, <1>3, <2>1 DEF RowOk
<1>4. ASSUME NEW m \in Visited, IsLastVisited(m), lastThis = ExpectedThis(m)
      PROVE  Mismatches(i) = {} <=> RowOk(i)
  <2>1. i \in Ids /\ m \in Ids /\ m < i /\ i \in Nat /\ m \in Nat
    BY <1>4 DEF LoopInv, Visited, IdsAreNat
  <2>2. ~IsFirstIn(rows, i)
    BY <2>1 DEF IsFirstIn, Ids
  <2>3. IsPredecessorIn(rows, m, i)
    <3>1. ASSUME NEW j \in Ids, j < i PROVE j <= m
      <4>1. j \in Nat
        BY DEF IdsAreNat
      <4>2. j \notin todo
        BY <2>1, <3>1, <4>1
      <4> QED BY <1>4, <4>2 DEF IsLastVisited, Visited
    <3> QED BY <2>1, <3>1 DEF IsPredecessorIn, Ids
  <2>4. \A p \in Ids : IsPredecessorIn(rows, p, i) => p = m
    BY <2>1, <2>3 DEF IsPredecessorIn, Ids, IdsAreNat
  <2>5. lastThis = rows[m].hash
    BY <1>4 DEF RowOk
  <2> QED BY <1>1, <1>2, <2>1, <2>2, <2>3, <2>4, <2>5 DEF RowOk
<1> QED BY <1>3, <1>4 DEF LoopInv

(* One turn of the loop keeps the loop invariant.                          *)
LEMMA WalkKeepsLoopInv ==
    ASSUME IdsAreNat, LoopInv, Walk
    PROVE  LoopInv'
<1>1. PICK i \in todo : /\ \A j \in todo : i <= j
                        /\ reports' = reports \cup Mismatches(i)
                        /\ lastThis' = Carry(i)
                        /\ todo' = todo \ {i}
  BY DEF Walk
<1>2. UNCHANGED rows
  BY DEF Walk
<1>3. Visited' = Visited \cup {i} /\ todo' \subseteq Ids' /\ i \in Ids
  BY <1>1, <1>2 DEF Visited, Ids, LoopInv
<1>4. \A v \in Visited', j \in todo' : v < j
  BY <1>1, <1>3 DEF LoopInv, IdsAreNat
<1>5. Carry(i) = ExpectedThis(i)
  BY DEF Carry
<1>6. IsLastVisited(i)' /\ lastThis' = ExpectedThis(i)'
  <2>1. lastThis' = ExpectedThis(i)'
    BY <1>1, <1>2, <1>5 DEF ExpectedThis
  <2>2. \A v \in Visited : v <= i
    BY <1>3 DEF LoopInv, Visited, IdsAreNat
  <2>3. i \in Visited' /\ i <= i
    BY <1>3 DEF IdsAreNat
  <2> QED BY <1>3, <2>1, <2>2, <2>3 DEF IsLastVisited
<1>7. \A v \in Ids : RowOk(v)' <=> RowOk(v)
  BY <1>2 DEF RowOk, ExpectedThis, Ids
<1>8. reports' = {} <=> \A v \in Visited' : RowOk(v)'
  <2>1. CASE \A v \in Visited : RowOk(v)
    BY <1>1, <1>3, <1>7, <2>1, MismatchesExact DEF LoopInv, Visited
  <2>2. CASE ~(\A v \in Visited : RowOk(v))
    BY <1>1, <1>3, <1>7, <2>2 DEF LoopInv, Visited
  <2> QED BY <2>1, <2>2
<1> QED BY <1>3, <1>4, <1>6, <1>8 DEF LoopInv

LEMMA InitVInv == Init => VInv
  BY DEF Init, VInv, IdsAreNat, Ids

LEMMA NextVInv == VInv /\ [Next]_vars => VInv'
<1> SUFFICES ASSUME VInv, [Next]_vars PROVE VInv'
  OBVIOUS
<1>1. ASSUME NEW id \in 1..MaxId, NEW body \in Bodies, AppendRow(id, body)
      PROVE  VInv'
  <2>1. Ids' = Ids \cup {id} /\ pc' = "ledger" /\ UNCHANGED reports
    BY <1>1 DEF AppendRow, Ids
  <2>2. Ids' \subseteq Nat /\ reports = {}
    BY <1>1, <2>1, VerifyAssumption DEF VInv, IdsAreNat, AppendRow
  <2> QED BY <2>1, <2>2 DEF VInv, IdsAreNat
<1>2. CASE Publish
  BY <1>2 DEF Publish, VInv, IdsAreNat, Ids
<1>3. ASSUME NEW k \in Ids, EditColumn(k) \/ DeleteRow(k)
      PROVE  VInv'
  <2>1. Ids' \subseteq Ids /\ pc' = "ledger" /\ UNCHANGED reports
    BY <1>3 DEF EditColumn, DeleteRow, Ids
  <2> QED BY <1>3, <2>1 DEF VInv, IdsAreNat, EditColumn, DeleteRow
<1>4. CASE Fetch
  <2>1. LoopInv'
    BY <1>4 DEF Fetch, LoopInv, Visited, Ids, VInv
  <2> QED BY <1>4, <2>1 DEF Fetch, VInv, IdsAreNat, Ids
<1>5. CASE Fail
  BY <1>5 DEF Fail, VInv, IdsAreNat, Ids
<1>6. CASE Walk
  <2>1. LoopInv'
    BY <1>6, WalkKeepsLoopInv DEF Walk, VInv
  <2> QED BY <1>6, <2>1 DEF Walk, VInv, IdsAreNat, Ids
<1>7. CASE EndWalk
  <2>1. Visited = Ids /\ LoopInv
    BY <1>7 DEF EndWalk, VInv, Visited
  <2>2. reports = {} <=> WholeChain(rows)
    BY <2>1, WholeChainByRow DEF LoopInv
  <2>3. Decided'
    BY <1>7, <2>2 DEF EndWalk, Decided, WholeChain
  <2> QED BY <1>7, <2>3 DEF EndWalk, VInv, IdsAreNat, Ids
<1>8. CASE Report
  BY <1>8 DEF Report, VInv, IdsAreNat, Ids, Decided, WholeChain
<1>9. CASE UNCHANGED vars
  BY <1>9 DEF vars, VInv, IdsAreNat, Ids, Decided, WholeChain, LoopInv, Visited,
     RowOk, ExpectedThis, IsLastVisited
<1> QED BY <1>1, <1>2, <1>3, <1>4, <1>5, <1>6, <1>7, <1>8, <1>9 DEF Next

LEMMA InductiveV == Spec => []VInv
BY InitVInv, NextVInv, PTL DEF Spec

(* The verdict of verify_ledger is OK exactly for whole chains.            *)
THEOREM VerdictExact == Spec => []VerdictIsExact
<1>1. VInv => VerdictIsExact
  BY DEF VInv, VerdictIsExact, Decided
<1> QED BY <1>1, InductiveV, PTL

(***************************************************************************)
(* Reports are local.  A row that nobody touched hashes correctly, and     *)
(* carries the hash of its predecessor unless that one was touched.        *)
(***************************************************************************)
HashLocal == \A i \in Ids \ touched : rows[i].hash = ExpectedThis(i)

Linked(i) ==
    IF IsFirstIn(rows, i) THEN rows[i].prev = NoHash
    ELSE \E p \in Ids : IsPredecessorIn(rows, p, i)
                       /\ (p \in touched \/ rows[i].prev = rows[p].hash)

LinkLocal == \A i \in Ids \ touched : Linked(i)

LInv ==
    /\ edits \in Nat /\ (edits = 0 => touched = {})
    /\ HashLocal /\ LinkLocal /\ ReportsAreLocal

(* A row appended by LedgerClient is linked to the tip.                    *)
LEMMA AppendLInv ==
    ASSUME VInv, LInv, NEW id \in 1..MaxId, NEW body \in Bodies, AppendRow(id, body)
    PROVE  LInv'
<1>1. /\ pc = "ledger" /\ edits = 0 /\ UNCHANGED <<touched, edits, reports>>
      /\ IF Ids = {} THEN id = 1 ELSE \A i \in Ids : i < id
  BY DEF AppendRow
<1>2. PICK prev \in IF Ids = {} THEN {NoHash}
                   ELSE {rows[t].hash : t \in {x \in Ids : \A i \in Ids : i <= x}} :
         rows' = [i \in Ids \cup {id} |->
                    IF i # id THEN rows[i] ELSE
                      [body |-> body, prev |-> prev, hash |-> EntryHash(prev, body),
                       month |-> IF archive = NoHash THEN "closed" ELSE "current"]]
  BY DEF AppendRow
<1>3. /\ Ids' = Ids \cup {id} /\ Ids \subseteq Nat /\ id \in Nat /\ touched = {} /\ touched' = {}
      /\ reports = {} /\ reports' = {}
  BY <1>1, <1>2, VerifyAssumption DEF Ids, VInv, IdsAreNat, LInv
<1>4. id \notin Ids
  BY <1>1, <1>3
<1>5. /\ \A i \in Ids : rows'[i] = rows[i]
      /\ rows'[id].body = body /\ rows'[id].prev = prev /\ rows'[id].hash = EntryHash(prev, body)
  BY <1>2, <1>4
<1>6. HashLocal'
  BY <1>3, <1>5 DEF LInv, HashLocal, ExpectedThis
<1>7. \A i \in Ids : IsFirstIn(rows', i) <=> IsFirstIn(rows, i)
  BY <1>1, <1>3 DEF IsFirstIn, Ids
<1>8. \A i \in Ids, p \in Ids : IsPredecessorIn(rows', p, i) <=> IsPredecessorIn(rows, p, i)
  BY <1>1, <1>3 DEF IsPredecessorIn, Ids
<1>9. ASSUME NEW i \in Ids PROVE Linked(i)'
  BY <1>3, <1>5, <1>7, <1>8 DEF LInv, LinkLocal, Linked
<1>10. Linked(id)'
  <2>1. CASE Ids = {}
    BY <1>2, <1>3, <1>5, <2>1 DEF Linked, IsFirstIn, Ids
  <2>2. CASE Ids # {}
    <3>1. PICK t \in Ids : (\A i \in Ids : i <= t) /\ prev = rows[t].hash
      BY <1>2, <2>2
    <3>2. t < id /\ ~IsFirstIn(rows', id)
      BY <1>1, <1>3, <2>2, <3>1 DEF IsFirstIn, Ids
    <3>3. IsPredecessorIn(rows', t, id)
      BY <1>1, <1>3, <2>2, <3>1, <3>2 DEF IsPredecessorIn, Ids
    <3> QED BY <1>3, <1>5, <3>1, <3>2, <3>3 DEF Linked
  <2> QED BY <2>1, <2>2
<1>11. LinkLocal'
  BY <1>3, <1>9, <1>10 DEF LinkLocal
<1>12. ReportsAreLocal'
  BY <1>3 DEF ReportsAreLocal
<1> QED BY <1>1, <1>3, <1>6, <1>11, <1>12 DEF LInv

LEMMA EditLInv == ASSUME VInv, LInv, NEW k \in Ids, EditColumn(k) PROVE LInv'
<1>1. /\ pc = "ledger" /\ edits' = edits + 1 /\ touched' = touched \cup {k} /\ UNCHANGED reports
  BY DEF EditColumn
<1>2. Ids' = Ids /\ \A i \in Ids \ {k} : rows'[i] = rows[i]
  BY DEF EditColumn, Ids
<1>3. HashLocal'
  BY <1>1, <1>2 DEF LInv, HashLocal, ExpectedThis
<1>4. \A i : IsFirstIn(rows', i) <=> IsFirstIn(rows, i)
  BY <1>2 DEF IsFirstIn, Ids
<1>5. \A i, p : IsPredecessorIn(rows', p, i) <=> IsPredecessorIn(rows, p, i)
  BY <1>2 DEF IsPredecessorIn, Ids
<1>6. LinkLocal'
  BY <1>1, <1>2, <1>4, <1>5 DEF LInv, LinkLocal, Linked
<1>7. ReportsAreLocal'
  BY <1>1 DEF VInv, ReportsAreLocal
<1>8. edits' \in Nat /\ edits' # 0
  BY <1>1 DEF LInv
<1> QED BY <1>3, <1>6, <1>7, <1>8 DEF LInv

(* A deletion changes the predecessor only of the row after it.            *)
LEMMA DeleteLInv == ASSUME VInv, LInv, NEW k \in Ids, DeleteRow(k) PROVE LInv'
<1>1. /\ pc = "ledger" /\ edits' = edits + 1 /\ UNCHANGED reports
      /\ touched' = touched \cup {i \in Ids : IsPredecessorIn(rows, k, i)}
  BY DEF DeleteRow
<1>2. Ids' = Ids \ {k} /\ \A i \in Ids' : rows'[i] = rows[i]
  BY DEF DeleteRow, Ids
<1>3. Ids \subseteq Nat
  BY DEF VInv, IdsAreNat
<1>4. HashLocal'
  BY <1>1, <1>2 DEF LInv, HashLocal, ExpectedThis
<1>5. ASSUME NEW i \in Ids', i \notin touched' PROVE Linked(i)'
  <2>1. i \in Ids /\ i # k /\ i \notin touched /\ ~IsPredecessorIn(rows, k, i) /\ Linked(i)
    BY <1>1, <1>2, <1>5 DEF LInv, LinkLocal
  <2>2. CASE IsFirstIn(rows, i)
    BY <1>2, <2>1, <2>2 DEF Linked, IsFirstIn, Ids
  <2>3. CASE ~IsFirstIn(rows, i)
    <3>1. PICK p \in Ids : IsPredecessorIn(rows, p, i)
                           /\ (p \in touched \/ rows[i].prev = rows[p].hash)
      BY <2>1, <2>3 DEF Linked
    <3>2. p # k /\ p \in Ids'
      BY <1>2, <2>1, <3>1
    <3>3. IsPredecessorIn(rows', p, i)
      BY <1>2, <3>1, <3>2 DEF IsPredecessorIn, Ids
    <3>4. ~IsFirstIn(rows', i)
      BY <1>2, <1>3, <2>1, <3>1, <3>2 DEF IsPredecessorIn, IsFirstIn, Ids
    <3> QED BY <1>1, <1>2, <1>5, <3>1, <3>2, <3>3, <3>4 DEF Linked
  <2> QED BY <2>2, <2>3
<1>6. ReportsAreLocal'
  BY <1>1 DEF VInv, ReportsAreLocal
<1>7. edits' \in Nat /\ edits' # 0
  BY <1>1 DEF LInv
<1> QED BY <1>4, <1>5, <1>6, <1>7 DEF LInv, LinkLocal

(* An untouched row whose predecessor is untouched is not reported.        *)
LEMMA WalkLInv == ASSUME VInv, LInv, Walk PROVE LInv'
<1>1. PICK i \in todo : /\ \A j \in todo : i <= j
                        /\ reports' = reports \cup Mismatches(i)
  BY DEF Walk
<1>2. UNCHANGED <<rows, touched, edits>> /\ LoopInv
  BY DEF Walk, VInv
<1>3. i \in Ids /\ Ids \subseteq Nat
  BY <1>2 DEF LoopInv, VInv, IdsAreNat
<1>4. ASSUME i \notin touched, \A p \in touched : ~IsPredecessorIn(rows, p, i)
      PROVE  Mismatches(i) = {}
  <2>1. rows[i].hash = ExpectedThis(i) /\ Linked(i)
    BY <1>3, <1>4 DEF LInv, HashLocal, LinkLocal
  <2>2. rows[i].prev = lastThis
    <3>1. CASE Visited = {} /\ lastThis = NoHash
      <4>1. IsFirstIn(rows, i)
        BY <1>1, <3>1 DEF IsFirstIn, Visited, Ids
      <4> QED BY <2>1, <3>1, <4>1 DEF Linked
    <3>2. ASSUME NEW m \in Visited, IsLastVisited(m), lastThis = ExpectedThis(m)
          PROVE  rows[i].prev = lastThis
      <4>1. m \in Ids /\ m < i /\ i \in Nat /\ m \in Nat
        BY <1>2, <1>3, <3>2 DEF LoopInv, Visited
      <4>2. ~IsFirstIn(rows, i)
        BY <4>1 DEF IsFirstIn, Ids
      <4>3. PICK p \in Ids : IsPredecessorIn(rows, p, i) /\ rows[i].prev = rows[p].hash
        BY <1>4, <2>1, <4>2 DEF Linked
      <4>4. p = m
        <5>1. m <= p /\ p < i /\ p \in Nat
          BY <1>3, <4>1, <4>3 DEF IsPredecessorIn, Ids
        <5>2. p \notin todo
          BY <1>1, <1>3, <5>1
        <5>3. p <= m
          BY <3>2, <5>2 DEF IsLastVisited, Visited
        <5> QED BY <4>1, <5>1, <5>3
      <4>5. m \notin touched
        BY <1>4, <4>3, <4>4
      <4> QED BY <3>2, <4>1, <4>3, <4>4, <4>5 DEF LInv, HashLocal
    <3> QED BY <1>2, <3>1, <3>2 DEF LoopInv
  <2> QED BY <2>1, <2>2 DEF Mismatches, PrevBreak
<1>5. \A r \in Mismatches(i) : r.id = i
  BY DEF Mismatches
<1>6. ReportsAreLocal'
  BY <1>1, <1>2, <1>4, <1>5 DEF LInv, ReportsAreLocal
<1> QED BY <1>2, <1>6 DEF LInv, HashLocal, LinkLocal, Linked, ExpectedThis, Ids

LEMMA NextLInv == ASSUME VInv, LInv, [Next]_vars PROVE LInv'
<1>1. CASE UNCHANGED <<rows, touched, edits, reports>>
  BY <1>1 DEF LInv, HashLocal, LinkLocal, Linked, ExpectedThis, Ids, ReportsAreLocal
<1>2. ASSUME NEW id \in 1..MaxId, NEW body \in Bodies, AppendRow(id, body) PROVE LInv'
  BY <1>2, AppendLInv
<1>3. ASSUME NEW k \in Ids, EditColumn(k) \/ DeleteRow(k) PROVE LInv'
  BY <1>3, EditLInv, DeleteLInv
<1>4. CASE Walk
  BY <1>4, WalkLInv
<1> QED BY <1>1, <1>2, <1>3, <1>4
        DEF Next, vars, Publish, Fetch, Fail, EndWalk, Report

(* A report names a changed row, the row after one, or the row after a     *)
(* deleted one, however many changes were made.                            *)
THEOREM ReportsLocal == Spec => []ReportsAreLocal
<1>1. Init => LInv
  BY DEF Init, LInv, HashLocal, LinkLocal, Ids, ReportsAreLocal
<1>2. VInv /\ LInv /\ [Next]_vars => LInv'
  BY NextLInv
<1>3. LInv => ReportsAreLocal
  BY DEF LInv
<1> QED BY <1>1, <1>2, <1>3, InductiveV, PTL DEF Spec

(***************************************************************************)
(* One change.  The ledger is a whole chain that starts at id 1 until the  *)
(* first change; a first change that leaves it whole deleted its last row, *)
(* and the ids of the closed month, if the row was one of them, are no     *)
(* longer those its published segment was computed from.                   *)
(***************************************************************************)
IsRow(r) == r = [body |-> r.body, prev |-> r.prev, hash |-> r.hash, month |-> r.month]

ClosedSegment == SegmentHash(NoHash, MonthIds("closed"), Policy)

Untouched ==
    /\ lost = {} /\ WholeChain(rows)
    /\ Ids # {} => 1 \in Ids /\ \A i \in Ids : 1 <= i
    /\ archive # NoHash => archive = ClosedSegment

EditedOnce ==
    IF touched # {} THEN ~WholeChain(rows)
    ELSE lost = {"current"} \/ archive = NoHash \/ archive # ClosedSegment

CInv ==
    /\ rows = [i \in Ids |-> rows[i]]
    /\ \A i \in Ids : IsRow(rows[i]) /\ rows[i].month \in {"closed", "current"}
    /\ edits = 0 => Untouched
    /\ edits = 1 => EditedOnce

LEMMA ArchiveIsDigest == \A ids : SegmentHash(NoHash, ids, Policy) # NoHash
<1>1. ASSUME NEW ids PROVE SegmentHash(NoHash, ids, Policy) # NoHash
  <2>1. Len(<<EmptyHash, ids, Policy>>) = 3 /\ Len(<<>>) = 0
    OBVIOUS
  <2> QED BY <2>1 DEF SegmentHash, OrEmpty, NoHash
<1> QED BY <1>1

(* A row appended to a whole chain keeps it whole; it is not of the closed *)
(* month once that is published.                                           *)
LEMMA AppendCInv ==
    ASSUME VInv, LInv, CInv, NEW id \in 1..MaxId, NEW body \in Bodies, AppendRow(id, body)
    PROVE  CInv'
<1>1. /\ edits = 0 /\ UNCHANGED <<touched, edits, lost, archive>>
      /\ IF Ids = {} THEN id = 1 ELSE \A i \in Ids : i < id
  BY DEF AppendRow
<1>2. PICK prev \in IF Ids = {} THEN {NoHash}
                   ELSE {rows[t].hash : t \in {x \in Ids : \A i \in Ids : i <= x}} :
         rows' = [i \in Ids \cup {id} |->
                    IF i # id THEN rows[i] ELSE
                      [body |-> body, prev |-> prev, hash |-> EntryHash(prev, body),
                       month |-> IF archive = NoHash THEN "closed" ELSE "current"]]
  BY DEF AppendRow
<1>3. Ids' = Ids \cup {id} /\ Ids \subseteq Nat /\ id \in Nat /\ 1 <= id
  BY <1>2, VerifyAssumption DEF Ids, VInv, IdsAreNat
<1>4. id \notin Ids
  BY <1>1, <1>3
<1>5. PICK m : m = IF archive = NoHash THEN "closed" ELSE "current"
  OBVIOUS
<1>6. /\ \A i \in Ids : rows'[i] = rows[i]
      /\ rows'[id] = [body |-> body, prev |-> prev, hash |-> EntryHash(prev, body),
                      month |-> m]
  BY <1>2, <1>4, <1>5
<1>7. \A i \in Ids' : IsRow(rows'[i]) /\ rows'[i].month \in {"closed", "current"}
  <2>1. IsRow(rows'[id]) /\ rows'[id].month \in {"closed", "current"}
    BY <1>5, <1>6 DEF IsRow
  <2> QED BY <1>3, <1>6, <2>1 DEF CInv
<1>8. touched = {} /\ touched' = {}
  BY <1>1 DEF LInv
<1>9. WholeChain(rows')
  <2>1. LInv'
    BY AppendLInv
  <2>2. \A i \in Ids' : rows'[i].hash = EntryHash(rows'[i].prev, rows'[i].body)
    BY <1>8, <2>1 DEF LInv, HashLocal, ExpectedThis
  <2>3. \A i \in Ids' : IF IsFirstIn(rows', i) THEN rows'[i].prev = NoHash
                        ELSE \E p \in Ids' : /\ IsPredecessorIn(rows', p, i)
                                             /\ rows'[i].prev = rows'[p].hash
    BY <1>8, <2>1 DEF LInv, LinkLocal, Linked
  <2> QED BY <2>2, <2>3 DEF WholeChain, Ids
<1>10. 1 \in Ids' /\ \A i \in Ids' : 1 <= i
  BY <1>1, <1>3 DEF CInv, Untouched
<1>11. archive # NoHash => archive' = ClosedSegment'
  <2> SUFFICES ASSUME archive # NoHash PROVE archive' = ClosedSegment'
    OBVIOUS
  <2>1. rows'[id].month # "closed"
    <3>1. m = "current"
      BY <1>5
    <3> QED BY <1>6, <3>1
  <2>2. ASSUME NEW i \in Ids PROVE rows'[i].month = rows[i].month
    BY <1>6
  <2>3. ASSUME NEW i
        PROVE  (i \in Ids' /\ rows'[i].month = "closed")
                 <=> (i \in Ids /\ rows[i].month = "closed")
    BY <1>3, <2>1, <2>2
  <2>4. MonthIds("closed")' = MonthIds("closed")
    BY <2>3 DEF MonthIds
  <2> QED BY <1>1, <2>4 DEF CInv, Untouched, ClosedSegment
<1>12. rows' = [i \in Ids' |-> rows'[i]]
  BY <1>2 DEF Ids
<1> QED BY <1>1, <1>7, <1>9, <1>10, <1>11, <1>12 DEF CInv, Untouched

LEMMA PublishCInv == ASSUME VInv, LInv, CInv, Publish PROVE CInv'
<1>1. UNCHANGED <<rows, touched, edits, lost>> /\ edits = 0 /\ archive' = ClosedSegment
  BY DEF Publish, ClosedSegment
<1>2. ClosedSegment' = ClosedSegment
  BY <1>1 DEF ClosedSegment, MonthIds, Ids
<1> QED BY <1>1, <1>2 DEF CInv, Untouched, Ids

(* One changed column breaks a whole chain.                                *)
LEMMA EditCInv == ASSUME VInv, LInv, CInv, NEW k \in Ids, EditColumn(k) PROVE CInv'
<1>1. /\ edits' = edits + 1 /\ touched' = touched \cup {k} /\ UNCHANGED <<archive, lost>>
      /\ edits \in Nat
  BY DEF EditColumn, LInv
<1>2. /\ Ids' = Ids /\ \A i \in Ids \ {k} : rows'[i] = rows[i]
  BY DEF EditColumn, Ids
<1>3. PICK r : r = rows[k]
  OBVIOUS
<1>4. IsRow(r) /\ r.month \in {"closed", "current"}
  BY <1>3 DEF CInv
<1>5. PICK b, h, v : \/ rows' = [rows EXCEPT ![k].body = b]
                     \/ rows' = [rows EXCEPT ![k].hash = h]
                     \/ k # 1 /\ rows' = [rows EXCEPT ![k].prev = v]
  BY DEF EditColumn
<1>6. \/ rows'[k] = [r EXCEPT !.body = b]
      \/ rows'[k] = [r EXCEPT !.hash = h]
      \/ k # 1 /\ rows'[k] = [r EXCEPT !.prev = v]
  BY <1>3, <1>5 DEF Ids
<1>7. IsRow(rows'[k]) /\ rows'[k].month = r.month
  BY <1>4, <1>6 DEF IsRow
<1>8. /\ IsRow(rows'[k]) /\ rows'[k].month = r.month
      /\ \/ rows'[k].prev = r.prev /\ rows'[k].hash = r.hash
         \/ rows'[k].prev = r.prev /\ rows'[k].body = r.body
         \/ k # 1 /\ rows'[k].body = r.body /\ rows'[k].hash = r.hash
  BY <1>4, <1>6, <1>7 DEF IsRow
<1>9. rows' = [i \in Ids' |-> rows'[i]]
  <2>1. ASSUME NEW f, NEW g, NEW x, g = [f EXCEPT ![x] = g[x]]
        PROVE  g = [i \in DOMAIN g |-> g[i]]
    BY <2>1
  <2> QED BY <1>5, <2>1 DEF Ids
<1>10. rows'[k] # r
  <2>1. rows' # rows /\ DOMAIN rows' = DOMAIN rows
    BY <1>2 DEF EditColumn, Ids
  <2>2. rows = [i \in Ids |-> rows[i]] /\ rows' = [i \in Ids |-> rows'[i]]
    BY <1>2, <1>9 DEF CInv
  <2> QED BY <1>2, <1>3, <2>1, <2>2 DEF Ids
<1>11. \/ rows'[k].body # r.body /\ rows'[k].prev = r.prev /\ rows'[k].hash = r.hash
       \/ rows'[k].hash # r.hash /\ rows'[k].prev = r.prev /\ rows'[k].body = r.body
       \/ rows'[k].prev # r.prev /\ k # 1
  BY <1>4, <1>8, <1>10 DEF IsRow
<1>12. edits = 0 => ~WholeChain(rows')
  <2> SUFFICES ASSUME edits = 0 PROVE ~WholeChain(rows')
    OBVIOUS
  <2>1. IsTable(rows) /\ WholeChain(rows) /\ 1 \in Ids
    BY DEF VInv, IdsAreNat, IsTable, CInv, Untouched, Ids
  <2>2. \A i \in Ids : 1 <= i
    BY DEF CInv, Untouched
  <2>3. k # 1 => ~IsFirstIn(rows, k)
    BY <2>1, <2>2 DEF IsFirstIn, Ids, IsTable
  <2>4. \/ rows'[k].body # rows[k].body /\ rows'[k].prev = rows[k].prev
           /\ rows'[k].hash = rows[k].hash
        \/ rows'[k].body = rows[k].body /\ rows'[k].prev = rows[k].prev
           /\ rows'[k].hash # rows[k].hash
        \/ rows'[k].prev # rows[k].prev /\ ~IsFirstIn(rows, k)
    BY <1>3, <1>11, <2>3
  <2> QED BY <1>2, <2>1, <2>4, OneColumnBreaks DEF Ids
<1>13. edits' # 0 /\ (edits' = 1 => edits = 0)
  BY <1>1
<1>14. \A i \in Ids' : IsRow(rows'[i]) /\ rows'[i].month \in {"closed", "current"}
  BY <1>2, <1>4, <1>7 DEF CInv
<1> QED BY <1>1, <1>9, <1>12, <1>13, <1>14 DEF CInv, EditedOnce

(* A deleted row breaks a whole chain, or was its last.                    *)
LEMMA DeleteCInv == ASSUME VInv, LInv, CInv, NEW k \in Ids, DeleteRow(k) PROVE CInv'
<1>1. /\ edits' = edits + 1 /\ UNCHANGED archive /\ edits \in Nat
      /\ lost' = lost \cup {rows[k].month}
      /\ touched' = touched \cup {i \in Ids : IsPredecessorIn(rows, k, i)}
  BY DEF DeleteRow, LInv
<1>2. Ids' = Ids \ {k} /\ \A i \in Ids' : rows'[i] = rows[i]
  BY DEF DeleteRow, Ids
<1>3. edits' # 0 /\ (edits' = 1 => edits = 0)
  BY <1>1
<1>4. \A i \in Ids' : IsRow(rows'[i]) /\ rows'[i].month \in {"closed", "current"}
  BY <1>2 DEF CInv
<1>5. ASSUME edits = 0, touched' # {} PROVE ~WholeChain(rows')
  <2>1. PICK j \in Ids : IsPredecessorIn(rows, k, j)
    BY <1>1, <1>5 DEF LInv
  <2>2. IsTable(rows) /\ WholeChain(rows)
    BY <1>5 DEF VInv, IdsAreNat, IsTable, CInv, Untouched, Ids
  <2>3. ~IsLastIn(rows, k)
    <3>1. j \in Nat /\ k \in Nat /\ k < j /\ j \in DOMAIN rows
      BY <2>1, <2>2 DEF IsPredecessorIn, IsTable, Ids
    <3> QED BY <3>1 DEF IsLastIn
  <2> QED BY <1>2, <2>2, <2>3, InnerDeletionBreaks DEF Ids
<1>6. ASSUME edits = 0, archive # NoHash, lost' # {"current"} PROVE archive' # ClosedSegment'
  <2>1. rows[k].month = "closed" /\ archive = ClosedSegment
    BY <1>1, <1>6 DEF CInv, Untouched
  <2>2. k \in MonthIds("closed") /\ k \notin MonthIds("closed")'
    BY <1>2, <2>1 DEF MonthIds
  <2>3. PICK m : m = MonthIds("closed")'
    OBVIOUS
  <2>4. ClosedSegment # SegmentHash(NoHash, m, Policy)
    BY <2>2, <2>3, SegmentInjective DEF ClosedSegment
  <2> QED BY <1>1, <2>1, <2>3, <2>4 DEF ClosedSegment
<1>7. edits' = 1 => EditedOnce'
  BY <1>1, <1>3, <1>5, <1>6 DEF EditedOnce
<1>8. rows' = [i \in Ids' |-> rows'[i]]
  BY DEF DeleteRow, Ids
<1> QED BY <1>3, <1>4, <1>7, <1>8 DEF CInv

LEMMA NextCInv == ASSUME VInv, LInv, CInv, [Next]_vars PROVE CInv'
<1>1. CASE UNCHANGED <<rows, archive, touched, edits, lost>>
  BY <1>1 DEF CInv, Untouched, EditedOnce, ClosedSegment, MonthIds, Ids
<1>2. ASSUME NEW id \in 1..MaxId, NEW body \in Bodies, AppendRow(id, body) PROVE CInv'
  BY <1>2, AppendCInv
<1>3. ASSUME NEW k \in Ids, EditColumn(k) \/ DeleteRow(k) PROVE CInv'
  BY <1>3, EditCInv, DeleteCInv
<1>4. CASE Publish
  BY <1>4, PublishCInv
<1> QED BY <1>1, <1>2, <1>3, <1>4 DEF Next, vars, Fetch, Fail, Walk, EndWalk, Report

LEMMA InitLCInv == Init => LInv /\ CInv
<1> SUFFICES ASSUME Init PROVE LInv /\ CInv
  OBVIOUS
<1>1. Ids = {} /\ rows = <<>>
  BY DEF Init, Ids
<1>2. WholeChain(rows) /\ rows = [i \in Ids |-> rows[i]]
  BY <1>1 DEF WholeChain, Ids
<1> QED BY <1>1, <1>2 DEF Init, LInv, HashLocal, LinkLocal, ReportsAreLocal, CInv, Untouched

LEMMA InductiveC == Spec => [](VInv /\ LInv /\ CInv)
<1>1. VInv /\ LInv /\ CInv /\ [Next]_vars => LInv' /\ CInv'
  BY NextLInv, NextCInv
<1> QED BY <1>1, InitLCInv, InductiveV, PTL DEF Spec

(* A first change behind the ledger's back is reported, unless it deleted  *)
(* the last row.                                                           *)
THEOREM SingleEditSeen == Spec => []SingleEditIsReported
<1>1. ASSUME VInv, LInv, CInv, pc = "done", edits = 1, touched # {} PROVE verdict # "OK"
  BY <1>1 DEF VInv, Decided, CInv, EditedOnce
<1>2. VInv /\ LInv /\ CInv => SingleEditIsReported
  BY <1>1 DEF SingleEditIsReported
<1> QED BY <1>2, InductiveC, PTL

(* A first change that passes is seen by the archive of the closed month,  *)
(* unless the month in which the deleted row was written is still open.    *)
THEOREM ArchiveCovers == Spec => []ArchiveSeesTheRest
<1>1. ASSUME VInv, LInv, CInv, pc = "done", verdict = "OK", edits = 1, archive # NoHash
      PROVE  lost = {"current"} \/ archive # ClosedSegment
  BY <1>1 DEF VInv, Decided, CInv, EditedOnce
<1>2. VInv /\ LInv /\ CInv => ArchiveSeesTheRest
  BY <1>1 DEF ArchiveSeesTheRest, ClosedSegment
<1> QED BY <1>2, InductiveC, PTL

(* No false alarm: a ledger that only LedgerClient wrote passes, whatever  *)
(* ids it skipped, unless the verifier could not read it.                  *)
HonestLedgerPasses == pc = "done" /\ edits = 0 => verdict \in {"OK", "VERIFY_FAILED"}

THEOREM NoFalseAlarm == Spec => []HonestLedgerPasses
<1>1. VInv /\ LInv /\ CInv => HonestLedgerPasses
  BY DEF VInv, Decided, CInv, Untouched, HonestLedgerPasses
<1> QED BY <1>1, InductiveC, PTL

(* Any number of changes.  Let T be a state of the ledger of which somebody*)
(* noted the ids and the last hash.  A table that passes, with those ids   *)
(* and that last hash, has every hashed column as T had it.                *)
SameAs(T) ==
    /\ pc = "done" /\ verdict = "OK" /\ Ids = DOMAIN T
    /\ \E n \in Ids : IsLastIn(T, n) /\ rows[n].hash = T[n].hash
    => \A i \in Ids : Hashed(rows[i]) = Hashed(T[i])

THEOREM TipPinsTheLedger ==
    ASSUME NEW T, IsTable(T), WholeChain(T)
    PROVE  Spec => []SameAs(T)
<1>1. ASSUME VInv PROVE SameAs(T)
  <2> SUFFICES ASSUME pc = "done", verdict = "OK", Ids = DOMAIN T,
                      NEW n \in Ids, IsLastIn(T, n), rows[n].hash = T[n].hash
               PROVE  \A i \in Ids : Hashed(rows[i]) = Hashed(T[i])
    BY DEF SameAs
  <2>1. WholeChain(rows) /\ DOMAIN rows = DOMAIN T
    BY <1>1 DEF VInv, Decided, Ids
  <2> QED BY <2>1, TipCommits
<1> QED BY <1>1, InductiveV, PTL
=============================================================================
