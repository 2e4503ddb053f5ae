----------------------------- MODULE ChainProofs -----------------------------
(***************************************************************************)
(* What a whole chain of hashes commits to, for tables of any size: the    *)
(* hashes of its rows are all different, one changed column or one row     *)
(* deleted before the last breaks it, and the hash of its last row fixes   *)
(* every row.  HashChain models a digest as the tuple of what is digested, *)
(* so nothing is assumed of it but that different inputs give different    *)
(* digests.                                                                *)
(***************************************************************************)
EXTENDS HashChain, Sequences, WellFoundedInduction, TLAPS

IsTable(table) == DOMAIN table \subseteq Nat

IsLastIn(table, i) == i \in DOMAIN table /\ \A j \in DOMAIN table : j <= i

(* The columns that hashes are computed from or compared with.             *)
Hashed(row) == <<row.body, row.prev, row.hash>>

LEMMA LeastExists ==
    ASSUME NEW S \in SUBSET Nat, S # {}
    PROVE  \E x \in S : \A y \in S : x <= y
<1>1. PICK x \in S : \A y \in S : ~ (<<y, x>> \in OpToRel(<, Nat))
  BY NatLessThanWellFounded, WFMin
<1>2. ASSUME NEW y \in S PROVE x <= y
  <2>1. <<y, x>> \in Nat \X Nat
    OBVIOUS
  <2>2. ~(y < x)
    BY <1>1, <2>1, Zenon DEF OpToRel
  <2> QED BY <2>2
<1> QED BY <1>2

(***************************************************************************)
(* Digests                                                                 *)
(***************************************************************************)
LEMMA DigestIsDigest ==
    ASSUME NEW prev, NEW body
    PROVE  EntryHash(prev, body) # NoHash /\ EntryHash(prev, body) # EmptyHash
<1>1. Len(<<OrEmpty(prev), body>>) = 2 /\ Len(<<>>) = 0 /\ Len(<<"">>) = 1
  OBVIOUS
<1> QED BY <1>1 DEF EntryHash, NoHash, EmptyHash

(* Digests of rows agree only if the bodies do, and the previous hashes.   *)
LEMMA DigestInjective ==
    ASSUME NEW p, NEW b, NEW q, NEW c, EntryHash(p, b) = EntryHash(q, c)
    PROVE  OrEmpty(p) = OrEmpty(q) /\ b = c
BY DEF EntryHash

LEMMA SegmentInjective ==
    ASSUME NEW p, NEW s, NEW ids, NEW other, SegmentHash(p, ids, s) = SegmentHash(p, other, s)
    PROVE  ids = other
BY DEF SegmentHash

(***************************************************************************)
(* Order of the rows                                                       *)
(***************************************************************************)
LEMMA OnePredecessor ==
    ASSUME NEW T, IsTable(T), NEW p, NEW q, NEW i,
           IsPredecessorIn(T, p, i), IsPredecessorIn(T, q, i)
    PROVE  p = q
<1>1. p \in Nat /\ q \in Nat /\ p <= q /\ q <= p
  BY DEF IsTable, IsPredecessorIn
<1> QED BY <1>1

(* Every row but the last is the predecessor of one that is not the first. *)
LEMMA NextRow ==
    ASSUME NEW T, IsTable(T), NEW i \in DOMAIN T, ~IsLastIn(T, i)
    PROVE  \E j \in DOMAIN T : IsPredecessorIn(T, i, j) /\ ~IsFirstIn(T, j)
<1> DEFINE S == {j \in DOMAIN T : i < j}
<1>1. S \in SUBSET Nat /\ S # {}
  BY DEF IsTable, IsLastIn
<1>2. PICK j \in S : \A k \in S : j <= k
  BY <1>1, LeastExists
<1>3. j \in DOMAIN T /\ i < j /\ i \in Nat /\ j \in Nat
  BY DEF IsTable
<1>4. ASSUME NEW k \in DOMAIN T, k < j PROVE k <= i
  <2>1. k \in Nat
    BY DEF IsTable
  <2>2. k \notin S
    BY <1>2, <1>3, <1>4, <2>1
  <2> QED BY <1>3, <2>1, <2>2
<1> QED BY <1>3, <1>4 DEF IsPredecessorIn, IsFirstIn

(***************************************************************************)
(* Rows of a whole chain                                                   *)
(***************************************************************************)
(* The hash of a whole chain's row is a digest; its prev_hash is missing   *)
(* on the first row and its predecessor's hash on any other.               *)
LEMMA RowOfChain ==
    ASSUME NEW T, WholeChain(T), NEW i \in DOMAIN T
    PROVE  /\ T[i].hash = EntryHash(T[i].prev, T[i].body)
           /\ T[i].hash # NoHash /\ T[i].hash # EmptyHash
           /\ OrEmpty(T[i].hash) = T[i].hash
           /\ IsFirstIn(T, i) => T[i].prev = NoHash
           /\ ~IsFirstIn(T, i) => \E p \in DOMAIN T : /\ IsPredecessorIn(T, p, i)
                                                      /\ T[i].prev = T[p].hash
<1>1. T[i].hash = EntryHash(T[i].prev, T[i].body)
  BY DEF WholeChain
<1>2. T[i].hash # NoHash /\ T[i].hash # EmptyHash
  BY <1>1, DigestIsDigest
<1> QED BY <1>1, <1>2 DEF WholeChain, OrEmpty

LEMMA LinkOfChain ==
    ASSUME NEW T, IsTable(T), WholeChain(T), NEW i \in DOMAIN T, NEW p,
           IsPredecessorIn(T, p, i)
    PROVE  T[i].prev = T[p].hash /\ OrEmpty(T[i].prev) = T[p].hash
<1>1. p \in DOMAIN T /\ ~IsFirstIn(T, i)
  BY DEF IsPredecessorIn, IsFirstIn, IsTable
<1>2. PICK q \in DOMAIN T : IsPredecessorIn(T, q, i) /\ T[i].prev = T[q].hash
  BY <1>1, RowOfChain
<1>3. q = p
  BY <1>2, OnePredecessor
<1> QED BY <1>1, <1>2, <1>3, RowOfChain

(* No two rows of a whole chain have the same hash.                        *)
LEMMA HashesDiffer ==
    ASSUME NEW T, IsTable(T), WholeChain(T)
    PROVE  \A b \in DOMAIN T : \A a \in DOMAIN T : a < b => T[a].hash # T[b].hash
<1> DEFINE S == {b \in DOMAIN T : \E a \in DOMAIN T : a < b /\ T[a].hash = T[b].hash}
<1> SUFFICES ASSUME S # {} PROVE FALSE
  OBVIOUS
<1>1. S \in SUBSET Nat
  BY DEF IsTable
<1>2. PICK b \in S : \A c \in S : b <= c
  BY <1>1, LeastExists
<1>3. PICK a \in DOMAIN T : a < b /\ T[a].hash = T[b].hash
  OBVIOUS
<1>4. b \in DOMAIN T /\ a \in Nat /\ b \in Nat /\ ~IsFirstIn(T, b)
  BY <1>3 DEF IsTable, IsFirstIn
<1>5. PICK q \in DOMAIN T : IsPredecessorIn(T, q, b) /\ T[b].prev = T[q].hash
  BY <1>4, RowOfChain
<1>6. OrEmpty(T[a].prev) = T[q].hash
  <2>1. OrEmpty(T[b].prev) = T[q].hash
    BY <1>4, <1>5, LinkOfChain
  <2>2. EntryHash(T[a].prev, T[a].body) = EntryHash(T[b].prev, T[b].body)
    BY <1>3, <1>4, RowOfChain
  <2> QED BY <2>1, <2>2, DigestInjective
<1>7. CASE IsFirstIn(T, a)
  <2>1. OrEmpty(T[a].prev) = EmptyHash
    BY <1>7, RowOfChain DEF OrEmpty
  <2> QED BY <1>6, <2>1, RowOfChain
<1>8. CASE ~IsFirstIn(T, a)
  <2>1. PICK p \in DOMAIN T : IsPredecessorIn(T, p, a) /\ T[a].prev = T[p].hash
    BY <1>8, RowOfChain
  <2>2. OrEmpty(T[a].prev) = T[p].hash
    BY <2>1, LinkOfChain
  <2>3. p \in Nat /\ q \in Nat /\ p < a /\ a <= q /\ q < b
    BY <1>3, <1>4, <1>5, <2>1 DEF IsPredecessorIn, IsTable
  <2>4. p < q /\ T[p].hash = T[q].hash
    BY <1>4, <1>6, <2>2, <2>3
  <2>5. q \in S
    BY <2>4
  <2> QED BY <1>2, <1>4, <2>3, <2>5
<1> QED BY <1>7, <1>8

(***************************************************************************)
(* One change                                                              *)
(***************************************************************************)
(* A column of row k differs, and nothing else: T is whole, U is not.  A   *)
(* first row is taken to keep its missing prev_hash.                       *)
LEMMA OneColumnBreaks ==
    ASSUME NEW T, IsTable(T), WholeChain(T), NEW U, DOMAIN U = DOMAIN T,
           NEW k \in DOMAIN T, \A i \in DOMAIN T \ {k} : U[i] = T[i],
           \/ /\ U[k].body # T[k].body /\ U[k].prev = T[k].prev /\ U[k].hash = T[k].hash
           \/ /\ U[k].body = T[k].body /\ U[k].prev = T[k].prev /\ U[k].hash # T[k].hash
           \/ /\ U[k].prev # T[k].prev /\ ~IsFirstIn(T, k)
    PROVE  ~WholeChain(U)
<1> SUFFICES ASSUME WholeChain(U) PROVE FALSE
  OBVIOUS
<1>1. /\ U[k].hash = EntryHash(U[k].prev, U[k].body)
      /\ T[k].hash = EntryHash(T[k].prev, T[k].body)
  BY RowOfChain
<1>2. CASE U[k].body # T[k].body /\ U[k].prev = T[k].prev /\ U[k].hash = T[k].hash
  BY <1>1, <1>2, DigestInjective
<1>3. CASE U[k].body = T[k].body /\ U[k].prev = T[k].prev /\ U[k].hash # T[k].hash
  BY <1>1, <1>3
<1>4. CASE U[k].prev # T[k].prev /\ ~IsFirstIn(T, k)
  <2>1. PICK p \in DOMAIN T : IsPredecessorIn(T, p, k) /\ T[k].prev = T[p].hash
    BY <1>4, RowOfChain
  <2>2. IsTable(U) /\ IsPredecessorIn(U, p, k) /\ p # k
    BY <2>1 DEF IsTable, IsPredecessorIn
  <2>3. U[k].prev = U[p].hash
    BY <2>2, LinkOfChain
  <2> QED BY <1>4, <2>1, <2>2, <2>3
<1> QED BY <1>2, <1>3, <1>4

(* Row k is gone, and it was not the last one.                             *)
LEMMA InnerDeletionBreaks ==
    ASSUME NEW T, IsTable(T), WholeChain(T), NEW U, NEW k \in DOMAIN T,
           DOMAIN U = DOMAIN T \ {k}, \A i \in DOMAIN U : U[i] = T[i], ~IsLastIn(T, k)
    PROVE  ~WholeChain(U)
<1> SUFFICES ASSUME WholeChain(U) PROVE FALSE
  OBVIOUS
<1>1. PICK j \in DOMAIN T : IsPredecessorIn(T, k, j)
  BY NextRow
<1>2. j \in DOMAIN U /\ k < j /\ j \in Nat /\ k \in Nat
  BY <1>1 DEF IsPredecessorIn, IsTable
<1>3. U[j].prev = T[k].hash
  BY <1>1, <1>2, LinkOfChain
<1>4. CASE IsFirstIn(U, j)
  BY <1>2, <1>3, <1>4, RowOfChain
<1>5. CASE ~IsFirstIn(U, j)
  <2>1. PICK p \in DOMAIN U : IsPredecessorIn(U, p, j) /\ U[j].prev = U[p].hash
    BY <1>2, <1>5, RowOfChain
  <2>2. p \in DOMAIN T /\ p # k /\ p < j /\ T[p].hash = T[k].hash
    BY <1>3, <2>1 DEF IsPredecessorIn
  <2>3. p \in Nat /\ (p < k \/ k < p)
    BY <1>2, <2>2 DEF IsTable
  <2> QED BY <2>2, <2>3, HashesDiffer
<1> QED BY <1>4, <1>5

(***************************************************************************)
(* What the last hash says                                                 *)
(***************************************************************************)
(* Two whole chains over the same ids whose last rows carry the same hash  *)
(* have the same hashed columns in every row: whatever was changed behind  *)
(* the ledger's back, a table that verifies and still ends in a known hash *)
(* is the known table.                                                     *)
THEOREM TipCommits ==
    ASSUME NEW T, IsTable(T), WholeChain(T), NEW U, DOMAIN U = DOMAIN T, WholeChain(U),
           NEW n, IsLastIn(T, n), T[n].hash = U[n].hash
    PROVE  \A i \in DOMAIN T : Hashed(T[i]) = Hashed(U[i])
<1> DEFINE S == {d \in Nat : \E i \in DOMAIN T : d = n - i /\ T[i].hash # U[i].hash}
<1>1. IsTable(U) /\ n \in DOMAIN T /\ n \in Nat
  BY DEF IsTable, IsLastIn
<1>2. \A i, j : IsPredecessorIn(U, j, i) <=> IsPredecessorIn(T, j, i)
  BY DEF IsPredecessorIn
<1>3. \A i : IsFirstIn(U, i) <=> IsFirstIn(T, i)
  BY DEF IsFirstIn
<1>4. \A i \in DOMAIN T : T[i].hash = U[i].hash
  <2> SUFFICES ASSUME NEW x \in DOMAIN T, T[x].hash # U[x].hash PROVE FALSE
    OBVIOUS
  <2>1. x \in Nat /\ x <= n
    BY DEF IsLastIn, IsTable
  <2>2. n - x \in Nat
    BY <1>1, <2>1
  <2>3. S # {} /\ S \in SUBSET Nat
    BY <2>2
  <2>4. PICK d \in S : \A e \in S : d <= e
    BY <2>3, LeastExists
  <2>5. PICK i \in DOMAIN T : d = n - i /\ T[i].hash # U[i].hash
    OBVIOUS
  <2>6. i \in Nat /\ i # n
    BY <2>5 DEF IsTable
  <2>7. ~IsLastIn(T, i)
    BY <1>1, <2>6 DEF IsLastIn
  <2>8. PICK j \in DOMAIN T : IsPredecessorIn(T, i, j)
    BY <2>7, NextRow
  <2>9. j \in Nat /\ i < j /\ j <= n
    BY <2>8 DEF IsTable, IsPredecessorIn, IsLastIn
  <2>10. T[j].hash = U[j].hash
    <3>1. n - j \in Nat /\ ~(d <= n - j)
      BY <1>1, <2>5, <2>6, <2>9
    <3>2. n - j \notin S
      BY <2>4, <3>1
    <3> QED BY <3>1, <3>2
  <2>11. T[i].hash = OrEmpty(T[j].prev) /\ U[i].hash = OrEmpty(U[j].prev)
    BY <1>1, <1>2, <2>8, LinkOfChain
  <2>12. EntryHash(T[j].prev, T[j].body) = EntryHash(U[j].prev, U[j].body)
    BY <2>10, RowOfChain
  <2> QED BY <2>5, <2>11, <2>12, DigestInjective
<1>5. ASSUME NEW i \in DOMAIN T PROVE T[i].body = U[i].body /\ T[i].prev = U[i].prev
  <2>1. EntryHash(T[i].prev, T[i].body) = EntryHash(U[i].prev, U[i].body)
    BY <1>4, RowOfChain
  <2>2. T[i].body = U[i].body
    BY <2>1, DigestInjective
  <2>3. CASE IsFirstIn(T, i)
    BY <1>3, <2>2, <2>3, RowOfChain
  <2>4. CASE ~IsFirstIn(T, i)
    <3>1. PICK p \in DOMAIN T : IsPredecessorIn(T, p, i) /\ T[i].prev = T[p].hash
      BY <2>4, RowOfChain
    <3>2. U[i].prev = U[p].hash
      BY <1>1, <1>2, <3>1, LinkOfChain
    <3> QED BY <1>4, <2>2, <3>1, <3>2
  <2> QED BY <2>3, <2>4
<1> QED BY <1>4, <1>5 DEF Hashed
=============================================================================
