----------------------------- MODULE GateProofs -----------------------------
(***************************************************************************)
(* The policy gates, for any number of racing pull requests, commits and   *)
(* heads and any window.  The invariant carries what a gate found out from *)
(* its CI run to the merge: a head that stage 6 read and passed has cooled *)
(* on the history it is based on, and it still has, for that history is    *)
(* fixed and the clock goes on; the protected branch then makes that       *)
(* history main.  A head whose reads failed carries nothing.               *)
(***************************************************************************)
EXTENDS PolicyGates, SequenceTheorems, WellFoundedInduction, TLAPS

AnyCommit == MainCommits \cup BranchCommits

(* Commits are made in the order of the history.                           *)
MainInOrder ==
    /\ \A i \in DOMAIN main : main[i].time <= now
    /\ \A i, j \in DOMAIN main : i <= j => main[i].time <= main[j].time

BranchInOrder(b) ==
    /\ b.top.time <= now
    /\ \A i \in 1..b.base : main[i].time <= b.top.time
    /\ \A i \in 1..b.base, k \in DOMAIN b.below : main[i].time <= b.below[k].time
    /\ \A k \in DOMAIN b.below : b.below[k].time <= b.top.time
    /\ \A k, l \in DOMAIN b.below : k <= l => b.below[k].time <= b.below[l].time

HasCooled(b) ==
    \A i \in Matches(main) : i <= b.base => main[i].time + Window <= now

(* What the stages that passed stand for.                                  *)
Checked(b) ==
    b.top.kind = "policy" /\ ~b.unread =>
        /\ b.passed >= 1 => HasCooled(b)
        /\ b.passed = 2 => b.head \in tags

(* What the hook stands for.                                               *)
Labelled(b) ==
    b.below = <<>> /\ ~b.unhooked /\ b.top.files => b.top.kind = "policy"

LandedLabelled ==
    \A j \in DOMAIN main :
        main[j].plain /\ main[j].files =>
            main[j].kind = "policy" /\ (main[j].read => main[j].gated)

BranchInv(b) == b.open => BranchInOrder(b) /\ Checked(b) /\ Labelled(b)

Branches == [open : BOOLEAN, base : 1..MaxMain,
             below : Seq(BranchCommits), top : BranchCommits,
             head : 0..MaxHeads, passed : 0..2, unread : BOOLEAN, unhooked : BOOLEAN]

IInv ==
    /\ TypeOK
    /\ MainInOrder
    /\ \A p \in PRs : BranchInv(pr[p])
    /\ LandedLabelled
    /\ PoliciesAreApart
    /\ ReplayedTreeLands

(***************************************************************************)
(* The history that the cooling gate reads                                 *)
(***************************************************************************)
LEMMA NewestExists ==
    ASSUME NEW n \in Nat, NEW S \in SUBSET (1..n), S # {}
    PROVE  \E i \in S : \A j \in S : j <= i
<1> DEFINE T == {k \in Nat : n - k \in S}
<1>1. T # {}
  <2>1. PICK i \in S : TRUE
    OBVIOUS
  <2>2. n - i \in Nat /\ n - (n - i) = i
    BY <2>1
  <2> QED BY <2>1, <2>2
<1>2. PICK x \in T : \A y \in T : ~ (<<y, x>> \in OpToRel(<, Nat))
  BY <1>1, NatLessThanWellFounded, WFMin
<1>3. ASSUME NEW j \in S PROVE j <= n - x
  <2>1. n - j \in T
    <3>1. n - j \in Nat /\ n - (n - j) = j
      OBVIOUS
    <3> QED BY <3>1
  <2>2. <<n - j, x>> \in Nat \X Nat
    BY <2>1
  <2>3. ~(n - j < x)
    BY <1>2, <2>1, <2>2, Zenon DEF OpToRel
  <2> QED BY <2>1, <2>3
<1> QED BY <1>2, <1>3

LEMMA MainTypes ==
    ASSUME TypeOK
    PROVE  /\ main \in Seq(MainCommits) /\ Len(main) \in Nat /\ Len(main) >= 1
           /\ DOMAIN main = 1..Len(main)
           /\ \A i \in DOMAIN main : main[i] \in MainCommits
BY LenProperties, ElementOfSeq DEF TypeOK

LEMMA BranchTypes ==
    ASSUME TypeOK, NEW p \in PRs
    PROVE  /\ pr[p].below \in Seq(BranchCommits) /\ Len(pr[p].below) \in Nat
           /\ DOMAIN pr[p].below = 1..Len(pr[p].below)
           /\ \A k \in DOMAIN pr[p].below : pr[p].below[k] \in BranchCommits
           /\ pr[p].base \in 1..Len(main) /\ pr[p].top \in BranchCommits
<1>1. pr[p].below \in Seq(BranchCommits) /\ pr[p].top \in BranchCommits
      /\ pr[p].base \in 1..MaxMain /\ pr[p].base <= Len(main)
  BY DEF TypeOK
<1> QED BY <1>1, LenProperties, ElementOfSeq, MainTypes, GatesAssumption

LEMMA HistoryIs ==
    ASSUME TypeOK, NEW p \in PRs
    PROVE  /\ DOMAIN History(p) = 1..(pr[p].base + Len(pr[p].below))
           /\ \A i \in 1..pr[p].base : History(p)[i] = main[i]
           /\ \A k \in 1..(pr[p].base + Len(pr[p].below)) :
                k > pr[p].base => History(p)[k] = pr[p].below[k - pr[p].base]
<1> DEFINE n == pr[p].base
           b == pr[p].below
           m == SubSeq(main, 1, n)
<1>1. n \in 1..Len(main) /\ b \in Seq(AnyCommit) /\ main \in Seq(AnyCommit)
      /\ Len(main) \in Nat /\ Len(b) \in Nat
  BY MainTypes, BranchTypes, SeqMonotonic DEF AnyCommit
<1> HIDE DEF n, b
<1>2. m \in Seq(AnyCommit) /\ Len(m) = n /\ \A i \in 1..n : m[i] = main[i]
  <2>1. \A i \in 1..n : main[i] \in AnyCommit
    BY <1>1, ElementOfSeq
  <2>2. n \in Int /\ 1 <= n
    BY <1>1
  <2> QED BY <2>1, <2>2, SubSeqProperties
<1> HIDE DEF m
<1>3. /\ m \o b \in Seq(AnyCommit)
      /\ Len(m \o b) = n + Len(b)
      /\ \A i \in 1..(n + Len(b)) : (m \o b)[i] = IF i <= n THEN m[i] ELSE b[i - n]
  BY <1>1, <1>2, ConcatProperties
<1>4. DOMAIN (m \o b) = 1..(n + Len(b))
  BY <1>3, LenProperties
<1>5. History(p) = m \o b
  BY DEF History, m, n, b
<1>6. ASSUME NEW i \in 1..n PROVE (m \o b)[i] = main[i]
  BY <1>1, <1>2, <1>3
<1>7. ASSUME NEW k \in 1..(n + Len(b)), k > n PROVE (m \o b)[k] = b[k - n]
  BY <1>1, <1>2, <1>3, <1>7
<1> QED BY <1>4, <1>5, <1>6, <1>7 DEF n, b

(* Exit 0 of the cooling gate for a policy commit: everything it is based  *)
(* on has cooled, not only the newest commit, which is all the code reads. *)
LEMMA CoolingMeans ==
    ASSUME TypeOK, MainInOrder, NEW p \in PRs, BranchInOrder(pr[p]),
           pr[p].top.kind = "policy", CoolingPasses(p)
    PROVE  HasCooled(pr[p])
<1> DEFINE h == History(p)
           n == pr[p].base
<1>1. Elapsed(h)
  BY DEF CoolingPasses
<1>2. /\ n \in 1..Len(main) /\ Len(main) \in Nat /\ DOMAIN main = 1..Len(main)
      /\ Len(pr[p].below) \in Nat /\ DOMAIN pr[p].below = 1..Len(pr[p].below)
  BY MainTypes, BranchTypes
<1>3. /\ DOMAIN h = 1..(n + Len(pr[p].below))
      /\ \A i \in 1..n : h[i] = main[i]
      /\ \A j \in 1..(n + Len(pr[p].below)) : j > n => h[j] = pr[p].below[j - n]
  BY HistoryIs
<1> SUFFICES ASSUME NEW i \in Matches(main), i <= n PROVE main[i].time + Window <= now
  BY DEF HasCooled
<1>4. i \in 1..n
  BY <1>2 DEF Matches
<1> HIDE DEF h, n
<1>5. i \in Matches(h)
  BY <1>2, <1>3, <1>4 DEF Matches
<1>6. PICK k \in Matches(h) : \A j \in Matches(h) : j <= k
  <2>1. Matches(h) \in SUBSET (1..(n + Len(pr[p].below))) /\ Matches(h) # {}
    BY <1>3, <1>5 DEF Matches
  <2>2. n + Len(pr[p].below) \in Nat
    BY <1>2
  <2> QED BY <2>1, <2>2, NewestExists
<1>7. h[k].time + Window <= now
  BY <1>1, <1>6 DEF Elapsed, Previous
<1>8. main[i].time <= h[k].time
  <2>1. i <= k /\ k \in 1..(n + Len(pr[p].below))
    BY <1>3, <1>5, <1>6 DEF Matches
  <2>2. CASE k <= n
    BY <1>2, <1>3, <1>4, <2>1, <2>2 DEF MainInOrder
  <2>3. CASE k > n
    <3>1. k - n \in 1..Len(pr[p].below)
      BY <1>2, <2>1, <2>3
    <3>2. h[k] = pr[p].below[k - n]
      BY <1>3, <2>1, <2>3
    <3> QED BY <1>2, <1>4, <3>1, <3>2 DEF BranchInOrder, n
  <2> QED BY <1>2, <2>1, <2>2, <2>3
<1>9. main[i].time \in Nat /\ h[k].time \in Nat /\ now \in Nat /\ Window \in Nat
  <2>1. main[i].time \in Nat
    <3>1. main[i] \in MainCommits
      BY <1>2, <1>4, MainTypes
    <3> QED BY <3>1 DEF MainCommits
  <2>2. h[k].time \in Nat
    <3>1. k \in 1..(n + Len(pr[p].below))
      BY <1>3, <1>6 DEF Matches
    <3>2. CASE k <= n
      <4>1. h[k] = main[k] /\ k \in DOMAIN main
        BY <1>2, <1>3, <3>1, <3>2
      <4>2. main[k] \in MainCommits
        BY <4>1, MainTypes
      <4> QED BY <4>1, <4>2 DEF MainCommits
    <3>3. CASE k > n
      <4>1. k - n \in 1..Len(pr[p].below)
        BY <1>2, <3>1, <3>3
      <4>2. h[k] = pr[p].below[k - n]
        BY <1>3, <3>1, <3>3
      <4> QED BY <1>2, <4>1, <4>2, BranchTypes DEF BranchCommits
    <3> QED BY <1>2, <3>1, <3>2, <3>3
  <2> QED BY <2>1, <2>2, GatesAssumption DEF TypeOK
<1> QED BY <1>7, <1>8, <1>9

(***************************************************************************)
(* The steps                                                               *)
(***************************************************************************)
LEMMA NoneIs ==
    /\ None \in Branches /\ None.below = <<>> /\ None.unhooked = FALSE
    /\ None.open = FALSE /\ None.base = 1
BY GatesAssumption DEF None, Branches, BranchCommits, Kinds

LEMMA InitIInv == Init => IInv
<1> SUFFICES ASSUME Init PROVE IInv
  OBVIOUS
<1>1. main = <<Root>> /\ pr = [p \in PRs |-> None] /\ tags = {} /\ heads = 0 /\ now = 0
      /\ slips = 0
  BY DEF Init
<1>2. Root \in MainCommits /\ None \in Branches
  BY GatesAssumption, NoneIs DEF Root, MainCommits, Kinds
<1>3. main \in Seq(MainCommits) /\ Len(main) = 1 /\ DOMAIN main = 1..1 /\ main[1] = Root
  BY <1>1, <1>2
<1>4. TypeOK
  <2>1. None.base = 1 /\ Len(None.below) = 0
    BY DEF None
  <2>2. \A p \in PRs : pr[p] = None
    BY <1>1
  <2> QED BY <1>1, <1>2, <1>3, <2>1, <2>2, GatesAssumption DEF TypeOK, Branches
<1>5. MainInOrder /\ LandedLabelled /\ PoliciesAreApart /\ ReplayedTreeLands
  BY <1>1, <1>3 DEF Root, MainInOrder, LandedLabelled, PoliciesAreApart, ReplayedTreeLands
<1>6. \A p \in PRs : BranchInv(pr[p])
  BY <1>1 DEF None, BranchInv
<1> QED BY <1>4, <1>5, <1>6 DEF IInv

LEMMA TickIInv == ASSUME IInv, Tick PROVE IInv'
<1>1. now \in Nat /\ now' = now + 1 /\ UNCHANGED <<main, pr, tags, heads, slips>> /\ TypeOK'
  BY GatesAssumption DEF IInv, TypeOK, Tick
<1>2. \A i \in DOMAIN main : main[i].time \in Nat
  <2>1. \A i \in DOMAIN main : main[i] \in MainCommits
    BY MainTypes DEF IInv
  <2> QED BY <2>1 DEF MainCommits
<1>3. MainInOrder'
  BY <1>1, <1>2 DEF IInv, MainInOrder
<1>4. ASSUME NEW p \in PRs PROVE BranchInv(pr[p])'
  <2>1. pr[p].top.time \in Nat
    BY BranchTypes DEF IInv, BranchCommits
  <2>2. BranchInOrder(pr[p]) => BranchInOrder(pr[p])'
    BY <1>1, <2>1 DEF BranchInOrder
  <2>3. HasCooled(pr[p]) => HasCooled(pr[p])'
    BY <1>1, <1>2, GatesAssumption DEF HasCooled, Matches
  <2> QED BY <1>1, <2>2, <2>3 DEF IInv, BranchInv, Checked, Labelled
<1> QED
  BY <1>1, <1>3, <1>4 DEF IInv, LandedLabelled, PoliciesAreApart, ReplayedTreeLands,
                          Matches

(* A new head has passed nothing; its commits are in order and labelled.   *)
LEMMA NewHeadIInv ==
    ASSUME IInv, NEW p \in PRs, NEW b \in Branches, NewHead(p, b),
           b.base <= Len(main), Len(b.below) <= MaxBelow,
           BranchInOrder(b), Labelled(b), slips' \in 0..MaxSlips
    PROVE  IInv'
<1>1. heads \in 0..MaxHeads /\ heads < MaxHeads /\ heads' = heads + 1
      /\ UNCHANGED <<main, tags, now>>
  BY DEF NewHead, IInv, TypeOK
<1>2. PICK c \in Branches :
        /\ c.base = b.base /\ c.below = b.below /\ c.top = b.top
        /\ c.passed = 0 /\ c.unhooked = b.unhooked /\ c.open = b.open
        /\ pr' = [pr EXCEPT ![p] = c]
  <2>1. heads + 1 \in 0..MaxHeads
    BY <1>1, GatesAssumption
  <2>2. [b EXCEPT !.head = heads + 1, !.passed = 0, !.unread = FALSE] \in Branches
    <3> DEFINE H == 0..MaxHeads
               Z == 0..2
               B == 1..MaxMain
               S == Seq(BranchCommits)
    <3>1. heads + 1 \in H /\ 0 \in Z
      BY <2>1
    <3>2. b \in [open : BOOLEAN, base : B, below : S, top : BranchCommits,
                 head : H, passed : Z, unread : BOOLEAN, unhooked : BOOLEAN]
      BY DEF Branches
    <3> HIDE DEF H, Z, B, S
    <3>3. [b EXCEPT !.head = heads + 1, !.passed = 0, !.unread = FALSE]
             \in [open : BOOLEAN, base : B, below : S, top : BranchCommits,
                 head : H, passed : Z, unread : BOOLEAN, unhooked : BOOLEAN]
      BY <3>1, <3>2
    <3> QED BY <3>3 DEF Branches, H, Z, B, S
  <2> QED BY <2>2 DEF NewHead, Branches
<1>3. \A q \in PRs : pr'[q] = IF q = p THEN c ELSE pr[q]
  BY <1>2 DEF IInv, TypeOK
<1>4. TypeOK'
  <2>1. pr' \in [PRs -> Branches]
    BY <1>1, <1>2 DEF IInv, TypeOK, Branches
  <2> QED
    BY <1>1, <1>2, <1>3, <2>1, GatesAssumption DEF IInv, TypeOK, Branches
<1>5. BranchInv(c)'
  <2>1. BranchInOrder(c)' /\ Labelled(c)'
    BY <1>1, <1>2 DEF BranchInOrder, Labelled
  <2> QED BY <1>2, <2>1 DEF BranchInv, Checked
<1>6. ASSUME NEW q \in PRs, q # p PROVE BranchInv(pr[q])'
  BY <1>1, <1>3, <1>6 DEF IInv, BranchInv, BranchInOrder, Checked, HasCooled, Labelled,
                          Matches
<1>7. ASSUME NEW q \in PRs PROVE BranchInv(pr[q])'
  <2>1. CASE q = p
    <3>1. pr'[q] = c
      BY <1>3, <2>1
    <3> QED BY <1>5, <3>1 DEF BranchInv, BranchInOrder, Checked, HasCooled, Labelled
  <2> QED BY <1>6, <2>1
<1> QED
  BY <1>1, <1>4, <1>7 DEF IInv, MainInOrder, LandedLabelled, PoliciesAreApart,
                          ReplayedTreeLands, Matches

LEMMA HookedIs ==
    ASSUME IInv, NEW kind, NEW files, Hooked(kind, files)
    PROVE  slips' \in 0..MaxSlips
BY GatesAssumption DEF IInv, TypeOK, Hooked, Slip

LEMMA CommitType ==
    ASSUME TypeOK, NEW kind \in Kinds, NEW files \in BOOLEAN
    PROVE  /\ Commit(kind, files) \in BranchCommits
           /\ Commit(kind, files).kind = kind /\ Commit(kind, files).files = files
           /\ Commit(kind, files).time = now
BY DEF TypeOK, Commit, BranchCommits

LEMMA MainTimes ==
    ASSUME IInv
    PROVE  now \in Nat /\ \A i \in DOMAIN main : main[i].time \in Nat /\ main[i].time <= now
<1>1. \A i \in DOMAIN main : main[i] \in MainCommits
  BY MainTypes DEF IInv
<1> QED BY <1>1, GatesAssumption DEF IInv, TypeOK, MainInOrder, MainCommits

LEMMA BranchIs == ASSUME IInv, NEW p \in PRs PROVE pr[p] \in Branches
BY DEF IInv, TypeOK, Branches

LEMMA OpenIInv ==
    ASSUME IInv, NEW p \in PRs, NEW kind \in Kinds, NEW files \in BOOLEAN,
           Open(p, kind, files)
    PROVE  IInv'
<1> DEFINE n == Len(main)
           c == Commit(kind, files)
           u == ~HookAllows(kind, files)
           b == [None EXCEPT !.open = TRUE, !.base = n, !.top = c, !.unhooked = u]
<1>1. NewHead(p, b) /\ slips' \in 0..MaxSlips /\ u \in BOOLEAN
      /\ (~u => HookAllows(kind, files))
  BY HookedIs DEF Open
<1>2. /\ n \in 1..MaxMain /\ n = Len(main)
      /\ c \in BranchCommits /\ c.time = now /\ c.kind = kind /\ c.files = files
  BY CommitType DEF IInv, TypeOK
<1> HIDE DEF n, c, u
<1>3. /\ b \in Branches /\ b.below = <<>> /\ b.top = c /\ b.base = n
      /\ b.unhooked = u
  BY <1>1, <1>2, NoneIs DEF Branches
<1> HIDE DEF b
<1>4. b.base <= Len(main) /\ Len(b.below) <= MaxBelow
  <2>1. Len(<<>>) = 0 /\ 0 <= MaxBelow /\ Len(main) \in Nat
    BY GatesAssumption, MainTypes DEF IInv
  <2> QED BY <1>2, <1>3, <2>1
<1>5. BranchInOrder(b)
  BY <1>2, <1>3, MainTimes, MainTypes DEF IInv, BranchInOrder
<1>6. Labelled(b)
  BY <1>1, <1>2, <1>3 DEF Labelled, HookAllows
<1> QED BY <1>1, <1>3, <1>4, <1>5, <1>6, NewHeadIInv

LEMMA PushIInv ==
    ASSUME IInv, NEW p \in PRs, NEW kind \in Kinds, NEW files \in BOOLEAN,
           Push(p, kind, files)
    PROVE  IInv'
<1> DEFINE old == pr[p]
           more == Append(old.below, old.top)
           u == old.unhooked \/ ~HookAllows(kind, files)
           b == [old EXCEPT !.below = more, !.top = Commit(kind, files), !.unhooked = u]
<1>1. NewHead(p, b) /\ old.open /\ Len(old.below) < MaxBelow /\ slips' \in 0..MaxSlips
      /\ u \in BOOLEAN
  BY HookedIs DEF Push
<1>2. old \in Branches /\ BranchInOrder(old) /\ old.base \in 1..Len(main)
      /\ Len(old.below) \in Nat /\ DOMAIN old.below = 1..Len(old.below)
      /\ \A k \in DOMAIN old.below : old.below[k].time \in Nat
  <2>1. \A k \in DOMAIN old.below : old.below[k] \in BranchCommits
    BY BranchTypes DEF IInv
  <2> QED BY <1>1, <2>1, BranchIs, BranchTypes DEF IInv, BranchInv, BranchCommits
<1>3. old.below \in Seq(BranchCommits) /\ old.top \in BranchCommits /\ old.top.time \in Nat
  <2>1. old.below \in Seq(BranchCommits) /\ old.top \in BranchCommits
    BY BranchTypes DEF IInv
  <2> QED BY <2>1 DEF BranchCommits
<1> HIDE DEF old
<1>4. /\ more \in Seq(BranchCommits) /\ Len(more) = Len(old.below) + 1
      /\ DOMAIN more = 1..(Len(old.below) + 1) /\ more # <<>>
      /\ \A k \in DOMAIN old.below : more[k] = old.below[k]
      /\ more[Len(old.below) + 1] = old.top
  BY <1>2, <1>3, AppendProperties, LenProperties
<1>5. Commit(kind, files) \in BranchCommits /\ Commit(kind, files).time = now
  BY CommitType DEF IInv
<1> HIDE DEF more, u
<1>6. b \in Branches
  BY <1>1, <1>2, <1>4, <1>5 DEF Branches
<1>7. b.below = more /\ b.base = old.base /\ b.top.time = now
  BY <1>2, <1>5 DEF Branches
<1> HIDE DEF b
<1>8. Len(b.below) <= MaxBelow
  BY <1>1, <1>2, <1>4, <1>7, GatesAssumption
<1>9. BranchInOrder(b)
  <2>1. \A k \in DOMAIN more : k \in DOMAIN old.below \/ (k = Len(old.below) + 1)
    BY <1>2, <1>4
  <2>2. ASSUME NEW k \in DOMAIN more
        PROVE  more[k].time <= now /\ \A i \in 1..old.base : main[i].time <= more[k].time
    <3>1. CASE k \in DOMAIN old.below
      BY <1>2, <1>3, <1>4, <3>1, MainTimes DEF BranchInOrder
    <3>2. CASE k = Len(old.below) + 1
      BY <1>2, <1>4, <3>2 DEF BranchInOrder
    <3> QED BY <2>1, <3>1, <3>2
  <2>3. ASSUME NEW k \in DOMAIN more, NEW l \in DOMAIN more, k <= l
        PROVE  more[k].time <= more[l].time
    <3>1. CASE l \in DOMAIN old.below
      <4>1. k \in DOMAIN old.below
        BY <1>2, <1>4, <2>3, <3>1
      <4> QED BY <1>2, <1>4, <2>3, <3>1, <4>1 DEF BranchInOrder
    <3>2. CASE l = Len(old.below) + 1
      BY <1>2, <1>3, <1>4, <2>1, <3>2 DEF BranchInOrder
    <3> QED BY <2>1, <3>1, <3>2
  <2>4. \A i \in 1..old.base : main[i].time <= now
    BY <1>2, MainTimes, MainTypes DEF IInv
  <2>5. now <= now
    BY MainTimes
  <2> QED BY <1>7, <2>2, <2>3, <2>4, <2>5 DEF BranchInOrder
<1>10. Labelled(b)
  BY <1>4, <1>7 DEF Labelled
<1> QED BY <1>1, <1>2, <1>6, <1>7, <1>8, <1>9, <1>10, NewHeadIInv

LEMMA AmendIInv ==
    ASSUME IInv, NEW p \in PRs, NEW kind \in Kinds, NEW files \in BOOLEAN,
           Amend(p, kind, files)
    PROVE  IInv'
<1> DEFINE old == pr[p]
           c == Commit(kind, files \/ old.top.files)
           b == [old EXCEPT !.top = c, !.unhooked = TRUE]
<1>1. NewHead(p, b) /\ old.open /\ slips' \in 0..MaxSlips
  BY HookedIs DEF Amend
<1>2. old \in Branches /\ BranchInOrder(old) /\ old.base \in 1..Len(main)
      /\ old.top \in BranchCommits
  BY <1>1, BranchIs, BranchTypes DEF IInv, BranchInv
<1>3. c \in BranchCommits /\ c.time = now
  <2>1. (files \/ old.top.files) \in BOOLEAN
    BY <1>2 DEF BranchCommits
  <2> QED BY <2>1, CommitType DEF IInv
<1> HIDE DEF old, c
<1>4. b \in Branches /\ b.below = old.below /\ b.base = old.base /\ b.top = c /\ b.unhooked
  BY <1>2, <1>3 DEF Branches
<1> HIDE DEF b
<1>5. Len(b.below) <= MaxBelow /\ old.top.time \in Nat /\ now \in Nat
      /\ \A k \in DOMAIN old.below : old.below[k].time \in Nat
  <2>1. \A k \in DOMAIN old.below : old.below[k] \in BranchCommits
    BY BranchTypes DEF IInv, old
  <2> QED BY <1>2, <1>4, <2>1, MainTimes DEF IInv, TypeOK, old, BranchCommits
<1>6. BranchInOrder(b)
  <2>1. \A i \in 1..old.base : main[i].time <= now
    BY <1>2, MainTimes, MainTypes DEF IInv
  <2>2. \A k \in DOMAIN old.below : old.below[k].time <= now
    BY <1>2, <1>5 DEF BranchInOrder
  <2> QED BY <1>2, <1>3, <1>4, <1>5, <2>1, <2>2 DEF BranchInOrder
<1>7. Labelled(b)
  BY <1>4 DEF Labelled
<1> QED BY <1>1, <1>2, <1>4, <1>5, <1>6, <1>7, NewHeadIInv

(* A rebase only moves commits to later times, all of them to the same.    *)
LEMMA UpdateIInv == ASSUME IInv, NEW p \in PRs, Update(p) PROVE IInv'
<1> DEFINE old == pr[p]
           n == Len(main)
           moved == [i \in DOMAIN old.below |-> [old.below[i] EXCEPT !.time = now]]
           t == [old.top EXCEPT !.time = now]
           b == [old EXCEPT !.base = n, !.top.time = now, !.below = moved]
<1>1. NewHead(p, b) /\ old.open /\ slips' \in 0..MaxSlips
  BY DEF Update, IInv, TypeOK
<1>2. /\ old \in Branches /\ old.top \in BranchCommits /\ n \in 1..MaxMain
      /\ Len(old.below) <= MaxBelow /\ Labelled(old) /\ n = Len(main)
      /\ now \in 0..MaxTime
  BY <1>1, BranchIs, BranchTypes DEF IInv, BranchInv, TypeOK
<1>3. /\ DOMAIN old.below = 1..Len(old.below) /\ Len(old.below) \in Nat
      /\ \A k \in DOMAIN old.below : old.below[k] \in BranchCommits
  BY BranchTypes DEF IInv
<1> HIDE DEF old, n
<1>4. moved \in Seq(BranchCommits) /\ Len(moved) = Len(old.below)
      /\ \A k \in DOMAIN moved : moved[k].time = now
  <2>1. \A k \in 1..Len(old.below) : /\ [old.below[k] EXCEPT !.time = now] \in BranchCommits
                                     /\ [old.below[k] EXCEPT !.time = now].time = now
    BY <1>2, <1>3 DEF BranchCommits
  <2>2. moved \in [1..Len(old.below) -> BranchCommits] /\ DOMAIN moved = 1..Len(old.below)
        /\ \A k \in DOMAIN moved : moved[k].time = now
    BY <1>3, <2>1
  <2> HIDE DEF moved
  <2> QED BY <1>3, <2>2, SeqDef, LenProperties
<1>5. t \in BranchCommits /\ t.time = now /\ t.kind = old.top.kind /\ t.files = old.top.files
  BY <1>2 DEF BranchCommits
<1>6. b = [old EXCEPT !.base = n, !.top = t, !.below = moved]
  BY <1>2 DEF Branches
<1>7. moved = <<>> <=> old.below = <<>>
  BY <1>2, <1>4, EmptySeq DEF Branches
<1> HIDE DEF moved, t, b
<1>8. /\ b \in Branches /\ b.base = n /\ b.below = moved /\ b.top = t
      /\ b.unhooked = old.unhooked
  BY <1>2, <1>4, <1>5, <1>6 DEF Branches
<1>9. BranchInOrder(b)
  BY <1>2, <1>4, <1>5, <1>8, MainTimes, MainTypes DEF IInv, BranchInOrder
<1>10. Labelled(b)
  BY <1>2, <1>5, <1>7, <1>8 DEF Labelled
<1>11. b.base <= Len(main) /\ Len(b.below) <= MaxBelow
  BY <1>2, <1>4, <1>8
<1> QED BY <1>1, <1>8, <1>9, <1>10, <1>11, NewHeadIInv

(* A step that changes nothing but one pull request, which stays typed.    *)
LEMMA OneBranchIInv ==
    ASSUME IInv, NEW p \in PRs, NEW b \in Branches, pr' = [pr EXCEPT ![p] = b],
           UNCHANGED <<main, heads, now>>, tags \subseteq tags', tags' \subseteq 0..MaxHeads,
           slips' \in 0..MaxSlips,
           b.base <= Len(main), Len(b.below) <= MaxBelow, BranchInv(b)'
    PROVE  IInv'
<1>1. \A q \in PRs : pr'[q] = IF q = p THEN b ELSE pr[q]
  BY DEF IInv, TypeOK
<1>2. TypeOK'
  <2>1. pr' \in [PRs -> Branches]
    BY DEF IInv, TypeOK, Branches
  <2> QED BY <1>1, <2>1 DEF IInv, TypeOK, Branches
<1>3. ASSUME NEW q \in PRs PROVE BranchInv(pr[q])'
  <2>1. CASE q = p
    <3>1. pr'[q] = b
      BY <1>1, <2>1
    <3> QED BY <3>1 DEF BranchInv, BranchInOrder, Checked, HasCooled, Labelled
  <2>2. CASE q # p
    <3>1. pr'[q] = pr[q] /\ BranchInv(pr[q])
      BY <1>1, <2>2 DEF IInv
    <3>2. BranchInOrder(pr[q]) => BranchInOrder(pr[q])'
      BY <3>1 DEF BranchInOrder
    <3>3. Checked(pr[q]) => Checked(pr[q])'
      BY <3>1 DEF Checked, HasCooled, Matches
    <3> QED BY <3>1, <3>2, <3>3 DEF BranchInv, Labelled
  <2> QED BY <2>1, <2>2
<1> QED
  BY <1>2, <1>3 DEF IInv, MainInOrder, LandedLabelled, PoliciesAreApart,
                    ReplayedTreeLands, Matches

LEMMA CloseIInv == ASSUME IInv, NEW p \in PRs, Close(p) PROVE IInv'
<1>1. BranchInv(None)'
  BY NoneIs DEF BranchInv
<1>2. None.base <= Len(main) /\ Len(None.below) <= MaxBelow
  BY NoneIs, MainTypes, GatesAssumption DEF IInv
<1>3. tags \subseteq 0..MaxHeads /\ slips' \in 0..MaxSlips
  BY DEF IInv, TypeOK, Close
<1> QED BY <1>1, <1>2, <1>3, NoneIs, OneBranchIInv DEF Close

LEMMA TagReplayIInv == ASSUME IInv, NEW p \in PRs, TagReplay(p) PROVE IInv'
<1>1. PICK b \in Branches : b = pr[p]
  BY BranchIs
<1>2. pr' = [pr EXCEPT ![p] = b] /\ UNCHANGED <<main, heads, now>> /\ b.open
      /\ slips' \in 0..MaxSlips
      /\ tags' = tags \cup {b.head}
  BY <1>1 DEF TagReplay, IInv, TypeOK
<1>3. tags \subseteq tags' /\ tags' \subseteq 0..MaxHeads
  BY <1>2 DEF IInv, TypeOK, Branches
<1>4. b.base <= Len(main) /\ Len(b.below) <= MaxBelow /\ BranchInv(b)
  BY <1>1 DEF IInv, TypeOK
<1>5. BranchInv(b)'
  BY <1>2, <1>3, <1>4 DEF BranchInv, BranchInOrder, Checked, HasCooled, Labelled, Matches
<1> QED BY <1>2, <1>3, <1>4, <1>5, OneBranchIInv

(* A stage that passes a head changes only how many have.                  *)
LEMMA PassedIs ==
    ASSUME IInv, NEW p \in PRs, NEW n \in 0..2,
           pr' = [pr EXCEPT ![p] = [pr[p] EXCEPT !.passed = n]]
    PROVE  \E b \in Branches :
             /\ pr' = [pr EXCEPT ![p] = b] /\ b.passed = n
             /\ b.open = pr[p].open /\ b.base = pr[p].base /\ b.below = pr[p].below
             /\ b.top = pr[p].top /\ b.head = pr[p].head
             /\ b.unhooked = pr[p].unhooked /\ b.unread = pr[p].unread
<1> DEFINE old == pr[p]
           b == [old EXCEPT !.passed = n]
<1>1. old \in Branches
  BY BranchIs
<1>2. pr' = [pr EXCEPT ![p] = b]
  OBVIOUS
<1>3. /\ b \in Branches /\ b.passed = n /\ b.open = old.open /\ b.base = old.base
      /\ b.below = old.below /\ b.top = old.top /\ b.head = old.head
      /\ b.unhooked = old.unhooked /\ b.unread = old.unread
  BY <1>1 DEF Branches
<1> HIDE DEF b
<1> QED BY <1>2, <1>3

LEMMA CoolingGateIInv == ASSUME IInv, NEW p \in PRs, CoolingGate(p) PROVE IInv'
<1>1. /\ pr[p].open /\ pr[p].passed = 0 /\ CoolingPasses(p)
      /\ pr' = [pr EXCEPT ![p].passed = @ + 1] /\ UNCHANGED <<main, tags, heads, now, slips>>
  BY DEF CoolingGate
<1>2. PICK b \in Branches :
        /\ pr' = [pr EXCEPT ![p] = b] /\ b.passed = 1
        /\ b.open = pr[p].open /\ b.base = pr[p].base /\ b.below = pr[p].below
        /\ b.top = pr[p].top /\ b.head = pr[p].head
        /\ b.unhooked = pr[p].unhooked /\ b.unread = pr[p].unread
  <2>1. pr' = [pr EXCEPT ![p] = [pr[p] EXCEPT !.passed = 1]]
    BY <1>1
  <2>2. 1 \in 0..2
    OBVIOUS
  <2> QED BY <2>1, <2>2, PassedIs, Zenon
<1>3. b.base <= Len(main) /\ Len(b.below) <= MaxBelow /\ tags \subseteq 0..MaxHeads
      /\ BranchInv(pr[p]) /\ slips' \in 0..MaxSlips
  BY <1>1, <1>2 DEF IInv, TypeOK
<1>4. BranchInOrder(pr[p]) /\ Labelled(pr[p])
  BY <1>1, <1>3 DEF BranchInv
<1>5. b.top.kind = "policy" => HasCooled(b)
  <2>1. b.top.kind = "policy" => HasCooled(pr[p])
    BY <1>1, <1>2, <1>4, CoolingMeans DEF IInv
  <2> QED BY <1>2, <2>1 DEF HasCooled
<1>6. BranchInv(b)'
  <2>1. BranchInOrder(b)' /\ Labelled(b)'
    BY <1>1, <1>2, <1>4 DEF BranchInOrder, Labelled
  <2>2. Checked(b)'
    BY <1>1, <1>2, <1>5 DEF Checked, HasCooled, Matches
  <2> QED BY <2>1, <2>2 DEF BranchInv
<1> QED BY <1>1, <1>2, <1>3, <1>6, OneBranchIInv

LEMMA ReplayMarkerIInv == ASSUME IInv, NEW p \in PRs, ReplayMarker(p) PROVE IInv'
<1>1. /\ pr[p].open /\ pr[p].passed = 1
      /\ pr[p].top.kind = "policy" => pr[p].head \in tags
      /\ pr' = [pr EXCEPT ![p].passed = @ + 1] /\ UNCHANGED <<main, tags, heads, now, slips>>
  BY DEF ReplayMarker, IsMarked
<1>2. PICK b \in Branches :
        /\ pr' = [pr EXCEPT ![p] = b] /\ b.passed = 2
        /\ b.open = pr[p].open /\ b.base = pr[p].base /\ b.below = pr[p].below
        /\ b.top = pr[p].top /\ b.head = pr[p].head
        /\ b.unhooked = pr[p].unhooked /\ b.unread = pr[p].unread
  <2>1. pr' = [pr EXCEPT ![p] = [pr[p] EXCEPT !.passed = 2]]
    BY <1>1
  <2>2. 2 \in 0..2
    OBVIOUS
  <2> QED BY <2>1, <2>2, PassedIs, Zenon
<1>3. b.base <= Len(main) /\ Len(b.below) <= MaxBelow /\ tags \subseteq 0..MaxHeads
      /\ BranchInv(pr[p]) /\ slips' \in 0..MaxSlips
  BY <1>1, <1>2 DEF IInv, TypeOK
<1>4. BranchInOrder(pr[p]) /\ Labelled(pr[p]) /\ Checked(pr[p])
  BY <1>1, <1>3 DEF BranchInv
<1>5. BranchInv(b)'
  <2>1. BranchInOrder(b)' /\ Labelled(b)'
    BY <1>1, <1>2, <1>4 DEF BranchInOrder, Labelled
  <2>2. Checked(b)'
    BY <1>1, <1>2, <1>4 DEF Checked, HasCooled, Matches
  <2> QED BY <2>1, <2>2 DEF BranchInv
<1> QED BY <1>1, <1>2, <1>3, <1>5, OneBranchIInv

(* What git fails to read passes, and nothing is claimed of it from then.  *)
LEMMA ReadFailsIInv == ASSUME IInv, NEW p \in PRs, ReadFails(p) PROVE IInv'
<1>1. /\ pr[p].open /\ pr[p].passed < 2 /\ Slip /\ UNCHANGED <<main, tags, heads, now>>
      /\ pr' = [pr EXCEPT ![p].passed = @ + 1, ![p].unread = TRUE]
  BY DEF ReadFails
<1>2. PICK old \in Branches : old = pr[p]
  BY BranchIs
<1>3. PICK n \in 0..2 : n = old.passed + 1
  <2>1. old.passed \in 0..2 /\ old.passed < 2
    BY <1>1, <1>2 DEF Branches
  <2> QED BY <2>1
<1>4. PICK b : b = [old EXCEPT !.passed = n, !.unread = TRUE]
  OBVIOUS
<1>5. pr' = [pr EXCEPT ![p] = b]
  BY <1>1, <1>2, <1>3, <1>4 DEF IInv, TypeOK
<1>6. /\ b \in Branches /\ b.unread /\ b.open = old.open /\ b.base = old.base
      /\ b.below = old.below /\ b.top = old.top /\ b.unhooked = old.unhooked
  BY <1>4 DEF Branches
<1>7. BranchInOrder(old) /\ Labelled(old) /\ old.base <= Len(main)
      /\ Len(old.below) <= MaxBelow /\ tags \subseteq 0..MaxHeads
      /\ slips' \in 0..MaxSlips
  BY <1>1, <1>2, GatesAssumption DEF IInv, TypeOK, BranchInv, Slip
<1>8. BranchInv(b)'
  BY <1>1, <1>6, <1>7 DEF BranchInv, BranchInOrder, Labelled, Checked
<1> QED BY <1>1, <1>5, <1>6, <1>7, <1>8, OneBranchIInv

(* What a merge appends.                                                   *)
LEMMA SquashIs ==
    ASSUME TypeOK, NEW p \in PRs, NEW title \in Titles
    PROVE  /\ Squash(p, title) \in MainCommits
           /\ Squash(p, title).time = now /\ Squash(p, title).head = pr[p].head
           /\ Squash(p, title).base = pr[p].base
           /\ Squash(p, title).gated = (pr[p].top.kind = "policy" /\ ~pr[p].unread)
           /\ Squash(p, title).read = ~pr[p].unread
           /\ Squash(p, title).plain = (pr[p].below = <<>> /\ ~pr[p].unhooked)
           /\ Squash(p, title).kind = SquashKind(p, title)
           /\ pr[p].below = <<>> => Squash(p, title).kind = pr[p].top.kind
                                  /\ Squash(p, title).files = pr[p].top.files
<1> DEFINE files == \E i \in DOMAIN Commits(p) : Commits(p)[i].files
           gated == pr[p].top.kind = "policy" /\ ~pr[p].unread
           read == ~pr[p].unread
           plain == pr[p].below = <<>> /\ ~pr[p].unhooked
<1>1. pr[p].top \in BranchCommits /\ pr[p].head \in 0..MaxHeads /\ pr[p].base \in 0..MaxMain
      /\ now \in 0..MaxTime
  BY DEF TypeOK
<1>2. SquashKind(p, title) \in Kinds /\ (pr[p].below = <<>> => SquashKind(p, title) = pr[p].top.kind)
  BY <1>1 DEF SquashKind, BranchCommits, Kinds
<1>3. files \in BOOLEAN /\ gated \in BOOLEAN /\ read \in BOOLEAN /\ plain \in BOOLEAN
  OBVIOUS
<1>4. ASSUME pr[p].below = <<>> PROVE files = pr[p].top.files
  <2>1. Commits(p) = <<pr[p].top>>
    BY <1>4 DEF Commits
  <2>2. DOMAIN Commits(p) = {1} /\ Commits(p)[1] = pr[p].top
    BY <2>1
  <2>3. pr[p].top.files \in BOOLEAN
    BY <1>1 DEF BranchCommits
  <2> QED BY <2>2, <2>3
<1>5. Squash(p, title) = [kind |-> SquashKind(p, title), time |-> now, files |-> files,
                   head |-> pr[p].head, base |-> pr[p].base, read |-> read, gated |-> gated,
                   plain |-> plain]
  BY DEF Squash
<1>6. gated = (pr[p].top.kind = "policy" /\ ~pr[p].unread) /\ read = ~pr[p].unread
      /\ plain = (pr[p].below = <<>> /\ ~pr[p].unhooked)
  OBVIOUS
<1> HIDE DEF files, gated, read, plain
<1>7. Squash(p, title) \in MainCommits
  BY <1>1, <1>2, <1>3, <1>5 DEF MainCommits
<1>8. /\ Squash(p, title).time = now /\ Squash(p, title).head = pr[p].head
      /\ Squash(p, title).base = pr[p].base /\ Squash(p, title).gated = gated
      /\ Squash(p, title).read = read
      /\ Squash(p, title).plain = plain /\ Squash(p, title).kind = SquashKind(p, title)
      /\ Squash(p, title).files = files
  BY <1>5
<1> QED BY <1>2, <1>4, <1>6, <1>7, <1>8

(* The merge: the history the gates saw is what main is.                   *)
LEMMA MergeIInv == ASSUME IInv, NEW p \in PRs, NEW title \in Titles, Merge(p, title) PROVE IInv'
<1> DEFINE n == Len(main)
<1>1. /\ pr[p].open /\ pr[p].passed = 2 /\ pr[p].base = n /\ n < MaxMain
      /\ main' = Append(main, Squash(p, title)) /\ pr' = [pr EXCEPT ![p] = None]
      /\ UNCHANGED <<tags, heads, now, slips>>
  BY DEF Merge, UpToDate
<1>2. PICK c \in MainCommits :
        /\ c = Squash(p, title)
        /\ c.time = now /\ c.head = pr[p].head /\ c.base = n
        /\ c.gated = (pr[p].top.kind = "policy" /\ ~pr[p].unread)
        /\ c.read = ~pr[p].unread
        /\ c.plain = (pr[p].below = <<>> /\ ~pr[p].unhooked)
        /\ pr[p].below = <<>> => c.kind = pr[p].top.kind /\ c.files = pr[p].top.files
  <2>1. TypeOK
    BY DEF IInv
  <2> QED BY <1>1, <2>1, SquashIs
<1>3. /\ main \in Seq(MainCommits) /\ n \in Nat /\ n >= 1 /\ DOMAIN main = 1..n
      /\ \A i \in DOMAIN main : main[i] \in MainCommits /\ main[i].time \in Nat
                                /\ main[i].time <= now
      /\ now \in Nat
  BY MainTypes, MainTimes DEF IInv
<1> HIDE DEF n
<1>4. /\ main' \in Seq(MainCommits) /\ DOMAIN main' = 1..(n + 1) /\ Len(main') = n + 1
      /\ \A i \in 1..n : main'[i] = main[i]
      /\ main'[n + 1] = c
  <2>1. main' = Append(main, c) /\ Len(main) = n
    BY <1>1, <1>2 DEF n
  <2> QED BY <1>3, <2>1, AppendProperties, LenProperties
<1>5. \A i \in DOMAIN main' : i \in 1..n \/ i = n + 1
  BY <1>3, <1>4
<1>6. BranchInOrder(pr[p]) /\ Labelled(pr[p]) /\ Checked(pr[p])
  BY <1>1 DEF IInv, BranchInv
<1>7. TypeOK'
  <2>1. pr' \in [PRs -> Branches] /\ \A q \in PRs : pr'[q] = IF q = p THEN None ELSE pr[q]
    BY <1>1, NoneIs DEF IInv, TypeOK, Branches
  <2>2. Len(main') \in 1..MaxMain
    BY <1>1, <1>3, <1>4, GatesAssumption
  <2>3. ASSUME NEW q \in PRs PROVE pr'[q].base <= Len(main') /\ Len(pr'[q].below) <= MaxBelow
    <3>1. CASE q = p
      BY <1>3, <1>4, <2>1, <3>1, NoneIs, GatesAssumption
    <3>2. CASE q # p
      <4>1. pr'[q] = pr[q] /\ pr[q].base \in Nat /\ pr[q].base <= n
            /\ Len(pr[q].below) <= MaxBelow
        BY <2>1, <3>2 DEF IInv, TypeOK, n
      <4> QED BY <1>3, <1>4, <4>1
    <3> QED BY <3>1, <3>2
  <2> QED BY <1>1, <1>4, <2>1, <2>2, <2>3 DEF IInv, TypeOK, Branches
<1>8. MainInOrder'
  <2>1. ASSUME NEW i \in DOMAIN main', NEW j \in DOMAIN main', i <= j
        PROVE  main'[i].time <= main'[j].time
    <3>1. CASE j \in 1..n
      <4>1. i \in 1..n
        BY <1>3, <1>4, <2>1, <3>1
      <4> QED BY <1>3, <1>4, <2>1, <3>1, <4>1 DEF IInv, MainInOrder
    <3>2. CASE j = n + 1
      BY <1>2, <1>3, <1>4, <1>5, <3>2
    <3> QED BY <1>5, <3>1, <3>2
  <2>2. \A i \in DOMAIN main' : main'[i].time <= now
    BY <1>2, <1>3, <1>4, <1>5
  <2> QED BY <1>1, <2>1, <2>2 DEF MainInOrder
<1>9. ASSUME NEW q \in PRs PROVE BranchInv(pr[q])'
  <2>1. pr'[q] = IF q = p THEN None ELSE pr[q]
    BY <1>1 DEF IInv, TypeOK
  <2>2. CASE q = p
    BY <2>1, <2>2, NoneIs DEF BranchInv
  <2>3. CASE q # p
    <3>1. pr'[q] = pr[q] /\ pr[q].base \in 1..n /\ BranchInv(pr[q])
      BY <2>1, <2>3, BranchTypes DEF IInv, n
    <3>2. \A i \in 1..pr[q].base : i \in 1..n
      BY <1>3, <3>1
    <3>3. BranchInOrder(pr[q]) => BranchInOrder(pr[q])'
      <4>1. (\A i \in 1..pr[q].base : main'[i] = main[i]) /\ now' = now
        BY <1>1, <1>4, <3>2
      <4> QED BY <3>1, <4>1 DEF BranchInOrder
    <3>4. HasCooled(pr[q]) => HasCooled(pr[q])'
      <4>1. \A i \in 1..(n + 1) : i <= pr[q].base => i \in 1..pr[q].base
        BY <1>3, <3>1
      <4> QED BY <1>1, <1>3, <1>4, <3>1, <3>2, <4>1 DEF HasCooled, Matches
    <3> QED BY <1>1, <3>1, <3>3, <3>4 DEF BranchInv, Checked, Labelled
  <2> QED BY <2>2, <2>3
<1>10. LandedLabelled'
  <2>1. c.plain /\ c.files => c.kind = "policy" /\ (c.read => c.gated)
    BY <1>2, <1>6 DEF Labelled
  <2> QED BY <1>3, <1>4, <1>5, <2>1 DEF IInv, LandedLabelled
<1>11. PoliciesAreApart'
  <2> SUFFICES ASSUME NEW j \in DOMAIN main', main'[j].gated,
                      NEW i \in Matches(main'), i < j
               PROVE  main'[i].time + Window <= main'[j].time
    BY DEF PoliciesAreApart, Matches
  <2>1. i \in 1..n /\ i \in Matches(main) /\ main'[i] = main[i]
    BY <1>3, <1>4, <1>5 DEF Matches
  <2>2. CASE j \in 1..n
    BY <1>3, <1>4, <2>1, <2>2 DEF IInv, PoliciesAreApart
  <2>3. CASE j = n + 1
    <3>1. c.gated /\ pr[p].top.kind = "policy" /\ ~pr[p].unread
      BY <1>2, <1>4, <2>3
    <3>2. HasCooled(pr[p])
      BY <1>1, <1>6, <3>1 DEF Checked
    <3>3. i <= pr[p].base
      BY <1>1, <1>3, <2>1 DEF n
    <3> QED BY <1>2, <1>4, <2>1, <2>3, <3>2, <3>3 DEF HasCooled
  <2> QED BY <1>5, <2>2, <2>3
<1>12. ReplayedTreeLands'
  <2> SUFFICES ASSUME NEW j \in DOMAIN main', main'[j].gated
               PROVE  main'[j].head \in tags' /\ main'[j].base = j - 1
    BY DEF ReplayedTreeLands
  <2>1. CASE j \in 1..n
    BY <1>1, <1>3, <1>4, <2>1 DEF IInv, ReplayedTreeLands
  <2>2. CASE j = n + 1
    <3>1. c.gated /\ pr[p].top.kind = "policy" /\ ~pr[p].unread
      BY <1>2, <1>4, <2>2
    <3>2. c.head \in tags
      BY <1>1, <1>2, <1>6, <3>1 DEF Checked
    <3>3. c.base = j - 1
      BY <1>2, <1>3, <2>2
    <3> QED BY <1>1, <1>4, <2>2, <3>2, <3>3
  <2> QED BY <1>5, <2>1, <2>2
<1> QED BY <1>7, <1>8, <1>9, <1>10, <1>11, <1>12 DEF IInv

LEMMA NextIInv == IInv /\ [Next]_vars => IInv'
<1> SUFFICES ASSUME IInv, [Next]_vars PROVE IInv'
  OBVIOUS
<1>1. CASE Tick
  BY <1>1, TickIInv
<1>2. ASSUME NEW p \in PRs, NEW kind \in Kinds, NEW files \in BOOLEAN,
             Open(p, kind, files)
      PROVE  IInv'
  BY <1>2, OpenIInv
<1>3. ASSUME NEW p \in PRs, NEW kind \in Kinds, NEW files \in BOOLEAN,
             Push(p, kind, files) \/ Amend(p, kind, files)
      PROVE  IInv'
  BY <1>3, PushIInv, AmendIInv
<1>4. ASSUME NEW p \in PRs, Update(p) \/ Close(p) \/ TagReplay(p) PROVE IInv'
  BY <1>4, UpdateIInv, CloseIInv, TagReplayIInv
<1>5. ASSUME NEW p \in PRs, NEW title \in Titles,
             CoolingGate(p) \/ ReplayMarker(p) \/ ReadFails(p) \/ Merge(p, title)
      PROVE  IInv'
  BY <1>5, CoolingGateIInv, ReplayMarkerIInv, ReadFailsIInv, MergeIInv
<1>6. CASE UNCHANGED vars
  BY <1>6 DEF IInv, TypeOK, MainInOrder, BranchInv, BranchInOrder, Checked, HasCooled,
              Labelled, LandedLabelled, PoliciesAreApart, ReplayedTreeLands, Matches, vars
<1>7. "other" \in Titles
  BY DEF Titles
<1> QED BY <1>1, <1>2, <1>3, <1>4, <1>5, <1>6, <1>7 DEF Next

LEMMA Inductive == Spec => []IInv
BY InitIInv, NextIInv, PTL DEF Spec

(***************************************************************************)
(* What it gives                                                           *)
(***************************************************************************)
(* The types of the protected branch, the pull requests and the tags, and  *)
(* the bounds of the model.                                                *)
THEOREM GateTypes == Spec => []TypeOK
<1>1. IInv => TypeOK
  BY DEF IInv
<1> QED BY <1>1, Inductive, PTL

(* However many pull requests pass the cooling gate at once, a change of   *)
(* the policy that git did not fail lands Window after every other, those  *)
(* included that the gates could not read (stage 6 and the up-to-date rule *)
(* of the protected branch).                                               *)
THEOREM PoliciesApart == Spec => []PoliciesAreApart
<1>1. IInv => PoliciesAreApart
  BY DEF IInv
<1> QED BY <1>1, Inductive, PTL

(* What lands of a change that git did not fail is the head that was       *)
(* replayed on paper, on the base it was replayed on (stage 7).            *)
THEOREM ReplayedLands == Spec => []ReplayedTreeLands
<1>1. IInv => ReplayedTreeLands
  BY DEF IInv
<1> QED BY <1>1, Inductive, PTL

(* Where nobody goes round the hook, it labels what the gates look for:    *)
(* changes of policy files, each committed once and alone, land Window     *)
(* apart and replayed, if git did not fail the gates of the later one.     *)
THEOREM FilesCool == Spec => []PolicyFilesCool
<1>1. ASSUME IInv PROVE PolicyFilesCool
  <2> SUFFICES ASSUME NEW j \in DOMAIN main, main[j].plain, main[j].files,
                      main[j].read
               PROVE  /\ main[j].head \in tags
                      /\ \A i \in 1..(j - 1) : main[i].plain /\ main[i].files =>
                             main[i].time + Window <= main[j].time
    BY DEF PolicyFilesCool
  <2>1. main[j].gated
    BY <1>1 DEF IInv, LandedLabelled
  <2>2. ASSUME NEW i \in 1..(j - 1), main[i].plain, main[i].files
        PROVE  main[i].time + Window <= main[j].time
    <3>1. i \in DOMAIN main /\ i < j
      BY <1>1, MainTypes DEF IInv
    <3>2. i \in Matches(main)
      BY <1>1, <2>2, <3>1 DEF IInv, LandedLabelled, Matches
    <3> QED BY <1>1, <2>1, <3>1, <3>2 DEF IInv, PoliciesAreApart
  <2> QED BY <1>1, <2>1, <2>2 DEF IInv, ReplayedTreeLands
<1> QED BY <1>1, Inductive, PTL

(* Below a single commit, the history is the base's part of main.          *)
BaseHistory ==
    \A p \in PRs : pr[p].below = <<>> =>
        /\ DOMAIN History(p) = 1..pr[p].base
        /\ \A i \in 1..pr[p].base : History(p)[i] = main[i]

LEMMA BaseHistoryHolds == TypeOK => BaseHistory
<1> SUFFICES ASSUME TypeOK, NEW p \in PRs, pr[p].below = <<>>
             PROVE  /\ DOMAIN History(p) = 1..pr[p].base
                    /\ \A i \in 1..pr[p].base : History(p)[i] = main[i]
  BY DEF BaseHistory
<1>1. pr[p].base + Len(pr[p].below) = pr[p].base
  <2>1. Len(<<>>) = 0 /\ pr[p].base \in 1..Len(main) /\ Len(main) \in Nat
    BY BranchTypes, MainTypes
  <2> QED BY <2>1
<1> QED BY <1>1, HistoryIs

LEMMA BaseHistoryAfter == TypeOK' => BaseHistory'
BY BaseHistoryHolds, PTL

(* Time goes on and main only grows, by the merge of a pull request.       *)
LEMMA MainStep ==
    ASSUME IInv, [Next]_vars
    PROVE  now <= now' /\ (main' = main \/ \E q \in PRs, title \in Titles : Merge(q, title))
<1>1. now \in Nat
  BY MainTimes
<1>2. CASE Tick
  BY <1>1, <1>2 DEF Tick
<1>3. ASSUME NEW p \in PRs, NEW kind \in Kinds, NEW files \in BOOLEAN,
             Open(p, kind, files) \/ Push(p, kind, files) \/ Amend(p, kind, files)
      PROVE  now' = now /\ main' = main
  BY <1>3 DEF Open, Push, Amend, NewHead
<1>4. ASSUME NEW p \in PRs,
             \/ Update(p) \/ Close(p) \/ TagReplay(p)
             \/ CoolingGate(p) \/ ReplayMarker(p) \/ ReadFails(p)
      PROVE  now' = now /\ main' = main
  BY <1>4 DEF Update, Close, TagReplay, CoolingGate, ReplayMarker, ReadFails,
              NewHead
<1>5. ASSUME NEW p \in PRs, NEW title \in Titles, Merge(p, title) PROVE now' = now
  BY <1>5 DEF Merge
<1>6. CASE UNCHANGED vars
  BY <1>1, <1>6 DEF vars
<1> QED BY <1>1, <1>2, <1>3, <1>4, <1>5, <1>6 DEF Next

(* A single policy commit that has cooled stays so: whatever happens, the  *)
(* commits it is based on after the step had all cooled before it.         *)
LEMMA StaysCool ==
    ASSUME IInv, IInv', [Next]_vars, NEW p \in PRs,
           pr[p].open, pr[p].top.kind = "policy",
           Matches(main) \subseteq 1..pr[p].base, CoolingPasses(p),
           pr'[p].open, pr'[p].below = <<>>
    PROVE  CoolingPasses(p)'
<1>1. HasCooled(pr[p])
  BY CoolingMeans DEF IInv, BranchInv
<1>2. BaseHistory'
  BY BaseHistoryAfter DEF IInv
<1>3. /\ DOMAIN History(p)' = 1..pr'[p].base
      /\ \A i \in 1..pr'[p].base : History(p)'[i] = main'[i]
  BY <1>2 DEF BaseHistory
<1>4. \A i \in 1..pr'[p].base : i \in DOMAIN main /\ main'[i] = main[i]
  <2>1. CASE main' = main
    <3>1. pr'[p].base \in Nat /\ pr'[p].base <= Len(main)
      BY <2>1 DEF IInv, TypeOK
    <3> QED BY <2>1, <3>1, MainTypes DEF IInv
  <2>2. ASSUME NEW q \in PRs, NEW title \in Titles, Merge(q, title)
        PROVE  \A i \in 1..pr'[p].base : i \in DOMAIN main /\ main'[i] = main[i]
    <3>1. pr'[p] = IF p = q THEN None ELSE pr[p]
      BY <2>2 DEF Merge, IInv, TypeOK
    <3>2. pr'[p].base = pr[p].base /\ pr[p].base \in 1..Len(main)
      BY <3>1, NoneIs, BranchTypes DEF IInv
    <3>3. TypeOK /\ Squash(q, title) \in MainCommits /\ main' = Append(main, Squash(q, title))
      BY <2>2, SquashIs DEF IInv, Merge
    <3> DEFINE c == Squash(q, title)
    <3> HIDE DEF c
    <3>4. main' = Append(main, c) /\ c \in MainCommits
      BY <3>3 DEF c
    <3>5. /\ main \in Seq(MainCommits) /\ DOMAIN main = 1..Len(main) /\ Len(main) \in Nat
      BY <3>3, MainTypes
    <3>6. \A i \in 1..Len(main) : Append(main, c)[i] = main[i]
      BY <3>4, <3>5, AppendProperties
    <3> QED BY <3>2, <3>4, <3>5, <3>6
  <2> QED BY <2>1, <2>2, MainStep
<1>5. ASSUME NEW i \in Previous(History(p))' PROVE History(p)'[i].time + Window <= now'
  <2>1. i \in 1..pr'[p].base /\ History(p)'[i].kind \in {"policy", "mention"}
    BY <1>3 DEF Previous, Matches
  <2>2. i \in Matches(main) /\ History(p)'[i] = main[i]
    BY <1>3, <1>4, <2>1 DEF Matches
  <2>3. main[i].time + Window <= now /\ i \in DOMAIN main
    <3>1. i \in 1..pr[p].base /\ pr[p].base \in Nat
      BY <2>2, BranchTypes, MainTypes DEF IInv
    <3> QED BY <1>1, <2>2, <3>1 DEF HasCooled, Matches
  <2>4. main[i].time \in Nat /\ now \in Nat /\ now' \in Nat /\ Window \in Nat
    <3>1. now' \in 0..MaxTime
      BY DEF IInv, TypeOK
    <3> QED BY <2>3, <3>1, MainTimes, GatesAssumption
  <2> QED BY <2>2, <2>3, <2>4, MainStep
<1> QED BY <1>5 DEF CoolingPasses, Elapsed

(* Waiting is never in vain (the cooling window of stage 6).               *)
THEOREM CoolingKeeps == Spec => CoolingDoesNotRestart
<1> DEFINE Keeps ==
      \A p \in PRs :
         LET ready == pr[p].open /\ pr[p].below = <<>> /\ pr[p].top.kind = "policy"
                      /\ Matches(main) \subseteq 1..pr[p].base /\ CoolingPasses(p)
             same  == pr'[p].open /\ pr'[p].below = <<>> /\ pr'[p].top.kind = "policy"
         IN  ready /\ same => CoolingPasses(p)'
<1>1. ASSUME IInv, IInv', [Next]_vars PROVE Keeps
  BY <1>1, StaysCool
<1> QED BY <1>1, Inductive, PTL DEF Spec, CoolingDoesNotRestart
=============================================================================
