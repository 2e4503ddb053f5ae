---------------------------- MODULE SegmentProofs ----------------------------
(***************************************************************************)
(* The monthly archive, for any number of runs, months, builds, rows and   *)
(* faults.  Every document, wherever it is, is what the ledger gives for   *)
(* its month; a run that nobody disturbs finds in its files what it put    *)
(* there.  A step of one process changes its own files only (Local), which *)
(* gives the steps of all processes one argument.                          *)
(***************************************************************************)
EXTENDS SegmentChain, SequenceTheorems, TLAPS

Labels == {"idle", "open", "write", "replace", "dirsync", "exit"}
Descriptors == {"none", "tmp", "target", "gone"}

(* The processes, with documents from S.                                   *)
Processes(S) ==
    [pc : Labels, month : Months, s3 : BOOLEAN, place : Places, body : S, old : S,
     fd : Descriptors, alone : BOOLEAN]

Shape(S) ==
    /\ Absent \in S /\ Torn \in S /\ run \in [Runs -> Processes(S)]
    /\ archive \in [Files -> S] /\ tmp \in [Files -> S]

(* y differs from x in the fields pc, fd, place and old at most.           *)
Same(x, y) ==
    /\ y.month = x.month /\ y.s3 = x.s3 /\ y.body = x.body /\ y.alone = x.alone

Others(r) == \A q \in Runs : q # r => run'[q] = run[q]

LEMMA OpenTmpIs ==
    ASSUME NEW S, Shape(S), NEW r \in Runs, OpenTmp(r)
    PROVE  \E y \in Processes(S) :
             /\ run' = [run EXCEPT ![r] = y] /\ Same(run[r], y) /\ y.place = run[r].place
             /\ y.pc = "write" /\ y.fd = "tmp" /\ y.old = run[r].old
<1> DEFINE x == run[r]
           y == [x EXCEPT !.pc = "write", !.fd = "tmp"]
<1>1. x \in Processes(S) /\ run' = [run EXCEPT ![r] = y] /\ x = run[r]
  BY DEF Shape, OpenTmp
<1>2. "write" \in Labels /\ "tmp" \in Descriptors
  BY DEF Labels, Descriptors
<1> HIDE DEF x
<1>3. y \in Processes(S) /\ Same(x, y) /\ y.place = x.place
      /\ y.pc = "write" /\ y.fd = "tmp" /\ y.old = x.old
  BY <1>1, <1>2 DEF Processes, Same
<1> HIDE DEF y
<1> QED BY <1>1, <1>3

LEMMA WriteBodyIs ==
    ASSUME NEW S, Shape(S), NEW r \in Runs, WriteBody(r)
    PROVE  \E y \in Processes(S) :
             /\ run' = [run EXCEPT ![r] = y] /\ Same(run[r], y) /\ y.place = run[r].place
             /\ y.pc = "replace" /\ y.fd = "none" /\ y.old = run[r].old
<1> DEFINE x == run[r]
           y == [x EXCEPT !.pc = "replace", !.fd = "none"]
<1>1. x \in Processes(S) /\ run' = [run EXCEPT ![r] = y] /\ x = run[r]
  BY DEF Shape, WriteBody
<1>2. "replace" \in Labels /\ "none" \in Descriptors
  BY DEF Labels, Descriptors
<1> HIDE DEF x
<1>3. y \in Processes(S) /\ Same(x, y) /\ y.place = x.place
      /\ y.pc = "replace" /\ y.fd = "none" /\ y.old = x.old
  BY <1>1, <1>2 DEF Processes, Same
<1> HIDE DEF y
<1> QED BY <1>1, <1>3

LEMMA NextPlaceIs ==
    ASSUME NEW S, Shape(S), NEW r \in Runs
    PROVE  LET y == NextPlace(r) IN
           /\ y \in Processes(S) /\ Same(run[r], y) /\ y.fd = run[r].fd /\ y.old = Absent
           /\ \/ /\ run[r].place = "local" /\ run[r].s3 /\ y.pc = "open" /\ y.place = "s3"
              \/ /\ ~(run[r].place = "local" /\ run[r].s3)
                 /\ y.pc = "exit" /\ y.place = run[r].place
<1> DEFINE x == run[r]
           y == IF x.place = "local" /\ x.s3
                THEN [x EXCEPT !.pc = "open", !.place = "s3", !.old = Absent]
                ELSE [x EXCEPT !.pc = "exit", !.old = Absent]
<1>1. x \in Processes(S) /\ NextPlace(r) = y /\ x = run[r] /\ Absent \in S
  BY DEF Shape, NextPlace
<1>2. {"open", "exit"} \subseteq Labels /\ "s3" \in Places
  BY DEF Labels, Places
<1> HIDE DEF x
<1>3. /\ y \in Processes(S) /\ Same(x, y) /\ y.fd = x.fd /\ y.old = Absent
      /\ \/ /\ x.place = "local" /\ x.s3 /\ y.pc = "open" /\ y.place = "s3"
         \/ /\ ~(x.place = "local" /\ x.s3) /\ y.pc = "exit" /\ y.place = x.place
  BY <1>1, <1>2 DEF Processes, Same
<1> HIDE DEF y
<1> QED BY <1>1, <1>3

LEMMA IdleIs ==
    ASSUME NEW S, Absent \in S
    PROVE  Idle \in Processes(S) /\ Idle.pc = "idle" /\ Idle.fd = "none"
           /\ Idle.body = Absent /\ Idle.old = Absent
BY SegmentAssumption DEF Idle, Processes, Labels, Descriptors, Months, Places

(* What Follow makes of one other process.                                 *)
Followed(x, y) ==
    /\ Same(x, y) /\ y.pc = x.pc /\ y.place = x.place /\ y.old = x.old
    /\ y.fd = x.fd \/ (x.fd # "none" /\ y.fd # "none")

LEMMA FollowIs ==
    ASSUME NEW S, Shape(S), NEW r \in Runs, NEW me \in Processes(S),
           NEW d \in Descriptors, d # "none", Follow(r, me, d)
    PROVE  /\ run' \in [Runs -> Processes(S)] /\ run'[r] = me
           /\ \A q \in Runs : q # r => /\ Followed(run[q], run'[q])
                                       /\ File(q) # File(r) => run'[q] = run[q]
<1> DEFINE to(q) == [run[q] EXCEPT !.fd = IF @ = "tmp" THEN d
                                         ELSE IF d = "target" THEN "gone" ELSE @]
           next(q) == IF q = r THEN me
                      ELSE IF File(q) # File(r) \/ run[q].fd = "none" THEN run[q]
                      ELSE to(q)
<1>1. run' = [q \in Runs |-> next(q)]
  BY DEF Follow
<1>2. ASSUME NEW q \in Runs
      PROVE  to(q) \in Processes(S) /\ (run[q].fd # "none" => Followed(run[q], to(q)))
  <2> DEFINE x == run[q]
             e == IF x.fd = "tmp" THEN d ELSE IF d = "target" THEN "gone" ELSE x.fd
             y == [x EXCEPT !.fd = e]
  <2>1. x \in Processes(S) /\ to(q) = y /\ x = run[q]
    BY DEF Shape
  <2>2. x.fd \in Descriptors /\ "gone" \in Descriptors
    BY <2>1 DEF Processes, Descriptors
  <2> HIDE DEF x
  <2>3. e \in Descriptors /\ (x.fd # "none" => e # "none")
    BY <2>2
  <2> HIDE DEF e
  <2>4. y \in Processes(S) /\ Same(x, y) /\ y.pc = x.pc /\ y.place = x.place
        /\ y.old = x.old /\ y.fd = e
    BY <2>1, <2>3 DEF Processes, Same
  <2> HIDE DEF y
  <2> QED BY <2>1, <2>3, <2>4 DEF Followed
<1>3. \A q \in Runs : next(q) \in Processes(S)
  BY <1>2 DEF Shape
<1>4. \A q \in Runs : Followed(run[q], run[q])
  BY DEF Followed, Same
<1>5. \A q \in Runs : q # r => Followed(run[q], next(q))
                             /\ (File(q) # File(r) => next(q) = run[q])
  BY <1>2, <1>4
<1>6. next(r) = me
  OBVIOUS
<1> HIDE DEF next
<1> QED BY <1>1, <1>3, <1>5, <1>6

(***************************************************************************)
(* The invariant                                                           *)
(***************************************************************************)
(* A document of the month m, if it is whole, is what the ledger still     *)
(* gives, when the month was over and the clock was never set back.        *)
Good(c, m, table, at, back) ==
    \/ c \in {Absent, Torn}
    \/ /\ c.kind = "body" /\ c.month = m /\ m \in Months /\ c.ids \subseteq DOMAIN table
       /\ c.sha \in Builds /\ c.hash = SegmentHash(c.prev, c.ids, c.sha)
       /\ c.closed \in BOOLEAN
       /\ c.closed /\ ~back => m < at /\ c.ids = {i \in DOMAIN table : InMonth(table[i], m)}

GoodFor(c, m) == Good(c, m, rows, now, stepped)

Documents ==
    /\ \A f \in Files : GoodFor(archive[f], f[2]) /\ GoodFor(tmp[f], f[2])
    /\ \A r \in Runs : GoodFor(run[r].body, run[r].month) /\ GoodFor(run[r].old, run[r].month)

Active(r) == run[r].pc # "idle"

Private(r) == \A q \in Runs : q # r /\ Active(q) => run[q].month # run[r].month

(* How far a run that nobody disturbs is, in what its files hold.          *)
Doing(r) ==
    LET m == run[r].month IN
    /\ At(r, "write") => run[r].fd = "tmp" /\ tmp[File(r)] = Torn
    /\ At(r, "replace") => tmp[File(r)] = run[r].body
    /\ At(r, "dirsync") => archive[File(r)] = run[r].body
    /\ run[r].place = "s3" => run[r].s3 /\ archive[<<"local", m>>] = run[r].body
    /\ At(r, "exit") => /\ archive[<<"local", m>>] = run[r].body
                        /\ run[r].s3 => archive[<<"s3", m>>] = run[r].body

Undisturbed(r) == Active(r) /\ run[r].alone => Private(r) /\ Doing(r)

NoOverlap ==
    ~overlapped => /\ \A r \in Runs : Active(r) => run[r].alone
                   /\ \A f \in Files : archive[f] # Torn
                   /\ \A r \in Runs : run[r].old # Torn

FdInv == \A r \in Runs : /\ run[r].fd # "none" => At(r, "write")
                         /\ Active(r) => run[r].body.kind = "body"

Basic ==
    /\ rows \in Seq(Months) /\ Len(rows) <= MaxRows /\ now \in Months /\ build \in Builds
    /\ stepped \in BOOLEAN /\ overlapped \in BOOLEAN /\ killed \in BOOLEAN
    /\ starts \in 0..MaxStarts

IInv ==
    /\ \E S : Shape(S)
    /\ Basic /\ Documents /\ FdInv /\ NoOverlap /\ TmpNeedsAKill
    /\ \A r \in Runs : Undisturbed(r)

(***************************************************************************)
(* A step of an active process: it changes its own file at most, to        *)
(* something the file, its tmp sibling or the process had.                 *)
(***************************************************************************)
OwnFile(r) ==
    /\ \A f \in Files : f # File(r) => archive'[f] = archive[f] /\ tmp'[f] = tmp[f]
    /\ archive'[File(r)] \in {Torn, archive[File(r)], tmp[File(r)], run[r].body}
    /\ tmp'[File(r)] \in {Absent, Torn, tmp[File(r)], run[r].body}

OwnState(r) ==
    \/ run'[r] = Idle
    \/ /\ Same(run[r], run'[r])
       /\ run'[r].pc # "idle"
       /\ run'[r].old \in {Absent, run[r].old, archive[File(r)]}
       /\ run'[r].fd # "none" => run'[r].pc = "write"

Neighbours(r) ==
    \A q \in Runs : q # r =>
        /\ Followed(run[q], run'[q])
        /\ File(q) # File(r) => run'[q] = run[q]

OwnTmp(r) ==
    ~killed' /\ tmp'[File(r)] # Absent =>
        \E q \in Runs : File(q)' = File(r) /\ run'[q].pc \in {"write", "replace"}

Local(S, r) ==
    /\ Shape(S)' /\ Active(r)
    /\ OwnFile(r) /\ OwnState(r) /\ Neighbours(r) /\ OwnTmp(r)
    /\ run'[r].pc # "idle" /\ run[r].alone => Doing(r)'
    /\ ~overlapped => archive'[File(r)] # Torn
    /\ UNCHANGED <<rows, now, build, stepped, overlapped, starts>>
    /\ killed' \in BOOLEAN /\ (killed => killed')

LEMMA FileTypes ==
    ASSUME NEW S, Shape(S), NEW r \in Runs
    PROVE  /\ File(r) \in Files /\ run[r].month \in Months /\ run[r].place \in Places
           /\ File(r) = <<run[r].place, run[r].month>> /\ File(r)[2] = run[r].month
           /\ <<"local", run[r].month>> \in Files /\ <<"s3", run[r].month>> \in Files
           /\ run[r].body \in S /\ run[r].old \in S /\ run[r] \in Processes(S)
           /\ archive[File(r)] \in S /\ tmp[File(r)] \in S
<1>1. run[r] \in Processes(S)
  BY DEF Shape
<1>2. run[r].month \in Months /\ run[r].place \in Places /\ run[r].body \in S
      /\ run[r].old \in S
  BY <1>1 DEF Processes
<1>3. \A p \in Places, m \in Months : <<p, m>> \in Files
  BY DEF Files
<1>4. "local" \in Places /\ "s3" \in Places
  BY DEF Places
<1>5. File(r) \in Files
  BY <1>2, <1>3 DEF File
<1> QED BY <1>1, <1>2, <1>3, <1>4, <1>5 DEF File, Shape

LEMMA OthersUndisturbed ==
    ASSUME NEW S, Shape(S), NEW r \in Runs, Local(S, r), NEW q \in Runs, q # r,
           Undisturbed(q)
    PROVE  Undisturbed(q)'
<1>1. Followed(run[q], run'[q])
  BY DEF Local, Neighbours
<1> SUFFICES ASSUME Active(q)', run'[q].alone
             PROVE  Private(q)' /\ Doing(q)'
  BY DEF Undisturbed
<1>2. Active(q) /\ run[q].alone /\ Private(q) /\ Doing(q)
  BY <1>1 DEF Active, Followed, Same, Undisturbed
<1>3. run[r].month # run[q].month
  BY <1>2 DEF Private, Local
<1>4. File(q) # File(r) /\ <<"local", run[q].month>> # File(r)
      /\ <<"s3", run[q].month>> # File(r)
  BY <1>3 DEF File
<1>5. run'[q] = run[q]
  BY <1>4 DEF Local, Neighbours
<1>6. Private(q)'
  <2> SUFFICES ASSUME NEW x \in Runs, x # q, Active(x)' PROVE run'[x].month # run'[q].month
    BY DEF Private
  <2>1. CASE x = r
    <3>1. run'[r].month = run[r].month
      BY <2>1 DEF Local, OwnState, Same, Active, Idle
    <3> QED BY <1>3, <1>5, <2>1, <3>1
  <2>2. CASE x # r
    <3>1. Followed(run[x], run'[x])
      BY <2>2 DEF Local, Neighbours
    <3> QED BY <1>2, <1>5, <3>1 DEF Followed, Same, Active, Private
  <2> QED BY <2>1, <2>2
<1>7. Doing(q)'
  <2>1. /\ archive'[File(q)] = archive[File(q)] /\ tmp'[File(q)] = tmp[File(q)]
        /\ archive'[<<"local", run[q].month>>] = archive[<<"local", run[q].month>>]
        /\ archive'[<<"s3", run[q].month>>] = archive[<<"s3", run[q].month>>]
    BY <1>4, FileTypes DEF Local, OwnFile
  <2>2. File(q)' = File(q)
    BY <1>5 DEF File
  <2> QED BY <1>2, <1>5, <2>1, <2>2 DEF Doing, At
<1> QED BY <1>6, <1>7

LEMMA LocalIInv ==
    ASSUME IInv, NEW S, Shape(S), NEW r \in Runs, Local(S, r)
    PROVE  IInv'
<1>1. /\ UNCHANGED <<rows, now, build, stepped, overlapped, starts>> /\ Shape(S)'
      /\ OwnFile(r) /\ OwnState(r) /\ Neighbours(r) /\ OwnTmp(r) /\ Active(r)
  BY DEF Local
<1>2. Basic'
  BY <1>1 DEF Local, IInv, Basic
<1>3. \A m : GoodFor(Torn, m) /\ GoodFor(Absent, m)
  BY DEF GoodFor, Good
<1>4. GoodFor(archive[File(r)], run[r].month) /\ GoodFor(tmp[File(r)], run[r].month)
      /\ GoodFor(run[r].body, run[r].month) /\ GoodFor(run[r].old, run[r].month)
  BY FileTypes DEF IInv, Documents
<1>5. ASSUME NEW f \in Files PROVE GoodFor(archive[f], f[2])' /\ GoodFor(tmp[f], f[2])'
  <2>1. CASE f = File(r)
    BY <1>1, <1>3, <1>4, <2>1, FileTypes DEF OwnFile, GoodFor
  <2>2. CASE f # File(r)
    BY <1>1, <2>2 DEF OwnFile, GoodFor, IInv, Documents
  <2> QED BY <2>1, <2>2
<1>6. ASSUME NEW q \in Runs
      PROVE  GoodFor(run[q].body, run[q].month)' /\ GoodFor(run[q].old, run[q].month)'
  <2>1. CASE q = r /\ run'[r] = Idle
    BY <1>1, <1>3, <2>1 DEF GoodFor, Idle
  <2>2. CASE q = r /\ run'[r] # Idle
    BY <1>1, <1>3, <1>4, <2>2 DEF OwnState, Same, GoodFor
  <2>3. CASE q # r
    BY <1>1, <2>3 DEF Neighbours, Followed, Same, GoodFor, IInv, Documents
  <2> QED BY <2>1, <2>2, <2>3
<1>7. FdInv'
  <2> SUFFICES ASSUME NEW q \in Runs
               PROVE  /\ run'[q].fd # "none" => run'[q].pc = "write"
                      /\ run'[q].pc # "idle" => run'[q].body.kind = "body"
    BY DEF FdInv, At, Active
  <2>1. CASE q = r
    BY <1>1, <2>1 DEF OwnState, Same, Idle, IInv, FdInv, Active
  <2>2. CASE q # r
    BY <1>1, <2>2 DEF Neighbours, Followed, Same, IInv, FdInv, Active, At
  <2> QED BY <2>1, <2>2
<1>8. NoOverlap'
  <2> SUFFICES ASSUME ~overlapped
               PROVE  /\ \A q \in Runs : run'[q].pc # "idle" => run'[q].alone
                      /\ \A f \in Files : archive'[f] # Torn
                      /\ \A q \in Runs : run'[q].old # Torn
    BY <1>1 DEF NoOverlap, Active
  <2>1. /\ \A q \in Runs : Active(q) => run[q].alone
        /\ \A f \in Files : archive[f] # Torn
        /\ \A q \in Runs : run[q].old # Torn
    BY DEF IInv, NoOverlap
  <2>2. \A f \in Files : archive'[f] # Torn
    BY <1>1, <2>1 DEF OwnFile, Local
  <2>3. ASSUME NEW q \in Runs
        PROVE  (run'[q].pc # "idle" => run'[q].alone) /\ run'[q].old # Torn
    <3>1. CASE q = r
      <4>1. Absent # Torn /\ archive[File(r)] # Torn /\ run[r].old # Torn /\ run[r].alone
        BY <1>1, <2>1, FileTypes DEF Absent, Torn
      <4>2. Idle.pc = "idle" /\ Idle.old = Absent
        BY DEF Idle
      <4> QED BY <1>1, <3>1, <4>1, <4>2 DEF OwnState, Same
    <3>2. CASE q # r
      BY <1>1, <2>1, <3>2 DEF Neighbours, Followed, Same, Active
    <3> QED BY <3>1, <3>2
  <2> QED BY <2>2, <2>3
<1>9. TmpNeedsAKill'
  <2> SUFFICES ASSUME ~killed', NEW f \in Files, tmp'[f] # Absent
               PROVE  \E q \in Runs : File(q)' = f /\ run'[q].pc \in {"write", "replace"}
    BY DEF TmpNeedsAKill
  <2>1. CASE f = File(r)
    BY <1>1, <2>1 DEF OwnTmp
  <2>2. CASE f # File(r)
    <3>1. tmp[f] # Absent /\ ~killed
      BY <1>1, <2>2 DEF OwnFile, Local
    <3>2. PICK q \in Runs : File(q) = f /\ run[q].pc \in {"write", "replace"}
      BY <3>1 DEF IInv, TmpNeedsAKill
    <3>3. q # r /\ File(q) # File(r)
      BY <2>2, <3>2
    <3>4. run'[q] = run[q]
      BY <1>1, <3>3 DEF Neighbours
    <3> QED BY <3>2, <3>4 DEF File
  <2> QED BY <2>1, <2>2
<1>10. ASSUME NEW q \in Runs PROVE Undisturbed(q)'
  <2>1. CASE q = r
    <3> SUFFICES ASSUME run'[r].pc # "idle", run'[r].alone PROVE Private(r)' /\ Doing(r)'
      BY <2>1 DEF Undisturbed, Active
    <3>1. run[r].alone /\ run'[r].month = run[r].month
      <4>1. Idle.pc = "idle"
        BY DEF Idle
      <4> QED BY <1>1, <4>1 DEF OwnState, Same
    <3>2. Private(r)
      BY <1>1, <3>1 DEF IInv, Undisturbed
    <3>3. Private(r)'
      BY <1>1, <3>1, <3>2 DEF Private, Neighbours, Followed, Same, Active
    <3> QED BY <3>1, <3>3 DEF Local
  <2>2. CASE q # r
    BY <2>2, OthersUndisturbed DEF IInv
  <2> QED BY <2>1, <2>2
<1>11. \E T : Shape(T)'
  BY <1>1
<1> QED BY <1>2, <1>5, <1>6, <1>7, <1>8, <1>9, <1>10, <1>11 DEF IInv, Documents

(***************************************************************************)
(* The steps of a process                                                  *)
(***************************************************************************)
LEMMA OneProcess ==
    ASSUME NEW S, Shape(S), NEW r \in Runs, NEW y \in Processes(S),
           run' = [run EXCEPT ![r] = y]
    PROVE  run' \in [Runs -> Processes(S)] /\ run'[r] = y /\ Neighbours(r)
BY DEF Shape, Neighbours, Followed, Same

LEMMA OpenTmpIInv == ASSUME IInv, NEW r \in Runs, OpenTmp(r) PROVE IInv'
<1>1. PICK S : Shape(S)
  BY DEF IInv
<1>2. PICK y \in Processes(S) :
        /\ run' = [run EXCEPT ![r] = y] /\ Same(run[r], y) /\ y.place = run[r].place
        /\ y.pc = "write" /\ y.fd = "tmp" /\ y.old = run[r].old
  BY <1>1, OpenTmpIs
<1>3. run' \in [Runs -> Processes(S)] /\ run'[r] = y /\ Neighbours(r)
  BY <1>1, <1>2, OneProcess
<1>4. /\ At(r, "open") /\ tmp' = [tmp EXCEPT ![File(r)] = Torn]
      /\ UNCHANGED <<rows, now, build, archive, stepped, overlapped, killed, starts>>
  BY DEF OpenTmp, Opened
<1>5. Active(r) /\ Undisturbed(r)
  BY <1>4 DEF At, Active, IInv
<1>6. tmp' \in [Files -> S] /\ tmp'[File(r)] = Torn /\ OwnFile(r)
  BY <1>1, <1>4, FileTypes DEF Shape, OwnFile
<1>7. File(r)' = File(r)
  BY <1>2, <1>3 DEF File, Same
<1>8. OwnState(r) /\ OwnTmp(r)
  BY <1>2, <1>3, <1>7 DEF OwnState, OwnTmp
<1>9. run'[r].pc # "idle" /\ run[r].alone => Doing(r)'
  BY <1>2, <1>3, <1>4, <1>5, <1>6, <1>7 DEF Undisturbed, Doing, Same, At
<1>10. Shape(S)' /\ (~overlapped => archive'[File(r)] # Torn)
  BY <1>1, <1>3, <1>4, <1>6, FileTypes DEF Shape, IInv, NoOverlap
<1>11. Local(S, r)
  BY <1>3, <1>4, <1>5, <1>6, <1>8, <1>9, <1>10 DEF Local, IInv, Basic
<1> QED BY <1>1, <1>11, LocalIInv

LEMMA WriteBodyIInv == ASSUME IInv, NEW r \in Runs, WriteBody(r) PROVE IInv'
<1>1. PICK S : Shape(S)
  BY DEF IInv
<1>2. PICK y \in Processes(S) :
        /\ run' = [run EXCEPT ![r] = y] /\ Same(run[r], y) /\ y.place = run[r].place
        /\ y.pc = "replace" /\ y.fd = "none" /\ y.old = run[r].old
  BY <1>1, WriteBodyIs
<1>3. run' \in [Runs -> Processes(S)] /\ run'[r] = y /\ Neighbours(r)
  BY <1>1, <1>2, OneProcess
<1>4. /\ At(r, "write") /\ Write(r)
      /\ UNCHANGED <<rows, now, build, stepped, overlapped, killed, starts>>
  BY DEF WriteBody
<1>5. Active(r) /\ Undisturbed(r)
  BY <1>4 DEF At, Active, IInv
<1>6. \A c : Over(r, c) \subseteq {run[r].body, Torn}
  BY DEF Over
<1>7. /\ archive' \in [Files -> S] /\ tmp' \in [Files -> S] /\ OwnFile(r)
      /\ run[r].fd = "tmp" => archive' = archive /\ tmp'[File(r)] \in Over(r, tmp[File(r)])
  <2>1. CASE run[r].fd = "tmp"
    <3>1. PICK c \in Over(r, tmp[File(r)]) :
            archive' = archive /\ tmp' = [tmp EXCEPT ![File(r)] = c]
      BY <1>4, <2>1 DEF Write
    <3>2. c \in S /\ c \in {run[r].body, Torn} /\ File(r) \in Files
      BY <1>1, <1>6, FileTypes DEF Shape
    <3> QED BY <1>1, <3>1, <3>2 DEF Shape, OwnFile
  <2>2. CASE run[r].fd = "target"
    <3>1. PICK c \in Over(r, archive[File(r)]) :
            tmp' = tmp /\ archive' = [archive EXCEPT ![File(r)] = c]
      BY <1>4, <2>2 DEF Write
    <3>2. c \in S /\ c \in {run[r].body, Torn} /\ File(r) \in Files
      BY <1>1, <1>6, FileTypes DEF Shape
    <3> QED BY <1>1, <2>2, <3>1, <3>2 DEF Shape, OwnFile
  <2>3. CASE run[r].fd # "tmp" /\ run[r].fd # "target"
    <3>1. tmp' = tmp /\ archive' = archive
      BY <1>4, <2>3 DEF Write
    <3> QED BY <1>1, <2>3, <3>1 DEF Shape, OwnFile
  <2> QED BY <2>1, <2>2, <2>3
<1>8. File(r)' = File(r)
  BY <1>2, <1>3 DEF File, Same
<1>9. OwnState(r) /\ OwnTmp(r)
  BY <1>2, <1>3, <1>8 DEF OwnState, OwnTmp
<1>10. ASSUME run[r].alone
       PROVE  archive' = archive /\ tmp'[File(r)] = run[r].body
  <2>1. run[r].fd = "tmp" /\ tmp[File(r)] = Torn
    BY <1>4, <1>5, <1>10 DEF Undisturbed, Doing
  <2>2. Over(r, Torn) = {run[r].body}
    BY DEF Over, Torn
  <2> QED BY <1>7, <2>1, <2>2
<1>11. run'[r].pc # "idle" /\ run[r].alone => Doing(r)'
  BY <1>2, <1>3, <1>5, <1>8, <1>10 DEF Undisturbed, Doing, Same, At
<1>12. ~overlapped => archive'[File(r)] # Torn
  BY <1>1, <1>5, <1>10, FileTypes DEF IInv, NoOverlap
<1>13. Shape(S)'
  BY <1>1, <1>3, <1>7 DEF Shape
<1>14. Local(S, r)
  BY <1>3, <1>4, <1>5, <1>7, <1>9, <1>11, <1>12, <1>13 DEF Local, IInv, Basic
<1> QED BY <1>1, <1>14, LocalIInv

LEMMA ReplaceIInv == ASSUME IInv, NEW r \in Runs, Replace(r) PROVE IInv'
<1>1. PICK S : Shape(S)
  BY DEF IInv
<1> DEFINE x == run[r]
           o == archive[File(r)]
           y == [x EXCEPT !.pc = "dirsync", !.old = o]
<1>2. /\ At(r, "replace") /\ tmp[File(r)] # Absent
      /\ archive' = [archive EXCEPT ![File(r)] = tmp[File(r)]]
      /\ tmp' = [tmp EXCEPT ![File(r)] = Absent]
      /\ Follow(r, y, "target")
      /\ UNCHANGED <<rows, now, build, stepped, overlapped, killed, starts>>
  BY DEF Replace
<1>3. x \in Processes(S) /\ o \in S /\ x = run[r] /\ o = archive[File(r)]
  BY <1>1, FileTypes
<1>4. x.pc = "replace" /\ Active(r) /\ Undisturbed(r) /\ x.fd = "none"
  BY <1>2 DEF At, Active, IInv, FdInv
<1> HIDE DEF x, o
<1>5. y \in Processes(S) /\ Same(x, y) /\ y.place = x.place
      /\ y.pc = "dirsync" /\ y.fd = x.fd /\ y.old = o
  BY <1>3 DEF Processes, Same, Labels
<1> HIDE DEF y
<1>6. /\ run' \in [Runs -> Processes(S)] /\ run'[r] = y /\ Neighbours(r)
  <2>1. "target" \in Descriptors
    BY DEF Descriptors
  <2> QED BY <1>1, <1>2, <1>5, <2>1, FollowIs DEF Neighbours
<1>7. /\ archive' \in [Files -> S] /\ tmp' \in [Files -> S] /\ OwnFile(r)
      /\ archive'[File(r)] = tmp[File(r)] /\ tmp'[File(r)] = Absent
  BY <1>1, <1>2, FileTypes DEF Shape, OwnFile
<1>8. File(r)' = File(r)
  BY <1>3, <1>5, <1>6 DEF File, Same
<1>9. OwnState(r) /\ OwnTmp(r)
  BY <1>3, <1>4, <1>5, <1>6, <1>7 DEF OwnState, OwnTmp
<1>10. run[r].alone => tmp[File(r)] = run[r].body
  BY <1>2, <1>4 DEF Undisturbed, Doing
<1>11. run'[r].pc # "idle" /\ run[r].alone => Doing(r)'
  <2> SUFFICES ASSUME run[r].alone PROVE Doing(r)'
    OBVIOUS
  <2>1. Doing(r) /\ run'[r].body = run[r].body /\ run'[r].month = run[r].month
        /\ run'[r].place = run[r].place /\ run'[r].s3 = run[r].s3
        /\ run'[r].pc = "dirsync"
    BY <1>3, <1>4, <1>5, <1>6 DEF Undisturbed, Same
  <2>2. archive'[File(r)] = run[r].body
    BY <1>7, <1>10
  <2>3. run[r].place = "s3" => archive'[<<"local", run[r].month>>]
                               = archive[<<"local", run[r].month>>]
    <3> HAVE run[r].place = "s3"
    <3>1. File(r) # <<"local", run[r].month>>
      BY DEF File
    <3> QED BY <1>1, <1>7, <3>1, FileTypes DEF OwnFile
  <2> QED BY <1>8, <2>1, <2>2, <2>3 DEF Doing, At
<1>12. ~overlapped => archive'[File(r)] # Torn
  <2> SUFFICES ASSUME ~overlapped PROVE tmp[File(r)] # Torn
    BY <1>7
  <2>1. run[r].alone /\ run[r].body.kind = "body"
    BY <1>4 DEF IInv, NoOverlap, FdInv
  <2> QED BY <1>10, <2>1 DEF Torn
<1>13. Shape(S)'
  BY <1>1, <1>6, <1>7 DEF Shape
<1>14. Local(S, r)
  BY <1>2, <1>4, <1>6, <1>7, <1>9, <1>11, <1>12, <1>13 DEF Local, IInv, Basic
<1> QED BY <1>1, <1>14, LocalIInv

LEMMA SyncDirIInv == ASSUME IInv, NEW r \in Runs, SyncDir(r) PROVE IInv'
<1>1. PICK S : Shape(S)
  BY DEF IInv
<1> DEFINE y == NextPlace(r)
<1>2. /\ At(r, "dirsync") /\ run' = [run EXCEPT ![r] = y]
      /\ UNCHANGED <<rows, now, build, archive, tmp, stepped, overlapped, killed, starts>>
  BY DEF SyncDir
<1>3. /\ y \in Processes(S) /\ Same(run[r], y) /\ y.fd = run[r].fd /\ y.old = Absent
      /\ \/ /\ run[r].place = "local" /\ run[r].s3 /\ y.pc = "open" /\ y.place = "s3"
         \/ /\ ~(run[r].place = "local" /\ run[r].s3)
            /\ y.pc = "exit" /\ y.place = run[r].place
  BY <1>1, NextPlaceIs
<1> HIDE DEF y
<1>4. run' \in [Runs -> Processes(S)] /\ run'[r] = y /\ Neighbours(r)
  BY <1>1, <1>2, <1>3, OneProcess
<1>5. Active(r) /\ Undisturbed(r) /\ run[r].fd = "none" /\ run[r].pc = "dirsync"
  BY <1>2 DEF At, Active, IInv, FdInv
<1>6. OwnFile(r) /\ OwnState(r)
  BY <1>2, <1>3, <1>4, <1>5 DEF OwnFile, OwnState
<1>7. OwnTmp(r)
  <2> SUFFICES ASSUME ~killed, tmp[File(r)] # Absent
               PROVE  \E q \in Runs : File(q)' = File(r) /\ run'[q].pc \in {"write", "replace"}
    BY <1>2 DEF OwnTmp
  <2>1. PICK q \in Runs : File(q) = File(r) /\ run[q].pc \in {"write", "replace"}
    BY <1>1, FileTypes DEF IInv, TmpNeedsAKill
  <2>2. q # r
    BY <1>5, <2>1
  <2>3. run'[q] = run[q]
    BY <1>1, <1>2, <2>2 DEF Shape
  <2> QED BY <2>1, <2>3 DEF File
<1>8. run'[r].pc # "idle" /\ run[r].alone => Doing(r)'
  <2> SUFFICES ASSUME run[r].alone PROVE Doing(r)'
    OBVIOUS
  <2>1. /\ Doing(r) /\ run'[r].body = run[r].body /\ run'[r].month = run[r].month
        /\ run'[r].s3 = run[r].s3 /\ archive' = archive /\ run'[r].pc = y.pc
        /\ run'[r].place = y.place
    BY <1>2, <1>3, <1>4, <1>5 DEF Undisturbed, Same
  <2>2. archive[File(r)] = run[r].body
    BY <1>5, <2>1 DEF Doing, At
  <2>3. CASE run[r].place = "local"
    <3>1. File(r) = <<"local", run[r].month>>
      BY <2>3 DEF File
    <3> QED BY <1>3, <2>1, <2>2, <2>3, <3>1 DEF Doing, At
  <2>4. CASE run[r].place = "s3"
    <3>1. File(r) = <<"s3", run[r].month>>
      BY <2>4 DEF File
    <3> QED BY <1>3, <2>1, <2>2, <2>4, <3>1 DEF Doing, At
  <2> QED BY <1>1, <2>3, <2>4, FileTypes DEF Places
<1>9. ~overlapped => archive'[File(r)] # Torn
  BY <1>1, <1>2, FileTypes DEF IInv, NoOverlap
<1>10. Shape(S)'
  BY <1>1, <1>2, <1>4 DEF Shape
<1>11. Local(S, r)
  BY <1>2, <1>4, <1>5, <1>6, <1>7, <1>8, <1>9, <1>10 DEF Local, IInv, Basic
<1> QED BY <1>1, <1>11, LocalIInv

(* A process that ends, having touched its tmp file at most.               *)
LEMMA EndIInv ==
    ASSUME IInv, NEW S, Shape(S), NEW r \in Runs, Active(r), run' = [run EXCEPT ![r] = Idle],
           \/ killed' = TRUE
           \/ killed' = killed /\ (tmp[File(r)] = Absent \/ run[r].pc \notin {"write", "replace"}),
           UNCHANGED <<rows, now, build, archive, tmp, stepped, overlapped, starts>>
    PROVE  IInv'
<1>1. Idle \in Processes(S) /\ Idle.pc = "idle"
  BY IdleIs DEF Shape
<1>2. run' \in [Runs -> Processes(S)] /\ run'[r] = Idle /\ Neighbours(r)
  BY <1>1, OneProcess
<1>3. OwnFile(r) /\ OwnState(r)
  BY <1>2 DEF OwnFile, OwnState
<1>4. OwnTmp(r)
  <2> SUFFICES ASSUME ~killed', tmp[File(r)] # Absent
               PROVE  \E q \in Runs : File(q)' = File(r) /\ run'[q].pc \in {"write", "replace"}
    BY DEF OwnTmp
  <2>1. PICK q \in Runs : File(q) = File(r) /\ run[q].pc \in {"write", "replace"}
    BY FileTypes DEF IInv, TmpNeedsAKill
  <2>2. q # r
    BY <2>1
  <2>3. run'[q] = run[q]
    BY <2>2 DEF Shape
  <2> QED BY <2>1, <2>3 DEF File
<1>5. Shape(S)' /\ (~overlapped => archive'[File(r)] # Torn)
  BY <1>2, FileTypes DEF Shape, IInv, NoOverlap
<1>6. Local(S, r)
  BY <1>1, <1>2, <1>3, <1>4, <1>5 DEF Local, IInv, Basic
<1> QED BY <1>6, LocalIInv

LEMMA EndsIInv ==
    ASSUME IInv, NEW r \in Runs, Exit(r) \/ ReplaceFails(r) \/ Kill(r)
    PROVE  IInv'
<1>1. PICK S : Shape(S)
  BY DEF IInv
<1>2. CASE Exit(r)
  <2>1. /\ Active(r) /\ run' = [run EXCEPT ![r] = Idle] /\ killed' = killed
        /\ run[r].pc \notin {"write", "replace"}
        /\ UNCHANGED <<rows, now, build, archive, tmp, stepped, overlapped, starts>>
    BY <1>2 DEF Exit, At, Active, End
  <2> QED BY <1>1, <2>1, EndIInv
<1>3. CASE ReplaceFails(r)
  <2>1. /\ Active(r) /\ run' = [run EXCEPT ![r] = Idle] /\ killed' = killed
        /\ tmp[File(r)] = Absent
        /\ UNCHANGED <<rows, now, build, archive, tmp, stepped, overlapped, starts>>
    BY <1>3 DEF ReplaceFails, At, Active, End
  <2> QED BY <1>1, <2>1, EndIInv
<1>4. CASE Kill(r)
  <2>1. /\ Active(r) /\ run' = [run EXCEPT ![r] = Idle] /\ killed' = TRUE
        /\ UNCHANGED <<rows, now, build, archive, tmp, stepped, overlapped, starts>>
    BY <1>4 DEF Kill, At, Active, End
  <2> QED BY <1>1, <2>1, EndIInv
<1> QED BY <1>2, <1>3, <1>4

LEMMA WriteFailsIInv == ASSUME IInv, NEW r \in Runs, WriteFails(r) PROVE IInv'
<1>1. PICK S : Shape(S)
  BY DEF IInv
<1>2. UNCHANGED <<rows, now, build, archive, stepped, overlapped, killed, starts>>
  BY DEF WriteFails
<1>3. CASE run[r].pc \in {"open", "dirsync"} /\ UNCHANGED tmp /\ End(r)
  <2>1. /\ Active(r) /\ run' = [run EXCEPT ![r] = Idle] /\ killed' = killed
        /\ run[r].pc \notin {"write", "replace"}
        /\ UNCHANGED <<rows, now, build, archive, tmp, stepped, overlapped, starts>>
    BY <1>2, <1>3 DEF Active, End
  <2> QED BY <1>1, <2>1, EndIInv
<1>4. CASE run[r].pc \in {"open", "write", "replace"} /\ Unlink(r) /\ Follow(r, Idle, "gone")
  <2>1. Idle \in Processes(S) /\ Idle.pc = "idle" /\ "gone" \in Descriptors
    BY <1>1, IdleIs DEF Shape, Descriptors
  <2>2. run' \in [Runs -> Processes(S)] /\ run'[r] = Idle /\ Neighbours(r)
    BY <1>1, <1>4, <2>1, FollowIs DEF Neighbours
  <2>3. tmp' = [tmp EXCEPT ![File(r)] = Absent] /\ Active(r)
    BY <1>4 DEF Unlink, Active
  <2>4. tmp' \in [Files -> S] /\ OwnFile(r) /\ tmp'[File(r)] = Absent
    BY <1>1, <1>2, <2>3, FileTypes DEF Shape, OwnFile
  <2>5. OwnState(r) /\ OwnTmp(r)
    BY <2>2, <2>4 DEF OwnState, OwnTmp
  <2>6. Shape(S)' /\ (~overlapped => archive'[File(r)] # Torn)
    BY <1>1, <1>2, <2>2, <2>4, FileTypes DEF Shape, IInv, NoOverlap
  <2>7. Local(S, r)
    BY <1>2, <2>1, <2>2, <2>3, <2>4, <2>5, <2>6 DEF Local, IInv, Basic
  <2> QED BY <1>1, <2>7, LocalIInv
<1> QED BY <1>3, <1>4 DEF WriteFails

(***************************************************************************)
(* The other steps                                                         *)
(***************************************************************************)
(* Neither appends nor the turn of a month change a month that was over.   *)
LEMMA WorldIInv ==
    ASSUME IInv, AppendRow \/ MonthEnds \/ ClockStepsBack \/ (\E b \in Builds : Deploy(b))
    PROVE  IInv'
<1>1. UNCHANGED <<archive, tmp, run, overlapped, killed, starts>>
  BY DEF AppendRow, MonthEnds, ClockStepsBack, Deploy
<1>2. Basic'
  <2>1. Basic /\ now \in Months /\ Months \subseteq Nat /\ MaxMonth \in Nat
    BY SegmentAssumption DEF IInv, Basic, Months
  <2>2. CASE AppendRow
    <3>1. rows' \in Seq(Months) /\ Len(rows') = Len(rows) + 1 /\ Len(rows) \in Nat
          /\ Len(rows) < MaxRows
      BY <2>1, <2>2, AppendProperties, LenProperties DEF AppendRow, Basic
    <3> QED BY <1>1, <2>1, <2>2, <3>1, SegmentAssumption DEF AppendRow, Basic
  <2>3. CASE MonthEnds \/ ClockStepsBack
    <3>1. now' \in Months
      BY <2>1, <2>3 DEF MonthEnds, ClockStepsBack, Months
    <3>2. stepped' \in BOOLEAN /\ UNCHANGED <<rows, build>>
      BY <2>1, <2>3 DEF MonthEnds, ClockStepsBack, Basic
    <3> QED BY <1>1, <2>1, <3>1, <3>2 DEF Basic
  <2>4. CASE \E b \in Builds : Deploy(b)
    BY <1>1, <2>1, <2>4 DEF Deploy, Basic
  <2> QED BY <2>2, <2>3, <2>4
<1>3. ASSUME NEW c, NEW m, GoodFor(c, m) PROVE Good(c, m, rows', now', stepped')
  <2>1. now \in Nat /\ Basic
    BY SegmentAssumption DEF IInv, Basic, Months
  <2>2. CASE AppendRow
    <3>1. /\ DOMAIN rows = 1..Len(rows) /\ DOMAIN rows' = 1..(Len(rows) + 1)
          /\ \A i \in 1..Len(rows) : rows'[i] = rows[i]
          /\ rows'[Len(rows) + 1] = now /\ Len(rows) \in Nat /\ UNCHANGED <<now, stepped>>
      BY <2>1, <2>2, AppendProperties, LenProperties DEF AppendRow, Basic
    <3>2. m \in Months /\ m < now => {i \in DOMAIN rows' : InMonth(rows'[i], m)}
                                     = {i \in DOMAIN rows : InMonth(rows[i], m)}
      BY <2>1, <3>1 DEF InMonth, Months
    <3>3. DOMAIN rows \subseteq DOMAIN rows'
      BY <3>1
    <3> QED BY <1>3, <3>1, <3>2, <3>3 DEF GoodFor, Good
  <2>3. CASE MonthEnds
    <3>1. rows' = rows /\ stepped' = stepped /\ now' = now + 1
      BY <2>3 DEF MonthEnds
    <3>2. m \in Months /\ m < now => m < now'
      BY <2>1, <3>1 DEF Months
    <3> QED BY <1>3, <3>1, <3>2 DEF GoodFor, Good
  <2>4. CASE ClockStepsBack
    BY <1>3, <2>4 DEF ClockStepsBack, GoodFor, Good
  <2>5. CASE \E b \in Builds : Deploy(b)
    BY <1>3, <2>5 DEF Deploy, GoodFor, Good
  <2> QED BY <2>2, <2>3, <2>4, <2>5
<1>4. Documents'
  <2>1. \A f \in Files : /\ Good(archive'[f], f[2], rows', now', stepped')
                         /\ Good(tmp'[f], f[2], rows', now', stepped')
    BY <1>1, <1>3 DEF IInv, Documents
  <2>2. \A r \in Runs : /\ Good(run'[r].body, run'[r].month, rows', now', stepped')
                        /\ Good(run'[r].old, run'[r].month, rows', now', stepped')
    BY <1>1, <1>3 DEF IInv, Documents
  <2> QED BY <2>1, <2>2 DEF Documents, GoodFor
<1>5. FdInv' /\ NoOverlap' /\ TmpNeedsAKill'
  BY <1>1 DEF IInv, FdInv, NoOverlap, TmpNeedsAKill, At, Active, File
<1>6. \A r \in Runs : Undisturbed(r)'
  BY <1>1 DEF IInv, Undisturbed, Private, Doing, At, Active, File
<1>7. \E S : Shape(S)'
  BY <1>1 DEF IInv, Shape
<1> QED BY <1>2, <1>4, <1>5, <1>6, <1>7 DEF IInv

LEMMA BodyIs ==
    ASSUME Basic, NEW m \in Months, NEW prev, m <= now
    PROVE  GoodFor(Body(m, prev), m) /\ Body(m, prev).kind = "body"
<1>1. now \in Nat /\ m \in Nat
  BY SegmentAssumption DEF Basic, Months
<1>2. Ids(m) = {i \in DOMAIN rows : InMonth(rows[i], m)}
  BY DEF Ids
<1> QED BY <1>1, <1>2 DEF Body, GoodFor, Good, Basic

(* A new run of a month: those of the same month are alone no more.        *)
LEMMA ComputeIInv ==
    ASSUME IInv, NEW r \in Runs, NEW m \in Months, NEW s3 \in BOOLEAN, NEW prev,
           Compute(r, m, s3, prev)
    PROVE  IInv'
<1>1. PICK c : c = Body(m, prev)
  OBVIOUS
<1> DEFINE free == Among(m) = {}
           me == [Idle EXCEPT !.pc = "open", !.month = m, !.s3 = s3, !.body = c,
                              !.alone = free]
           lone(q) == run[q].alone /\ q \notin Among(m)
           next(q) == IF q = r THEN me ELSE [run[q] EXCEPT !.alone = lone(q)]
<1>2. PICK S : Shape(S)
  BY DEF IInv
<1>3. /\ At(r, "idle") /\ m <= now /\ starts < MaxStarts /\ starts' = starts + 1
      /\ run' = [q \in Runs |-> next(q)] /\ overlapped' = (overlapped \/ ~free)
      /\ UNCHANGED <<rows, now, build, archive, tmp, stepped, killed>>
  BY <1>1 DEF Compute
<1>4. GoodFor(c, m) /\ c.kind = "body"
  BY <1>3, <1>1, BodyIs DEF IInv
<1>5. PICK T : T = S \cup {c}
  OBVIOUS
<1>6. Shape(T)
  <2>1. S \subseteq T
    BY <1>5
  <2>2. Processes(S) \subseteq Processes(T)
    BY <2>1 DEF Processes
  <2> QED BY <1>2, <2>1, <2>2 DEF Shape
<1>7. c \in T /\ free \in BOOLEAN /\ (free <=> Among(m) = {})
  BY <1>5
<1> HIDE DEF free
<1>8. /\ me \in Processes(T) /\ me.pc = "open" /\ me.month = m /\ me.s3 = s3
      /\ me.body = c /\ (me.alone <=> free) /\ me.place = "local" /\ me.old = Absent
      /\ me.fd = "none"
  <2>1. "open" \in Labels /\ Idle \in Processes(T) /\ Idle.place = "local"
        /\ Idle.old = Absent /\ Idle.fd = "none"
    BY <1>6, IdleIs DEF Labels, Idle, Shape
  <2> QED BY <1>7, <2>1 DEF Processes
<1> HIDE DEF me
<1>9. ASSUME NEW q \in Runs, q # r
      PROVE  /\ next(q) \in Processes(T) /\ (next(q).alone <=> lone(q))
             /\ next(q).pc = run[q].pc /\ next(q).month = run[q].month
             /\ next(q).s3 = run[q].s3 /\ next(q).body = run[q].body
             /\ next(q).place = run[q].place /\ next(q).old = run[q].old
             /\ next(q).fd = run[q].fd
  <2> DEFINE x == run[q]
             l == lone(q)
             y == [x EXCEPT !.alone = l]
  <2>1. next(q) = y /\ x \in Processes(T) /\ l \in BOOLEAN /\ l = lone(q) /\ x = run[q]
    BY <1>6, <1>9 DEF Shape
  <2> HIDE DEF x, l, lone
  <2>2. /\ y \in Processes(T) /\ y.alone = l /\ y.pc = x.pc /\ y.month = x.month
        /\ y.s3 = x.s3 /\ y.body = x.body /\ y.place = x.place /\ y.old = x.old
        /\ y.fd = x.fd
    BY <2>1 DEF Processes
  <2> HIDE DEF y
  <2> QED BY <2>1, <2>2
<1>10. next(r) = me
  OBVIOUS
<1> HIDE DEF next
<1>11. run' \in [Runs -> Processes(T)] /\ run'[r] = me /\ \A q \in Runs : run'[q] = next(q)
  BY <1>3, <1>8, <1>9, <1>10
<1>12. Basic' /\ Shape(T)'
  <2>1. overlapped' \in BOOLEAN
    BY <1>3 DEF IInv, Basic
  <2>2. starts' \in 0..MaxStarts
    BY <1>3, SegmentAssumption DEF IInv, Basic
  <2>3. Basic'
    <3>1. UNCHANGED <<rows, now, build, stepped, killed>>
      BY <1>3
    <3> QED BY <2>1, <2>2, <3>1 DEF IInv, Basic
  <2>4. Shape(T)'
    BY <1>3, <1>6, <1>11 DEF Shape
  <2> QED BY <2>3, <2>4
<1>13. Documents'
  <2>1. GoodFor(Absent, m)
    BY DEF GoodFor, Good
  <2>2. ASSUME NEW q \in Runs
        PROVE  GoodFor(run'[q].body, run'[q].month) /\ GoodFor(run'[q].old, run'[q].month)
    BY <1>4, <1>8, <1>9, <1>11, <2>1 DEF IInv, Documents
  <2> QED BY <1>3, <2>2 DEF IInv, Documents, GoodFor
<1>14. FdInv'
  <2> SUFFICES ASSUME NEW q \in Runs
               PROVE  /\ run'[q].fd # "none" => run'[q].pc = "write"
                      /\ run'[q].pc # "idle" => run'[q].body.kind = "body"
    BY DEF FdInv, At, Active
  <2> QED BY <1>4, <1>8, <1>9, <1>11 DEF IInv, FdInv, At, Active
<1>15. ASSUME NEW q \in Runs, Active(q), q \notin Among(m) PROVE q # r /\ run[q].month # m
  BY <1>3, <1>15 DEF Among, Active, At
<1>16. ASSUME NEW q \in Runs PROVE Undisturbed(q)'
  <2> SUFFICES ASSUME run'[q].pc # "idle", run'[q].alone PROVE Private(q)' /\ Doing(q)'
    BY DEF Undisturbed, Active
  <2>1. CASE q = r
    <3>1. Among(m) = {} /\ run'[r].month = m
      BY <1>7, <1>8, <1>11, <2>1
    <3>2. Private(r)'
      <4> SUFFICES ASSUME NEW x \in Runs, x # r, run'[x].pc # "idle"
                   PROVE  run'[x].month # run'[r].month
        BY DEF Private, Active
      <4>1. Active(x) /\ x \notin Among(m)
        BY <1>9, <1>11, <3>1 DEF Active
      <4> QED BY <1>9, <1>11, <1>15, <3>1, <4>1
    <3>3. Doing(r)'
      BY <1>8, <1>11 DEF Doing, At
    <3> QED BY <2>1, <3>2, <3>3
  <2>2. CASE q # r
    <3>1. Active(q) /\ run[q].alone /\ q \notin Among(m)
      BY <1>9, <1>11, <2>2 DEF Active
    <3>2. Private(q) /\ Doing(q) /\ run[q].month # m
      BY <1>15, <3>1 DEF IInv, Undisturbed
    <3>3. Private(q)'
      <4> SUFFICES ASSUME NEW x \in Runs, x # q, run'[x].pc # "idle"
                   PROVE  run'[x].month # run'[q].month
        BY DEF Private, Active
      <4>1. CASE x = r
        BY <1>8, <1>9, <1>11, <2>2, <3>2, <4>1
      <4>2. CASE x # r
        BY <1>9, <1>11, <2>2, <3>2, <4>2 DEF Private, Active
      <4> QED BY <4>1, <4>2
    <3>4. Doing(q)'
      <4>1. /\ run'[q].pc = run[q].pc /\ run'[q].month = run[q].month
            /\ run'[q].s3 = run[q].s3 /\ run'[q].body = run[q].body
            /\ run'[q].place = run[q].place /\ run'[q].fd = run[q].fd
        BY <1>9, <1>11, <2>2
      <4>2. File(q)' = File(q)
        BY <4>1 DEF File
      <4> QED BY <1>3, <3>2, <4>1, <4>2 DEF Doing, At
    <3> QED BY <3>3, <3>4
  <2> QED BY <2>1, <2>2
<1>17. NoOverlap'
  <2> SUFFICES ASSUME ~overlapped'
               PROVE  /\ \A q \in Runs : run'[q].pc # "idle" => run'[q].alone
                      /\ \A f \in Files : archive'[f] # Torn
                      /\ \A q \in Runs : run'[q].old # Torn
    BY DEF NoOverlap, Active
  <2>1. ~overlapped /\ Among(m) = {} /\ free
    BY <1>3, <1>7
  <2>2. ASSUME NEW q \in Runs
        PROVE  (run'[q].pc # "idle" => run'[q].alone) /\ run'[q].old # Torn
    <3>1. CASE q = r
      <4>1. run'[r].old = Absent /\ run'[r].alone /\ Absent # Torn
        BY <1>8, <1>11, <2>1 DEF Absent, Torn
      <4> QED BY <3>1, <4>1
    <3>2. CASE q # r
      <4>1. (Active(q) => run[q].alone) /\ run[q].old # Torn /\ q \notin Among(m)
        BY <2>1 DEF IInv, NoOverlap
      <4>2. /\ run'[q].pc = run[q].pc /\ run'[q].old = run[q].old
            /\ run'[q].alone <=> lone(q)
        BY <1>9, <1>11, <3>2
      <4> QED BY <4>1, <4>2 DEF Active
    <3> QED BY <3>1, <3>2
  <2> QED BY <1>3, <2>1, <2>2 DEF IInv, NoOverlap
<1>18. TmpNeedsAKill'
  <2> SUFFICES ASSUME ~killed', NEW f \in Files, tmp'[f] # Absent
               PROVE  \E q \in Runs : File(q)' = f /\ run'[q].pc \in {"write", "replace"}
    BY DEF TmpNeedsAKill
  <2>1. PICK q \in Runs : File(q) = f /\ run[q].pc \in {"write", "replace"}
    BY <1>3 DEF IInv, TmpNeedsAKill
  <2>2. q # r
    BY <1>3, <2>1 DEF At
  <2>3. run'[q].pc = run[q].pc /\ File(q)' = File(q)
    BY <1>9, <1>11, <2>2 DEF File
  <2> QED BY <2>1, <2>3
<1>19. \E U : Shape(U)'
  BY <1>12
<1> QED BY <1>12, <1>13, <1>14, <1>16, <1>17, <1>18, <1>19 DEF IInv

(* After a power cut a name has what it was given, or had before.          *)
LEMMA PowerCutIInv == ASSUME IInv, PowerCut PROVE IInv'
<1>1. PICK S : Shape(S)
  BY DEF IInv
<1> DEFINE renamed(R, f) == {r \in R : At(r, "dirsync") /\ File(r) = f}
           old(R, f) == run[CHOOSE r \in renamed(R, f) : TRUE].old
<1>2. PICK lost \in SUBSET Runs :
        /\ archive' = [f \in Files |->
             IF renamed(lost, f) # {} THEN old(lost, f)
             ELSE IF renamed(Runs, f) # {} THEN AfterPowerCut(archive[f]) ELSE archive[f]]
        /\ tmp' = [f \in Files |-> IF renamed(lost, f) # {} THEN archive[f] ELSE tmp[f]]
  BY DEF PowerCut
<1>3. /\ run' = [r \in Runs |-> Idle] /\ killed' = TRUE
      /\ UNCHANGED <<rows, now, build, stepped, overlapped, starts>>
  BY DEF PowerCut
<1>4. ASSUME NEW f \in Files
      PROVE  /\ \/ archive'[f] = archive[f]
                \/ \E r \in Runs : File(r) = f /\ archive'[f] = run[r].old
             /\ tmp'[f] \in {archive[f], tmp[f]}
  <2>1. CASE renamed(lost, f) # {}
    <3> DEFINE r == CHOOSE r \in renamed(lost, f) : TRUE
    <3>1. r \in renamed(lost, f)
      BY <2>1
    <3>2. r \in Runs /\ File(r) = f /\ archive'[f] = run[r].old /\ tmp'[f] = archive[f]
      BY <1>2, <2>1, <3>1
    <3> HIDE DEF r
    <3> QED BY <3>2
  <2>2. CASE renamed(lost, f) = {}
    BY <1>2, <2>2 DEF AfterPowerCut
  <2> QED BY <2>1, <2>2
<1> HIDE DEF renamed, old
<1>5. Idle \in Processes(S) /\ Idle.pc = "idle" /\ Idle.fd = "none"
      /\ Idle.body = Absent /\ Idle.old = Absent
  BY <1>1, IdleIs DEF Shape
<1>6. \A r \in Runs : run'[r] = Idle
  BY <1>3
<1>7. Basic'
  BY <1>3 DEF IInv, Basic
<1>8. Shape(S)'
  <2>1. \A f \in Files : archive'[f] \in S /\ tmp'[f] \in S
    BY <1>1, <1>4, FileTypes DEF Shape
  <2>2. archive' = [f \in Files |-> archive'[f]] /\ tmp' = [f \in Files |-> tmp'[f]]
    BY <1>2
  <2>3. archive' \in [Files -> S] /\ tmp' \in [Files -> S]
    BY <2>1, <2>2
  <2> QED BY <1>1, <1>3, <1>5, <2>3 DEF Shape
<1>9. Documents'
  <2>1. \A k : GoodFor(Absent, k)
    BY DEF GoodFor, Good
  <2>2. ASSUME NEW f \in Files PROVE GoodFor(archive'[f], f[2]) /\ GoodFor(tmp'[f], f[2])
    <3>1. \A r \in Runs : File(r) = f => GoodFor(run[r].old, f[2])
      BY <1>1, FileTypes DEF IInv, Documents
    <3> QED BY <1>4, <3>1 DEF IInv, Documents
  <2> QED BY <1>3, <1>5, <1>6, <2>1, <2>2 DEF Documents, GoodFor
<1>10. FdInv' /\ TmpNeedsAKill' /\ \A r \in Runs : Undisturbed(r)'
  BY <1>3, <1>5, <1>6 DEF FdInv, TmpNeedsAKill, Undisturbed, Active
<1>11. NoOverlap'
  <2> SUFFICES ASSUME ~overlapped
               PROVE  (\A f \in Files : archive'[f] # Torn) /\ Absent # Torn
    BY <1>3, <1>5, <1>6 DEF NoOverlap, Active
  <2> QED BY <1>4 DEF IInv, NoOverlap, Absent, Torn
<1>12. \E T : Shape(T)'
  BY <1>8
<1> QED BY <1>7, <1>9, <1>10, <1>11, <1>12 DEF IInv

LEMMA NextIInv == IInv /\ [Next]_vars => IInv'
<1> SUFFICES ASSUME IInv, [Next]_vars PROVE IInv'
  OBVIOUS
<1>1. CASE UNCHANGED vars
  BY <1>1 DEF vars, IInv, Shape, Basic, Documents, GoodFor, FdInv, NoOverlap,
              TmpNeedsAKill, Undisturbed, Private, Doing, At, Active, File
<1>2. CASE AppendRow \/ MonthEnds \/ ClockStepsBack \/ (\E b \in Builds : Deploy(b))
  BY <1>2, WorldIInv
<1>3. ASSUME NEW r \in Runs, NEW m \in Months, NEW s3 \in BOOLEAN, NEW prev,
             Compute(r, m, s3, prev)
      PROVE  IInv'
  BY <1>3, ComputeIInv
<1>4. ASSUME NEW r \in Runs,
             OpenTmp(r) \/ WriteBody(r) \/ Replace(r) \/ SyncDir(r) \/ WriteFails(r)
      PROVE  IInv'
  BY <1>4, OpenTmpIInv, WriteBodyIInv, ReplaceIInv, SyncDirIInv, WriteFailsIInv
<1>5. ASSUME NEW r \in Runs, ReplaceFails(r) \/ Exit(r) \/ Kill(r) PROVE IInv'
  BY <1>5, EndsIInv
<1>6. CASE PowerCut
  BY <1>6, PowerCutIInv
<1> QED BY <1>1, <1>2, <1>3, <1>4, <1>5, <1>6 DEF Next

LEMMA InitIInv == Init => IInv
<1> SUFFICES ASSUME Init PROVE IInv
  OBVIOUS
<1> DEFINE S == {Absent, Torn}
<1>1. /\ rows = <<>> /\ now = 1 /\ build \in Builds
      /\ archive = [f \in Files |-> Absent] /\ tmp = [f \in Files |-> Absent]
      /\ run = [r \in Runs |-> Idle]
      /\ stepped = FALSE /\ overlapped = FALSE /\ killed = FALSE /\ starts = 0
  BY DEF Init
<1>2. Idle \in Processes(S) /\ Idle.pc = "idle" /\ Idle.fd = "none"
      /\ Idle.body = Absent /\ Idle.old = Absent
  BY IdleIs
<1>3. Shape(S)
  BY <1>1, <1>2 DEF Shape
<1>4. Basic
  <2>1. rows \in Seq(Months) /\ Len(rows) = 0
    BY <1>1, EmptySeq
  <2>2. now \in Months /\ 0 <= MaxRows /\ starts \in 0..MaxStarts
    BY <1>1, SegmentAssumption DEF Months
  <2>3. stepped \in BOOLEAN /\ overlapped \in BOOLEAN /\ killed \in BOOLEAN
    BY <1>1
  <2> QED BY <1>1, <2>1, <2>2, <2>3 DEF Basic
<1>5. Documents
  BY <1>1, <1>2 DEF Documents, GoodFor, Good
<1>6. FdInv /\ TmpNeedsAKill /\ \A r \in Runs : Undisturbed(r)
  BY <1>1, <1>2 DEF FdInv, TmpNeedsAKill, Undisturbed, Active
<1>7. NoOverlap
  BY <1>1, <1>2 DEF NoOverlap, Active, Absent, Torn
<1> QED BY <1>3, <1>4, <1>5, <1>6, <1>7 DEF IInv

LEMMA Inductive == Spec => []IInv
BY InitIInv, NextIInv, PTL DEF Spec

(***************************************************************************)
(* What it gives                                                           *)
(***************************************************************************)
(* The faults and starts stay within their bounds and every variable has   *)
(* its type; a published document carries the hash of what it lists.       *)
THEOREM SegmentTypes == Spec => []TypeOK
<1>1. faults \in 0..MaxFaults /\ [Next]_vars => (faults \in 0..MaxFaults)'
  BY SegmentAssumption DEF Next, vars, NoFault, Fault
<1>2. Init => faults \in 0..MaxFaults
  BY SegmentAssumption DEF Init
<1>3. Spec => [](faults \in 0..MaxFaults)
  BY <1>1, <1>2, PTL DEF Spec
<1>4. ASSUME IInv, faults \in 0..MaxFaults PROVE TypeOK
  <2>1. PICK S : Shape(S)
    BY <1>4 DEF IInv
  <2>2. \A c, m : GoodFor(c, m) => IsContent(c)
    BY DEF GoodFor, Good, IsContent
  <2>3. ASSUME NEW r \in Runs
        PROVE  /\ run[r].pc \in {"idle", "open", "write", "replace", "dirsync", "exit"}
               /\ run[r].month \in Months /\ run[r].place \in Places
               /\ run[r].fd \in {"none", "tmp", "target", "gone"}
               /\ run[r].alone \in BOOLEAN /\ run[r].s3 \in BOOLEAN
    BY <2>1, FileTypes DEF Processes, Labels, Descriptors
  <2> QED BY <1>4, <2>2, <2>3 DEF IInv, Basic, Documents, TypeOK
<1> QED BY <1>3, <1>4, Inductive, PTL

(* _atomic_write_readonly: a reader of the archive finds a whole document, *)
(* whatever failed and when, if runs of a month never overlapped.          *)
THEOREM ArchiveWhole == Spec => []ArchiveIsWhole
<1>1. IInv => ArchiveIsWhole
  BY DEF IInv, NoOverlap, ArchiveIsWhole
<1> QED BY <1>1, Inductive, PTL

(* main: exit 0 of a run that was alone means that all its files are       *)
(* there.                                                                  *)
THEOREM ExitPublishes == Spec => []ExitZeroPublishes
<1>1. ASSUME IInv PROVE ExitZeroPublishes
  <2> SUFFICES ASSUME NEW r \in Runs, At(r, "exit"), run[r].alone,
                      NEW p \in IF run[r].s3 THEN Places ELSE {"local"}
               PROVE  archive[<<p, run[r].month>>] = run[r].body
    BY DEF ExitZeroPublishes
  <2>1. Doing(r)
    BY <1>1 DEF IInv, Undisturbed, Active, At
  <2>2. /\ archive[<<"local", run[r].month>>] = run[r].body
        /\ run[r].s3 => archive[<<"s3", run[r].month>>] = run[r].body
    BY <2>1 DEF Doing
  <2>3. p = "local" \/ (p = "s3" /\ run[r].s3)
    BY DEF Places
  <2> QED BY <2>2, <2>3
<1> QED BY <1>1, Inductive, PTL

(* The published hash of a month that was over can be computed again from  *)
(* the ledger at any later time (segment_hash.py).                         *)
THEOREM MonthsReproduce == Spec => []ClosedMonthIsReproducible
<1>1. ASSUME IInv PROVE ClosedMonthIsReproducible
  <2> SUFFICES ASSUME ~stepped, NEW f \in Files, archive[f].kind = "body", archive[f].closed
               PROVE  /\ archive[f].month = f[2]
                      /\ archive[f].hash = SegmentHash(archive[f].prev, Ids(f[2]), archive[f].sha)
    BY DEF ClosedMonthIsReproducible
  <2>1. GoodFor(archive[f], f[2]) /\ archive[f] \notin {Absent, Torn}
    BY <1>1 DEF IInv, Documents, Absent, Torn
  <2> QED BY <2>1 DEF GoodFor, Good, Ids
<1> QED BY <1>1, Inductive, PTL

(* A tmp file that no process is working on is what a kill left behind     *)
(* (the except clause of _atomic_write_readonly).                          *)
THEOREM TmpIsOwned == Spec => []TmpNeedsAKill
<1>1. IInv => TmpNeedsAKill
  BY DEF IInv
<1> QED BY <1>1, Inductive, PTL
=============================================================================
