----------------------------- MODULE MountProofs -----------------------------
(***************************************************************************)
(* The read-only mount, for any number of protected paths, faults and      *)
(* seconds.  A run that has the flags to itself knows them: what it put on *)
(* its list, what it has seen so far, the state it found.  The invariant   *)
(* says so at each step of a run, for as long as no run was started beside *)
(* another.                                                                *)
(***************************************************************************)
EXTENDS ReadonlyMount, TLAPS

Labels == {"idle", "pre", "prev", "probe", "act", "new", "post", "read", "write", "wait"}
Results == {"none", "already", "ok", "error"}
States == {"none", "LOCKED", "UNLOCKED", "PARTIAL"}

RunSet ==
    [pc : Labels, day : {"trade", "holiday"}, pos : Paths, seen : SUBSET Paths,
     res : [Paths -> Results], exit : {0, 1, Killed, Running}, state : States,
     prev : [Services -> 0..MaxStamp], unread : SUBSET Services, emitted : BOOLEAN]

Active(s) == run[s].pc # "idle"
SeenSoFar(s) == {p \in Paths : p < run[s].pos /\ flag[p]}
Handled(s, p) == run[s].res[p] = "error" \/ flag[p] = TargetFlag(s)

(* What an emitter read is what the file says, unless that stamp could not *)
(* be read or the file was damaged since.                                  *)
ReadWell(s, t) ==
    \/ gauge = "none" \/ run[s].prev[t] = success[t]
    \/ t \in run[s].unread /\ run[s].prev[t] = 0

(* What a run knows while it is the only one.                              *)
Knows(s) ==
    /\ run[s].pc \in {"probe", "act"} => \A p \in Paths : p < run[s].pos => Handled(s, p)
    /\ At(s, "new") => \A p \in Paths : Handled(s, p)
    /\ run[s].pc \in {"new", "post"} => run[s].seen = SeenSoFar(s)
    /\ Ended(s) /\ run[s].exit = 0 => AllAt(TargetFlag(s))
    /\ run[s].pc \in {"read", "write"} => run[s].state \in {ActualState, "PARTIAL"}
    /\ At(s, "write") => \A t \in Services : ReadWell(s, t)

Stage(s) ==
    /\ run[s].pc \in {"pre", "prev", "probe", "act"} => run[s].seen = {}
    /\ run[s].pc \in {"pre", "prev"} => run[s].pos = 1
    /\ ~overlap => Knows(s)

Solo == ~overlap => \A s, t \in Services : s # t => ~Active(s) \/ ~Active(t)

Stamps == \A s, t \in Services : success[t] <= clock /\ run[s].prev[t] <= clock

IInv ==
    /\ TypeOK /\ Solo /\ Stamps /\ GaugeIsHonest
    /\ \A s \in Services : Stage(s)

LEMMA ServiceTypes ==
    ASSUME TypeOK, NEW s \in Services
    PROVE  run[s] \in RunSet /\ run \in [Services -> RunSet] /\ NPaths \in Nat \ {0}
           /\ run[s].pos \in Paths /\ run[s].seen \in SUBSET Paths
BY MountAssumption DEF TypeOK, RunSet, Labels, Results, States

LEMMA IdleIs ==
    /\ Idle \in RunSet /\ Idle.pc = "idle" /\ Idle.pos = 1 /\ Idle.seen = {}
    /\ Idle.prev = [s \in Services |-> 0] /\ Idle.exit = Running /\ Idle.emitted
<1>1. 1 \in Paths /\ 0 \in 0..MaxStamp
  BY MountAssumption DEF Paths
<1>2. [p \in Paths |-> "none"] \in [Paths -> Results]
      /\ [s \in Services |-> 0] \in [Services -> 0..MaxStamp]
  BY <1>1 DEF Results
<1> QED BY <1>1, <1>2 DEF Idle, RunSet, Labels, States

(***************************************************************************)
(* A step of one service.                                                  *)
(***************************************************************************)
Move(s, y) ==
    /\ run' = [run EXCEPT ![s] = y] /\ overlap' = overlap
    /\ flag' \in [Paths -> BOOLEAN] /\ gauge' \in States
    /\ success' \in [Services -> 0..MaxStamp] /\ clock' \in 0..MaxStamp /\ clock <= clock'
    /\ faults' \in 0..MaxFaults

LEMMA MoveIs ==
    ASSUME IInv, NEW s \in Services, NEW y \in RunSet, Move(s, y), Active(s)
    PROVE  /\ run'[s] = y /\ \A t \in Services : t # s => run'[t] = run[t]
           /\ TypeOK' /\ Solo'
           /\ \A t \in Services : t # s /\ ~overlap => ~Active(t)
<1>1. run \in [Services -> RunSet]
  BY ServiceTypes DEF IInv
<1>2. run'[s] = y /\ \A t \in Services : t # s => run'[t] = run[t]
  BY <1>1 DEF Move
<1>3. run' \in [Services -> RunSet]
  BY <1>1 DEF Move
<1>4. TypeOK'
  BY <1>3 DEF Move, IInv, TypeOK, RunSet, Labels, Results, States
<1>5. \A t \in Services : t # s /\ ~overlap => ~Active(t)
  BY DEF IInv, Solo
<1>6. Solo'
  BY <1>2, <1>5 DEF Solo, Move, Active
<1> QED BY <1>2, <1>4, <1>5, <1>6

LEMMA MoveIInv ==
    ASSUME IInv, NEW s \in Services, NEW y \in RunSet, Move(s, y), Active(s),
           Stage(s)',
           \A t \in Services : success'[t] <= clock' /\ y.prev[t] <= clock',
           y.pc = "idle" /\ y.emitted /\ ~overlap => gauge' \in {ActualState', "PARTIAL"}
    PROVE  IInv'
<1>1. /\ run'[s] = y /\ \A t \in Services : t # s => run'[t] = run[t]
      /\ TypeOK' /\ Solo'
      /\ \A t \in Services : t # s /\ ~overlap => ~Active(t)
  BY MoveIs
<1>2. Stamps'
  <2>1. clock \in Nat /\ clock' \in Nat /\ clock <= clock'
    BY MountAssumption DEF Move, IInv, TypeOK
  <2>2. ASSUME NEW q \in Services, NEW t \in Services, q # s PROVE run'[q].prev[t] <= clock'
    <3>1. run[q].prev[t] <= clock /\ run[q].prev[t] \in Nat
      <4>1. run[q].prev \in [Services -> 0..MaxStamp]
        BY DEF IInv, TypeOK
      <4> QED BY <4>1, MountAssumption DEF IInv, Stamps
    <3> QED BY <1>1, <2>1, <2>2, <3>1
  <2> QED BY <1>1, <2>2 DEF Stamps
<1>3. GaugeIsHonest'
  BY <1>1 DEF GaugeIsHonest, At, Move
<1>4. ASSUME NEW t \in Services, t # s PROVE Stage(t)'
  <2>1. run'[t] = run[t] /\ overlap' = overlap /\ Stage(t)
    BY <1>1, <1>4 DEF Move, IInv
  <2>2. ~overlap => run'[t].pc = "idle"
    BY <1>1, <1>4, <2>1 DEF Active
  <2>3. ~overlap => Knows(t)'
    BY <2>2 DEF Knows, At, Ended
  <2> QED BY <2>1, <2>3 DEF Stage
<1> QED BY <1>1, <1>2, <1>3, <1>4 DEF IInv

(* The files and the emitter's data are what they were.                    *)
LEMMA QuietIInv ==
    ASSUME IInv, NEW s \in Services, NEW y \in RunSet, run' = [run EXCEPT ![s] = y], Active(s),
           UNCHANGED <<Files, overlap>>, NoFault \/ Fault,
           Stage(s)', y.pc # "idle" \/ ~y.emitted,
           y.prev \in {run[s].prev, Idle.prev} \/ \A t \in Services : y.prev[t] <= clock
    PROVE  IInv'
<1>1. Move(s, y)
  BY MountAssumption DEF Move, Files, NoFault, Fault, IInv, TypeOK, States
<1>2. \A t \in Services : success'[t] <= clock' /\ y.prev[t] <= clock'
  <2>1. clock \in Nat /\ clock' = clock /\ success' = success
    BY MountAssumption DEF IInv, TypeOK, Files
  <2> QED BY <2>1, IdleIs DEF IInv, Stamps
<1> QED BY <1>1, <1>2, MoveIInv

(* A run that leaves ExecStart with 0 must have done its job.              *)
LEMMA ExitIInv ==
    ASSUME IInv, NEW s \in Services, NEW code \in {0, 1, Killed}, Exit(s, code), Active(s),
           UNCHANGED <<Files, overlap>>, NoFault \/ Fault,
           code = 0 /\ ~overlap => AllAt(TargetFlag(s))
    PROVE  IInv'
<1> DEFINE d == run[s].day
           y == [Idle EXCEPT !.pc = "post", !.day = d, !.exit = code]
<1>1. d \in {"trade", "holiday"} /\ "post" \in Labels
  BY ServiceTypes DEF IInv, RunSet, Labels
<1>2. run' = [run EXCEPT ![s] = y]
  BY DEF Exit
<1> HIDE DEF d
<1>3. /\ y \in RunSet /\ y.pc = "post" /\ y.pos = 1 /\ y.seen = {} /\ y.exit = code
      /\ y.prev = Idle.prev
  BY <1>1, IdleIs DEF RunSet
<1> HIDE DEF y
<1>4. run'[s] = y /\ UNCHANGED <<flag, gauge, success, clock, overlap>>
  BY <1>2, ServiceTypes DEF IInv, Files
<1>5. SeenSoFar(s)' = {}
  BY <1>3, <1>4 DEF SeenSoFar, Paths
<1>6. Stage(s)'
  BY <1>3, <1>4, <1>5 DEF Stage, Knows, At, Ended, AllAt
<1> QED BY <1>2, <1>3, <1>6, QuietIInv

LEMMA PreIInv == ASSUME IInv, NEW s \in Services, Pre(s) PROVE IInv'
<1> DEFINE x == run[s]
           y == [x EXCEPT !.pc = "prev"]
<1>1. /\ At(s, "pre") /\ run' = [run EXCEPT ![s] = y] /\ UNCHANGED <<Files, faults, overlap>>
  BY DEF Pre, CountsAsSuccess, TradingDayExit
<1>2. x \in RunSet /\ x = run[s] /\ Active(s) /\ Stage(s)
  BY <1>1, ServiceTypes DEF IInv, At, Active
<1> HIDE DEF x
<1>3. /\ y \in RunSet /\ y.pc = "prev" /\ y.pos = x.pos /\ y.seen = x.seen /\ y.prev = x.prev
  BY <1>2 DEF RunSet, Labels
<1> HIDE DEF y
<1>4. run'[s] = y
  BY <1>1, ServiceTypes DEF IInv
<1>5. Stage(s)'
  BY <1>1, <1>2, <1>3, <1>4 DEF Stage, Knows, At, Ended
<1> QED BY <1>1, <1>2, <1>3, <1>5, QuietIInv DEF NoFault

LEMMA PreviousStatusIInv == ASSUME IInv, NEW s \in Services, PreviousStatus(s) PROVE IInv'
<1>1. At(s, "prev") /\ UNCHANGED <<Files, overlap>> /\ Active(s) /\ Stage(s)
  BY DEF PreviousStatus, At, Active, IInv
<1>2. CASE Fault /\ Exit(s, 1)
  BY <1>1, <1>2, ExitIInv
<1>3. CASE NoFault /\ run' = [run EXCEPT ![s] = [@ EXCEPT !.pc = "probe"]]
  <2> DEFINE x == run[s]
             y == [x EXCEPT !.pc = "probe"]
  <2>1. x \in RunSet /\ x = run[s] /\ run' = [run EXCEPT ![s] = y]
    BY <1>3, ServiceTypes DEF IInv
  <2> HIDE DEF x
  <2>2. /\ y \in RunSet /\ y.pc = "probe" /\ y.pos = x.pos /\ y.seen = x.seen
        /\ y.prev = x.prev
    BY <2>1 DEF RunSet, Labels
  <2> HIDE DEF y
  <2>3. run'[s] = y /\ y.pos = 1 /\ y.seen = {}
    BY <1>1, <2>1, <2>2, ServiceTypes DEF IInv, Stage, At
  <2>4. \A p \in Paths : ~(p < 1)
    BY DEF Paths
  <2>5. Stage(s)'
    BY <2>2, <2>3, <2>4 DEF Stage, Knows, At, Ended
  <2> QED BY <1>1, <1>3, <2>1, <2>2, <2>5, QuietIInv
<1> QED BY <1>2, <1>3 DEF PreviousStatus

(* The loop goes on to the next path, or is over.                          *)
LEMMA NextPathIs ==
    ASSUME TypeOK, NEW s \in Services, NEW result \in Results
    PROVE  LET x == run[s]
               y == NextPath(s, result)
           IN  /\ y \in RunSet /\ y.seen = x.seen /\ y.prev = x.prev
               /\ \A p \in Paths : y.res[p] = IF p = x.pos THEN result ELSE x.res[p]
               /\ IF x.pos = NPaths THEN y.pc = "new" /\ y.pos = 1
                  ELSE y.pc = "probe" /\ y.pos = x.pos + 1
<1> DEFINE x == run[s]
           r == [x.res EXCEPT ![x.pos] = result]
           l == IF x.pos = NPaths THEN "new" ELSE "probe"
           n == IF x.pos = NPaths THEN 1 ELSE x.pos + 1
           y == [x EXCEPT !.res = r, !.pc = l, !.pos = n]
<1>1. x \in RunSet /\ NextPath(s, result) = y /\ x = run[s]
  BY ServiceTypes DEF NextPath
<1>2. x.pos \in 1..NPaths /\ NPaths \in Nat \ {0} /\ x.res \in [Paths -> Results]
  BY <1>1, MountAssumption DEF RunSet, Paths
<1> HIDE DEF x
<1>3. r \in [Paths -> Results]
      /\ \A p \in Paths : r[p] = IF p = x.pos THEN result ELSE x.res[p]
  BY <1>2
<1>4. l \in Labels /\ n \in Paths
  BY <1>2 DEF Labels, Paths
<1>5. IF x.pos = NPaths THEN l = "new" /\ n = 1 ELSE l = "probe" /\ n = x.pos + 1
  OBVIOUS
<1> HIDE DEF r, l, n
<1>6. /\ y \in RunSet /\ y.seen = x.seen /\ y.prev = x.prev /\ y.res = r
      /\ y.pc = l /\ y.pos = n
  BY <1>1, <1>3, <1>4 DEF RunSet
<1> HIDE DEF y
<1> QED BY <1>1, <1>3, <1>5, <1>6

(* One path handled: it is at the target, or its result is an error.       *)
LEMMA LoopIInv ==
    ASSUME IInv, NEW s \in Services, NEW result \in Results, run[s].pc \in {"probe", "act"},
           run' = [run EXCEPT ![s] = NextPath(s, result)],
           UNCHANGED <<gauge, success, clock, overlap>>, NoFault \/ Fault,
           flag' \in {flag, [flag EXCEPT ![run[s].pos] = TargetFlag(s)]},
           result = "error" \/ flag'[run[s].pos] = TargetFlag(s)
    PROVE  IInv'
<1>1. PICK x : x = run[s]
  OBVIOUS
<1>2. PICK y : y = NextPath(s, result)
  OBVIOUS
<1>3. /\ y \in RunSet /\ y.seen = x.seen /\ y.prev = x.prev
      /\ \A p \in Paths : y.res[p] = IF p = x.pos THEN result ELSE x.res[p]
      /\ IF x.pos = NPaths THEN y.pc = "new" /\ y.pos = 1
         ELSE y.pc = "probe" /\ y.pos = x.pos + 1
  BY <1>1, <1>2, NextPathIs DEF IInv
<1>4. run' = [run EXCEPT ![s] = y] /\ run'[s] = y /\ Active(s)
  BY <1>2, ServiceTypes DEF IInv, Active
<1>5. x.pos \in Paths /\ NPaths \in Nat \ {0} /\ Stage(s) /\ x.seen = {}
  BY <1>1, ServiceTypes DEF IInv, Stage
<1>6. /\ flag' \in [Paths -> BOOLEAN]
      /\ \A p \in Paths : p # x.pos => flag'[p] = flag[p]
  <2>1. flag \in [Paths -> BOOLEAN] /\ TargetFlag(s) \in BOOLEAN
    BY DEF IInv, TypeOK, TargetFlag
  <2> QED BY <1>1, <2>1
<1>7. Move(s, y)
  <2>1. faults' \in 0..MaxFaults
    BY MountAssumption DEF NoFault, Fault, IInv, TypeOK
  <2> QED BY <1>4, <1>6, <2>1, MountAssumption DEF Move, IInv, TypeOK, States
<1>8. Knows(s)' \/ overlap
  <2> SUFFICES ASSUME ~overlap PROVE Knows(s)'
    OBVIOUS
  <2>1. \A p \in Paths : p < x.pos => x.res[p] = "error" \/ flag[p] = TargetFlag(s)
    BY <1>1, <1>5 DEF Stage, Knows, Handled
  <2>2. ASSUME NEW p \in Paths, p <= x.pos
        PROVE  y.res[p] = "error" \/ flag'[p] = TargetFlag(s)
    <3>1. CASE p = x.pos
      BY <1>1, <1>3, <3>1
    <3>2. CASE p # x.pos
      <4>1. p < x.pos
        BY <1>5, <2>2, <3>2 DEF Paths
      <4> QED BY <1>3, <1>6, <2>1, <3>2, <4>1
    <3> QED BY <3>1, <3>2
  <2>3. y.pc = "probe" => \A p \in Paths : p < y.pos => p <= x.pos
    BY <1>3, <1>5 DEF Paths
  <2>4. y.pc = "new" => \A p \in Paths : p <= x.pos
    BY <1>3, <1>5 DEF Paths
  <2>5. y.pc = "new" => SeenSoFar(s)' = {} /\ y.seen = {}
    BY <1>3, <1>4, <1>5 DEF SeenSoFar, Paths
  <2>6. y.pc \in {"probe", "new"}
    BY <1>3
  <2> QED BY <1>4, <2>2, <2>3, <2>4, <2>5, <2>6 DEF Knows, Handled, At, Ended
<1>9. Stage(s)'
  BY <1>3, <1>4, <1>5, <1>8 DEF Stage
<1>10. \A t \in Services : success'[t] <= clock' /\ y.prev[t] <= clock'
  BY <1>1, <1>3 DEF IInv, Stamps
<1> QED BY <1>3, <1>4, <1>7, <1>9, <1>10, MoveIInv

LEMMA ProbeIInv == ASSUME IInv, NEW s \in Services, Probe(s) PROVE IInv'
<1>1. At(s, "probe") /\ UNCHANGED <<flag, gauge, success, clock, overlap>> /\ Active(s)
      /\ run[s].pc \in {"probe", "act"} /\ {"already", "error"} \subseteq Results
  BY DEF Probe, At, Active, Files, Results
<1>2. CASE Fault /\ run' = [run EXCEPT ![s] = NextPath(s, "error")]
  BY <1>1, <1>2, LoopIInv
<1>3. CASE NoFault /\ flag[run[s].pos] = TargetFlag(s)
           /\ run' = [run EXCEPT ![s] = NextPath(s, "already")]
  BY <1>1, <1>3, LoopIInv
<1>4. CASE NoFault /\ run' = [run EXCEPT ![s] = [@ EXCEPT !.pc = "act"]]
  <2> DEFINE x == run[s]
             y == [x EXCEPT !.pc = "act"]
  <2>1. x \in RunSet /\ x = run[s] /\ run' = [run EXCEPT ![s] = y] /\ Stage(s)
    BY <1>4, ServiceTypes DEF IInv
  <2> HIDE DEF x
  <2>2. /\ y \in RunSet /\ y.pc = "act" /\ y.pos = x.pos /\ y.seen = x.seen
        /\ y.prev = x.prev /\ y.res = x.res
    BY <2>1 DEF RunSet, Labels
  <2> HIDE DEF y
  <2>3. run'[s] = y
    BY <2>1, <2>2, ServiceTypes DEF IInv
  <2>4. Stage(s)'
    BY <1>1, <2>1, <2>2, <2>3 DEF Stage, Knows, Handled, At, Ended
  <2> QED BY <1>1, <1>4, <2>1, <2>2, <2>4, QuietIInv DEF Files
<1> QED BY <1>2, <1>3, <1>4 DEF Probe

LEMMA ActIInv == ASSUME IInv, NEW s \in Services, Act(s) PROVE IInv'
<1>1. At(s, "act") /\ UNCHANGED <<gauge, success, clock, overlap>>
      /\ run[s].pc \in {"probe", "act"} /\ {"ok", "error"} \subseteq Results
  BY DEF Act, At, Results
<1>2. CASE NoFault /\ flag' = [flag EXCEPT ![run[s].pos] = TargetFlag(s)]
           /\ run' = [run EXCEPT ![s] = NextPath(s, "ok")]
  <2>1. flag'[run[s].pos] = TargetFlag(s)
    BY <1>2, ServiceTypes DEF IInv, TypeOK
  <2> QED BY <1>1, <1>2, <2>1, LoopIInv
<1>3. CASE Fault /\ flag' \in {flag, [flag EXCEPT ![run[s].pos] = TargetFlag(s)]}
           /\ run' = [run EXCEPT ![s] = NextPath(s, "error")]
  BY <1>1, <1>3, LoopIInv
<1> QED BY <1>2, <1>3 DEF Act

(* One lsattr more of a status().                                          *)
LEMMA SeenNext ==
    ASSUME TypeOK, NEW s \in Services, run[s].seen = SeenSoFar(s)
    PROVE  /\ SeenNow(s) = {p \in Paths : p < run[s].pos + 1 /\ flag[p]}
           /\ ~(run[s].pos < NPaths) => SeenNow(s) = {p \in Paths : flag[p]}
BY ServiceTypes, MountAssumption DEF SeenNow, SeenSoFar, Paths

LEMMA StatusStepIInv ==
    ASSUME IInv, NEW s \in Services, run[s].pc \in {"new", "post"}, run[s].pos < NPaths,
           run' = [run EXCEPT ![s] = [@ EXCEPT !.pos = run[s].pos + 1, !.seen = SeenNow(s)]],
           UNCHANGED <<Files, overlap>>, NoFault
    PROVE  IInv'
<1> DEFINE x == run[s]
           now == SeenNow(s)
           n == x.pos + 1
           y == [x EXCEPT !.pos = n, !.seen = now]
<1>1. x \in RunSet /\ x = run[s] /\ Stage(s) /\ Active(s) /\ now = SeenNow(s)
      /\ now \in SUBSET Paths
  BY ServiceTypes DEF IInv, SeenNow, Active
<1>2. run' = [run EXCEPT ![s] = y]
  OBVIOUS
<1>3. n \in Paths /\ n = x.pos + 1
  BY <1>1, ServiceTypes DEF IInv, Paths
<1> HIDE DEF x, now, n
<1>4. /\ y \in RunSet /\ y.pc = x.pc /\ y.pos = n /\ y.seen = now /\ y.prev = x.prev
      /\ y.res = x.res /\ y.exit = x.exit /\ y.state = x.state
  BY <1>1, <1>3 DEF RunSet
<1> HIDE DEF y
<1>5. run'[s] = y /\ UNCHANGED <<flag, success, overlap>>
  BY <1>2, <1>4, ServiceTypes DEF IInv, Files
<1>6. ~overlap => now = SeenSoFar(s)'
  <2> SUFFICES ASSUME ~overlap PROVE now = {p \in Paths : p < n /\ flag[p]}
    BY <1>4, <1>5 DEF SeenSoFar
  <2>1. run[s].seen = SeenSoFar(s)
    BY <1>1 DEF Stage, Knows
  <2> QED BY <1>1, <1>3, <2>1, SeenNext DEF IInv
<1>7. Stage(s)'
  BY <1>1, <1>4, <1>5, <1>6 DEF Stage, Knows, Handled, At, Ended, AllAt
<1> QED BY <1>1, <1>4, <1>7, <1>2, QuietIInv DEF Active

(* The state that a status() returns tells what every flag is.             *)
LEMMA ClassifyIs ==
    ASSUME TypeOK, NEW s \in Services, ActualState = TargetState(s)
    PROVE  AllAt(TargetFlag(s))
<1>1. 1 \in Paths /\ flag \in [Paths -> BOOLEAN]
  BY MountAssumption DEF Paths, TypeOK
<1> DEFINE locked == {p \in Paths : flag[p]}
<1>2. CASE s = "lock"
  <2>1. locked = Paths
    BY <1>2 DEF ActualState, Classify, TargetState
  <2> QED BY <1>1, <1>2, <2>1 DEF AllAt, TargetFlag
<1>3. CASE s = "unlock"
  <2>1. locked = {}
    BY <1>3 DEF ActualState, Classify, TargetState
  <2> QED BY <1>1, <1>3, <2>1 DEF AllAt, TargetFlag
<1> QED BY <1>2, <1>3 DEF Services

LEMMA NewStatusIInv == ASSUME IInv, NEW s \in Services, NewStatus(s) PROVE IInv'
<1>1. At(s, "new") /\ UNCHANGED <<Files, overlap>> /\ Active(s) /\ Stage(s)
      /\ run[s].pc \in {"new", "post"}
  BY DEF NewStatus, At, Active, IInv
<1>2. CASE Fault /\ Exit(s, 1)
  BY <1>1, <1>2, ExitIInv
<1>3. CASE NoFault /\ run[s].pos < NPaths
           /\ run' = [run EXCEPT ![s] = [@ EXCEPT !.pos = run[s].pos + 1, !.seen = SeenNow(s)]]
  BY <1>1, <1>3, StatusStepIInv
<1>4. CASE NoFault /\ ~(run[s].pos < NPaths)
           /\ Exit(s, ExitCode(Classify(SeenNow(s)), TargetState(s)))
  <2>1. PICK code \in {0, 1} : code = ExitCode(Classify(SeenNow(s)), TargetState(s))
    BY DEF ExitCode
  <2>2. ASSUME code = 0, ~overlap PROVE AllAt(TargetFlag(s))
    <3>1. Classify(SeenNow(s)) = TargetState(s)
      BY <2>1, <2>2 DEF ExitCode
    <3>2. run[s].seen = SeenSoFar(s)
      BY <1>1, <2>2 DEF Stage, Knows
    <3>3. ActualState = TargetState(s)
      BY <1>4, <3>1, <3>2, SeenNext DEF IInv, ActualState
    <3> QED BY <3>3, ClassifyIs DEF IInv
  <2>3. Exit(s, code) /\ code \in {0, 1, Killed}
    BY <1>4, <2>1
  <2> QED BY <1>1, <1>4, <2>2, <2>3, ExitIInv
<1> QED BY <1>2, <1>3, <1>4 DEF NewStatus

LEMMA KillIInv == ASSUME IInv, NEW s \in Services, Kill(s) PROVE IInv'
<1>1. Exit(s, Killed) /\ Fault /\ Active(s) /\ UNCHANGED <<Files, overlap>>
  BY DEF Kill, Active
<1>2. Killed # 0
  BY DEF Killed
<1> QED BY <1>1, <1>2, ExitIInv

(***************************************************************************)
(* The emitter                                                             *)
(***************************************************************************)
(* The state that goes into the metric is the one seen, or PARTIAL.        *)
LEMMA EmitStatusIInv == ASSUME IInv, NEW s \in Services, EmitStatus(s) PROVE IInv'
<1>1. At(s, "post") /\ UNCHANGED <<Files, overlap>> /\ Active(s) /\ Stage(s)
      /\ run[s].pc \in {"new", "post"} /\ UNCHANGED <<flag, success>>
  BY DEF EmitStatus, At, Active, IInv, Files
<1>2. CASE NoFault /\ run[s].pos < NPaths
           /\ run' = [run EXCEPT ![s] = [@ EXCEPT !.pos = run[s].pos + 1, !.seen = SeenNow(s)]]
  BY <1>1, <1>2, StatusStepIInv
<1>3. ASSUME NEW v \in States, NoFault \/ Fault, ~overlap => v \in {ActualState, "PARTIAL"},
             run' = [run EXCEPT ![s] = [run[s] EXCEPT !.pc = "read", !.pos = 1, !.seen = {},
                                                      !.state = v]]
      PROVE  IInv'
  <2> DEFINE x == run[s]
             y == [x EXCEPT !.pc = "read", !.pos = 1, !.seen = {}, !.state = v]
  <2>1. x \in RunSet /\ x = run[s] /\ run' = [run EXCEPT ![s] = y] /\ 1 \in Paths
    BY <1>3, ServiceTypes, MountAssumption DEF IInv, Paths
  <2> HIDE DEF x
  <2>2. /\ y \in RunSet /\ y.pc = "read" /\ y.prev = x.prev /\ y.exit = x.exit /\ y.state = v
    BY <2>1 DEF RunSet, Labels
  <2> HIDE DEF y
  <2>3. run'[s] = y
    BY <2>1, <2>2, ServiceTypes DEF IInv
  <2>4. ActualState' = ActualState /\ \A b : AllAt(b)' = AllAt(b)
    BY <1>1 DEF ActualState, AllAt
  <2>5. Stage(s)'
    BY <1>1, <1>3, <2>1, <2>2, <2>3, <2>4 DEF Stage, Knows, At, Ended
  <2> QED BY <1>1, <1>3, <2>1, <2>2, <2>5, QuietIInv
<1>4. CASE NoFault /\ ~(run[s].pos < NPaths)
           /\ run' = [run EXCEPT ![s] = [@ EXCEPT !.pc = "read", !.pos = 1, !.seen = {},
                                                  !.state = Classify(SeenNow(s))]]
  <2>1. PICK v : v = Classify(SeenNow(s))
    OBVIOUS
  <2>2. v \in States
    BY <2>1 DEF Classify, States
  <2>3. ~overlap => v = ActualState
    BY <1>1, <1>4, <2>1, SeenNext DEF Stage, Knows, ActualState, IInv
  <2> QED BY <1>3, <1>4, <2>1, <2>2, <2>3
<1>5. CASE Fault /\ run' = [run EXCEPT ![s] = [@ EXCEPT !.pc = "read", !.pos = 1, !.seen = {},
                                                        !.state = UnknownState]]
  BY <1>3, <1>5 DEF UnknownState, States
<1> QED BY <1>2, <1>4, <1>5 DEF EmitStatus

LEMMA ReadStampsAre ==
    ASSUME IInv, NEW unread \in SUBSET Services
    PROVE  /\ ReadStamps(unread) \in [Services -> 0..MaxStamp]
           /\ \A t \in Services : ReadStamps(unread)[t] <= clock
           /\ \A t \in Services :
                 \/ t \in unread /\ ReadStamps(unread)[t] = 0
                 \/ ReadStamps(unread)[t] = success[t]
<1>1. /\ success \in [Services -> 0..MaxStamp] /\ clock \in 0..MaxStamp
      /\ 0 \in 0..MaxStamp /\ \A t \in Services : success[t] <= clock
  BY MountAssumption DEF IInv, TypeOK, Stamps
<1> QED BY <1>1 DEF ReadStamps

LEMMA EmitReadIInv == ASSUME IInv, NEW s \in Services, EmitRead(s) PROVE IInv'
<1>1. PICK unread \in SUBSET Services :
         /\ NoFault \/ Fault
         /\ run' = [run EXCEPT ![s] = [@ EXCEPT !.pc = "write", !.unread = unread,
                                                !.prev = ReadStamps(unread)]]
  BY DEF EmitRead
<1> DEFINE x == run[s]
           prev == ReadStamps(unread)
           y == [x EXCEPT !.pc = "write", !.unread = unread, !.prev = prev]
<1>2. /\ At(s, "read") /\ UNCHANGED <<Files, overlap>> /\ UNCHANGED <<flag, success>>
      /\ x \in RunSet /\ x = run[s] /\ Active(s) /\ Stage(s)
  BY ServiceTypes DEF EmitRead, Files, IInv, At, Active
<1>3. /\ prev \in [Services -> 0..MaxStamp] /\ \A t \in Services : prev[t] <= clock
      /\ \A t \in Services : (t \in unread /\ prev[t] = 0) \/ prev[t] = success[t]
      /\ run' = [run EXCEPT ![s] = y]
  BY <1>1, ReadStampsAre
<1> HIDE DEF x, prev
<1>4. /\ y \in RunSet /\ y.pc = "write" /\ y.prev = prev /\ y.unread = unread
      /\ y.exit = x.exit /\ y.state = x.state
  BY <1>2, <1>3 DEF RunSet, Labels
<1> HIDE DEF y
<1>5. run'[s] = y
  BY <1>3, <1>4, ServiceTypes DEF IInv
<1>6. ActualState' = ActualState /\ \A b : AllAt(b)' = AllAt(b)
  BY <1>2 DEF ActualState, AllAt
<1>7. \A t \in Services : ReadWell(s, t)'
  BY <1>2, <1>3, <1>4, <1>5 DEF ReadWell
<1>8. Stage(s)'
  BY <1>2, <1>4, <1>5, <1>6, <1>7 DEF Stage, Knows, At, Ended
<1> QED BY <1>1, <1>2, <1>3, <1>4, <1>8, QuietIInv

(* The unit is over, or waits for its restart.                             *)
LEMMA SettleIs ==
    ASSUME TypeOK, NEW s \in Services, NEW e \in BOOLEAN
    PROVE  LET y == Settle(s, e)
           IN  /\ y \in RunSet /\ y.pc \in {"idle", "wait"} /\ y.emitted = e
               /\ y.prev = Idle.prev /\ y.pos = 1 /\ y.seen = {}
<1> DEFINE d == run[s].day
<1>1. d \in {"trade", "holiday"}
  BY ServiceTypes DEF RunSet
<1>2. Settle(s, e) \in {[Idle EXCEPT !.emitted = e],
                        [Idle EXCEPT !.emitted = e, !.pc = "wait", !.day = d]}
  BY DEF Settle
<1> HIDE DEF d
<1> QED BY <1>1, <1>2, IdleIs DEF RunSet, Labels

(* The state that is written is the one seen.                              *)
LEMMA EmitWriteIInv == ASSUME IInv, NEW s \in Services, EmitWrite(s) PROVE IInv'
<1>1. PICK x : x = run[s]
  OBVIOUS
<1>2. PICK y : y = Settle(s, TRUE)
  OBVIOUS
<1>3. /\ At(s, "write") /\ run' = [run EXCEPT ![s] = y] /\ gauge' = x.state
      /\ success' = IF SuccessfulAction(s) THEN [x.prev EXCEPT ![s] = clock'] ELSE x.prev
      /\ clock' = IF clock < MaxStamp THEN clock + 1 ELSE clock
      /\ UNCHANGED <<flag, faults, overlap>>
  BY <1>1, <1>2 DEF EmitWrite
<1>4. /\ y \in RunSet /\ y.pc \in {"idle", "wait"} /\ y.prev = [t \in Services |-> 0]
      /\ y.seen = {} /\ y.pos = 1
  BY <1>2, SettleIs, IdleIs DEF IInv
<1>5. x \in RunSet /\ Active(s) /\ Stage(s) /\ x.prev \in [Services -> 0..MaxStamp]
      /\ x.state \in States
  BY <1>1, <1>3, ServiceTypes DEF IInv, At, Active, RunSet
<1>6. /\ clock \in 0..MaxStamp /\ clock' \in 0..MaxStamp /\ clock <= clock'
      /\ clock \in Nat /\ clock' \in Nat
  BY <1>3, MountAssumption DEF IInv, TypeOK
<1>7. /\ success' \in [Services -> 0..MaxStamp]
      /\ \A t \in Services : success'[t] \in {x.prev[t], clock'}
  BY <1>3, <1>5, <1>6
<1>8. Move(s, y)
  BY <1>3, <1>5, <1>6, <1>7 DEF Move, IInv, TypeOK
<1>9. \A t \in Services : success'[t] <= clock' /\ y.prev[t] <= clock'
  <2>1. \A t \in Services : x.prev[t] <= clock /\ x.prev[t] \in Nat
    BY <1>1, <1>5, MountAssumption DEF IInv, Stamps
  <2> QED BY <1>4, <1>6, <1>7, <2>1
<1>10. run'[s] = y
  BY <1>3, ServiceTypes DEF IInv
<1>11. Stage(s)'
  BY <1>4, <1>10 DEF Stage, Knows, At, Ended
<1>12. ~overlap => gauge' \in {ActualState', "PARTIAL"}
  <2>1. ActualState' = ActualState
    BY <1>3 DEF ActualState
  <2>2. ~overlap => x.state \in {ActualState, "PARTIAL"}
    BY <1>1, <1>3, <1>5 DEF Stage, Knows, At
  <2> QED BY <1>3, <2>1, <2>2
<1> QED BY <1>4, <1>5, <1>8, <1>9, <1>11, <1>12, MoveIInv

LEMMA EmitFailsIInv == ASSUME IInv, NEW s \in Services, EmitFails(s) PROVE IInv'
<1>1. PICK y : y = Settle(s, FALSE)
  OBVIOUS
<1>2. /\ Active(s) /\ Fault /\ run' = [run EXCEPT ![s] = y] /\ UNCHANGED <<Files, overlap>>
  BY <1>1 DEF EmitFails, Active
<1>3. /\ y \in RunSet /\ y.pc \in {"idle", "wait"} /\ y.prev = Idle.prev /\ y.emitted = FALSE
      /\ y.seen = {} /\ y.pos = 1
  BY <1>1, SettleIs DEF IInv
<1>4. run'[s] = y
  BY <1>2, ServiceTypes DEF IInv
<1>5. Stage(s)'
  BY <1>3, <1>4 DEF Stage, Knows, At, Ended
<1> QED BY <1>2, <1>3, <1>5, QuietIInv

(***************************************************************************)
(* Starts, restarts, and the crash of the host.                            *)
(***************************************************************************)
LEMMA RestartIInv == ASSUME IInv, NEW s \in Services, Restart(s) PROVE IInv'
<1> DEFINE d == run[s].day
           y == [Idle EXCEPT !.pc = "pre", !.day = d]
<1>1. /\ Active(s) /\ run' = [run EXCEPT ![s] = y] /\ UNCHANGED <<Files, faults, overlap>>
      /\ d \in {"trade", "holiday"}
  BY ServiceTypes DEF Restart, At, Active, IInv, RunSet
<1> HIDE DEF d
<1>2. /\ y \in RunSet /\ y.pc = "pre" /\ y.prev = Idle.prev /\ y.seen = {} /\ y.pos = 1
  BY <1>1, IdleIs DEF RunSet, Labels
<1> HIDE DEF y
<1>3. run'[s] = y
  BY <1>1, ServiceTypes DEF IInv
<1>4. Stage(s)'
  BY <1>2, <1>3 DEF Stage, Knows, At, Ended
<1> QED BY <1>1, <1>2, <1>4, QuietIInv DEF NoFault

(* A run started beside another sets overlap; one that is not knows that   *)
(* the other service is idle.                                              *)
LEMMA StartIInv ==
    ASSUME IInv, NEW s \in Services, NEW day \in {"trade", "holiday"}, Start(s, day)
    PROVE  IInv'
<1> DEFINE y == [Idle EXCEPT !.pc = "pre", !.day = day]
<1>1. /\ At(s, "idle") /\ run' = [run EXCEPT ![s] = y] /\ UNCHANGED <<Files, faults>>
      /\ overlap' = (\E t \in Services \ {s} : ~At(t, "idle"))
  BY DEF Start
<1>2. /\ y \in RunSet /\ y.pc = "pre" /\ y.seen = {} /\ y.pos = 1
      /\ y.prev = [t \in Services |-> 0]
  BY IdleIs DEF RunSet, Labels
<1> HIDE DEF y
<1>3. /\ run' \in [Services -> RunSet] /\ run'[s] = y
      /\ \A t \in Services : t # s => run'[t] = run[t]
  BY <1>1, <1>2, ServiceTypes DEF IInv
<1>4. UNCHANGED <<flag, gauge, success, clock>>
  BY <1>1 DEF Files
<1>5. TypeOK'
  <2>1. overlap' \in BOOLEAN
    BY <1>1
  <2> QED BY <1>1, <1>3, <1>4, <2>1 DEF IInv, TypeOK, RunSet, Labels, Results, States
<1>6. ~overlap' => \A t \in Services : t # s => run'[t].pc = "idle"
  BY <1>1, <1>3 DEF At
<1>7. Solo'
  BY <1>6 DEF Solo, Active
<1>8. Stamps'
  <2>1. clock \in Nat
    BY MountAssumption DEF IInv, TypeOK
  <2> QED BY <1>2, <1>3, <1>4, <2>1 DEF IInv, Stamps
<1>9. GaugeIsHonest'
  BY <1>2, <1>3 DEF GaugeIsHonest, At
<1>10. ASSUME NEW t \in Services PROVE Stage(t)'
  <2>1. CASE t = s
    BY <1>2, <1>3, <2>1 DEF Stage, Knows, At, Ended
  <2>2. CASE t # s
    <3>1. Stage(t) /\ run'[t] = run[t]
      BY <1>3, <2>2 DEF IInv
    <3>2. ~overlap' => Knows(t)'
      BY <1>6, <2>2 DEF Knows, At, Ended
    <3> QED BY <3>1, <3>2 DEF Stage
  <2> QED BY <2>1, <2>2
<1> QED BY <1>5, <1>7, <1>8, <1>9, <1>10 DEF IInv

(* A damaged file: no stamp reads more than it did, and the gauge is gone. *)
LEMMA LoseMetricIInv == ASSUME IInv, LoseMetric PROVE IInv'
<1>1. /\ gauge' = "none" /\ Fault /\ UNCHANGED <<flag, run, clock, overlap>>
      /\ success' \in [Services -> 0..MaxStamp]
      /\ \A t \in Services : success'[t] <= success[t]
  BY DEF LoseMetric
<1>2. TypeOK'
  <2>1. faults' \in 0..MaxFaults
    BY <1>1, MountAssumption DEF Fault, IInv, TypeOK
  <2> QED BY <1>1, <2>1 DEF IInv, TypeOK
<1>3. Solo' /\ GaugeIsHonest'
  BY <1>1 DEF IInv, Solo, Active, GaugeIsHonest
<1>4. Stamps'
  <2>1. \A t \in Services : success[t] \in Nat /\ success'[t] \in Nat
    BY <1>1, MountAssumption DEF IInv, TypeOK
  <2>2. clock \in Nat
    BY MountAssumption DEF IInv, TypeOK
  <2> QED BY <1>1, <2>1, <2>2 DEF IInv, Stamps
<1>5. ASSUME NEW s \in Services PROVE Stage(s)'
  <2>1. Stage(s) /\ \A t \in Services : ReadWell(s, t)'
    BY <1>1 DEF IInv, ReadWell
  <2> QED BY <1>1, <2>1 DEF Stage, Knows, At, Handled, Ended, AllAt, SeenSoFar, ActualState
<1> QED BY <1>2, <1>3, <1>4, <1>5 DEF IInv

LEMMA HostCrashIInv == ASSUME IInv, HostCrash PROVE IInv'
<1> DEFINE y == [Idle EXCEPT !.emitted = FALSE]
<1>1. run' = [s \in Services |-> y] /\ Fault /\ UNCHANGED <<Files, overlap>>
  BY DEF HostCrash
<1>2. /\ y \in RunSet /\ y.pc = "idle" /\ y.seen = {} /\ y.pos = 1 /\ ~y.emitted
      /\ y.prev = [t \in Services |-> 0]
  BY IdleIs DEF RunSet, Labels
<1> HIDE DEF y
<1>3. run' \in [Services -> RunSet] /\ \A s \in Services : run'[s] = y
  BY <1>1, <1>2
<1>4. UNCHANGED <<flag, gauge, success, clock, overlap>>
  BY <1>1 DEF Files
<1>5. TypeOK'
  <2>1. faults' \in 0..MaxFaults
    BY <1>1, MountAssumption DEF Fault, IInv, TypeOK
  <2> QED BY <1>3, <1>4, <2>1 DEF IInv, TypeOK, RunSet, Labels, Results, States
<1>6. Solo' /\ GaugeIsHonest'
  BY <1>2, <1>3 DEF Solo, Active, GaugeIsHonest, Services
<1>7. Stamps'
  <2>1. clock \in Nat
    BY MountAssumption DEF IInv, TypeOK
  <2> QED BY <1>2, <1>3, <1>4, <2>1 DEF IInv, Stamps
<1>8. \A s \in Services : Stage(s)'
  BY <1>2, <1>3 DEF Stage, Knows, At, Ended
<1> QED BY <1>5, <1>6, <1>7, <1>8 DEF IInv

LEMMA InitIInv == Init => IInv
<1> SUFFICES ASSUME Init PROVE IInv
  OBVIOUS
<1>1. \A s \in Services : run[s] = Idle
  BY DEF Init
<1>2. TypeOK
  <2>1. run \in [Services -> RunSet]
    BY IdleIs DEF Init
  <2>2. gauge \in States /\ overlap \in BOOLEAN /\ flag \in [Paths -> BOOLEAN]
    BY DEF Init, States
  <2>3. 0 \in 0..MaxStamp /\ 0 \in 0..MaxFaults
    BY MountAssumption
  <2>4. success \in [Services -> 0..MaxStamp] /\ clock \in 0..MaxStamp /\ faults \in 0..MaxFaults
    BY <2>3 DEF Init
  <2> QED BY <2>1, <2>2, <2>4 DEF TypeOK, RunSet, Labels, Results, States
<1>3. Solo /\ GaugeIsHonest
  BY <1>1, IdleIs DEF Solo, Active, GaugeIsHonest, Init
<1>4. Stamps
  BY <1>1, IdleIs DEF Stamps, Init
<1>5. \A s \in Services : Stage(s)
  BY <1>1, IdleIs DEF Stage, Knows, At, Ended
<1> QED BY <1>2, <1>3, <1>4, <1>5 DEF IInv

LEMMA NextIInv == ASSUME IInv, [Next]_vars PROVE IInv'
<1>1. CASE UNCHANGED vars
  <2>1. TypeOK' /\ Solo' /\ Stamps' /\ GaugeIsHonest'
    BY <1>1 DEF vars, IInv, TypeOK, Solo, Active, Stamps, GaugeIsHonest, At, ActualState
  <2>2. ASSUME NEW s \in Services PROVE Stage(s)'
    <3>1. Stage(s) /\ UNCHANGED <<run, flag, gauge, success, overlap>>
      BY <1>1 DEF vars, IInv
    <3> QED BY <3>1 DEF Stage, Knows, ReadWell, At, Handled, Ended, AllAt, SeenSoFar, ActualState
  <2> QED BY <2>1, <2>2 DEF IInv
<1>2. CASE LoseMetric \/ HostCrash
  BY <1>2, LoseMetricIInv, HostCrashIInv
<1>3. ASSUME NEW s \in Services, NEW day \in {"trade", "holiday"}, Start(s, day) PROVE IInv'
  BY <1>3, StartIInv
<1>4. ASSUME NEW s \in Services, Step(s) \/ Kill(s) \/ EmitFails(s) PROVE IInv'
  BY <1>4, PreIInv, PreviousStatusIInv, ProbeIInv, ActIInv, NewStatusIInv, EmitStatusIInv,
     EmitReadIInv, EmitWriteIInv, RestartIInv, KillIInv, EmitFailsIInv DEF Step
<1>5. \/ UNCHANGED vars \/ LoseMetric \/ HostCrash
      \/ \E s \in Services : \E day \in {"trade", "holiday"} : Start(s, day)
      \/ \E s \in Services : Step(s) \/ Kill(s) \/ EmitFails(s)
  BY DEF Next
<1> QED BY <1>1, <1>2, <1>3, <1>4, <1>5

LEMMA Inductive == Spec => []IInv
<1>1. IInv /\ [Next]_vars => IInv'
  BY NextIInv
<1> QED BY <1>1, InitIInv, PTL DEF Spec

(***************************************************************************)
(* Theorems                                                                *)
(***************************************************************************)
(* Every value stays in its set, whatever commands fail and runs overlap.  *)
THEOREM MountTypes == Spec => []TypeOK
<1>1. IInv => TypeOK
  BY DEF IInv
<1> QED BY <1>1, Inductive, PTL

(* A run that ended with 0 and ran alone left every file at its target.    *)
THEOREM ExitZeroTrusted == Spec => []ExitZeroMeansTarget
<1>1. IInv => ExitZeroMeansTarget
  BY DEF IInv, Stage, Knows, ExitZeroMeansTarget
<1> QED BY <1>1, Inductive, PTL

(* A file that fails costs no other file its flag.                         *)
THEOREM PathsIndependent == Spec => []PathsAreIndependent
<1>1. IInv => PathsAreIndependent
  BY DEF IInv, Stage, Knows, Handled, PathsAreIndependent
<1> QED BY <1>1, Inductive, PTL

(* Between runs the gauge shows the real state or PARTIAL.                 *)
THEOREM GaugeHonest == Spec => []GaugeIsHonest
<1>1. IInv => GaugeIsHonest
  BY DEF IInv
<1> QED BY <1>1, Inductive, PTL

Reasons == ~overlap => \A s \in Services :
               success'[s] # success[s] => Earned(s) \/ Forgotten(s) \/ PutBack(s)

(* A success timestamp moves only because it was earned, because it could  *)
(* not be read or was damaged, or because an emitter that had read it      *)
(* before the damage puts it back.                                         *)
THEOREM SuccessEarned == Spec => SuccessIsEarned
<1>1. ASSUME IInv, [Next]_vars PROVE Reasons
  <2>1. \A t \in Services : success[t] \in Nat /\ success[t] <= clock
    BY <1>1, MountAssumption DEF IInv, TypeOK, Stamps
  <2>2. CASE UNCHANGED success
    BY <2>2 DEF Reasons
  <2>3. CASE LoseMetric
    <3>1. /\ gauge' = "none" /\ success' \in [Services -> 0..MaxStamp]
          /\ \A t \in Services : success'[t] <= success[t]
      BY <2>3 DEF LoseMetric
    <3>2. \A t \in Services : success'[t] \in Nat
      BY <3>1, MountAssumption
    <3> QED BY <2>1, <3>1, <3>2 DEF Reasons, Forgotten
  <2>4. ASSUME NEW s \in Services, EmitWrite(s), ~overlap, NEW t \in Services,
               success'[t] # success[t]
        PROVE  Earned(t) \/ Forgotten(t) \/ PutBack(t)
    <3>1. At(s, "write") /\ ReadWell(s, t)
      BY <1>1, <2>4 DEF IInv, Stage, Knows, EmitWrite
    <3>2. clock \in Nat /\ clock' \in Nat /\ clock <= clock'
      BY <1>1, <2>4, MountAssumption DEF IInv, TypeOK, EmitWrite
    <3>3. run[s].prev \in [Services -> 0..MaxStamp]
      BY <1>1 DEF IInv, TypeOK
    <3>4. \/ success'[t] = run[s].prev[t]
          \/ success'[t] = clock' /\ gauge' = TargetState(t)
      BY <2>4, <3>3 DEF EmitWrite, SuccessfulAction
    <3>5. CASE success'[t] = clock' /\ gauge' = TargetState(t)
      BY <2>1, <2>4, <3>2, <3>5 DEF Earned
    <3>6. CASE success'[t] = run[s].prev[t] /\ gauge = "none"
      BY <3>1, <3>6 DEF PutBack
    <3>7. CASE success'[t] = run[s].prev[t] /\ gauge # "none"
      <4>1. t \in run[s].unread /\ success'[t] = 0
        BY <2>4, <3>1, <3>7 DEF ReadWell
      <4> QED BY <2>1, <2>4, <3>1, <4>1 DEF Forgotten
    <3> QED BY <3>4, <3>5, <3>6, <3>7
  <2>5. UNCHANGED success \/ LoseMetric \/ \E s \in Services : EmitWrite(s)
    BY <1>1 DEF Next, vars, Files, Start, Step, Pre, PreviousStatus, Probe, Act, NewStatus,
           EmitStatus, EmitRead, Restart, Kill, EmitFails, HostCrash
  <2> QED BY <2>2, <2>3, <2>4, <2>5 DEF Reasons
<1> QED BY <1>1, Inductive, PTL DEF Spec, SuccessIsEarned, Reasons

(***************************************************************************)
(* A run ends.  This is the part of LockCompletes that is not about        *)
(* fairness: the steps a service still has ahead of it, a restart          *)
(* included, are a natural number that each of its steps lowers, failed    *)
(* commands too, and that only a start or a kill raises.                   *)
(***************************************************************************)
Again(r) == IF CountsAsSuccess(r.exit) THEN 0 ELSE 5 + 4 * NPaths

Ahead(r) ==
    CASE r.pc = "wait"  -> 5 + 4 * NPaths
      [] r.pc = "pre"   -> 4 + 4 * NPaths
      [] r.pc = "prev"  -> 3 + 4 * NPaths
      [] r.pc = "probe" -> 4 + 4 * NPaths - 2 * r.pos
      [] r.pc = "act"   -> 3 + 4 * NPaths - 2 * r.pos
      [] r.pc = "new"   -> 3 + 2 * NPaths - r.pos
      [] r.pc = "post"  -> 3 + NPaths - r.pos + Again(r)
      [] r.pc = "read"  -> 2 + Again(r)
      [] r.pc = "write" -> 1 + Again(r)
      [] OTHER          -> 0

LEMMA AheadIs ==
    ASSUME NEW r \in RunSet
    PROVE  /\ Ahead(r) \in Nat /\ r.pos \in 1..NPaths /\ NPaths \in Nat \ {0}
           /\ Again(r) \in {0, 5 + 4 * NPaths}
           /\ r.pc = "wait"  => Ahead(r) = 5 + 4 * NPaths
           /\ r.pc = "pre"   => Ahead(r) = 4 + 4 * NPaths
           /\ r.pc = "prev"  => Ahead(r) = 3 + 4 * NPaths
           /\ r.pc = "probe" => Ahead(r) = 4 + 4 * NPaths - 2 * r.pos
           /\ r.pc = "act"   => Ahead(r) = 3 + 4 * NPaths - 2 * r.pos
           /\ r.pc = "new"   => Ahead(r) = 3 + 2 * NPaths - r.pos
           /\ r.pc = "post"  => Ahead(r) = 3 + NPaths - r.pos + Again(r)
           /\ r.pc = "read"  => Ahead(r) = 2 + Again(r)
           /\ r.pc = "write" => Ahead(r) = 1 + Again(r)
           /\ r.pc = "idle"  => Ahead(r) = 0
<1>1. r.pos \in 1..NPaths /\ NPaths \in Nat \ {0} /\ r.pc \in Labels
  BY MountAssumption DEF RunSet, Paths
<1>2. Again(r) \in {0, 5 + 4 * NPaths}
  BY DEF Again
<1> HIDE DEF Again
<1> QED BY <1>1, <1>2 DEF Ahead, Labels

(* What a step makes of a run, as far as Ahead can tell.                   *)
Same(x, y) == y.exit = x.exit
Moves(x, y) ==
    \/ x.pc = "wait" /\ y.pc = "pre"
    \/ x.pc = "pre" /\ y.pc = "prev"
    \/ x.pc = "prev" /\ y.pc = "probe" /\ y.pos = x.pos
    \/ x.pc = "probe" /\ y.pc = "act" /\ y.pos = x.pos
    \/ x.pc \in {"probe", "act"} /\ y.pc = "probe" /\ y.pos = x.pos + 1
    \/ x.pc \in {"probe", "act"} /\ y.pc = "new"
    \/ x.pc = "new" /\ y.pc = "new" /\ y.pos = x.pos + 1
    \/ x.pc \in {"prev", "new"} /\ y.pc = "post" /\ y.pos = 1 /\ CountsAsSuccess(y.exit)
    \/ x.pc = "post" /\ y.pc = "post" /\ y.pos = x.pos + 1 /\ Same(x, y)
    \/ x.pc = "post" /\ y.pc = "read" /\ Same(x, y)
    \/ x.pc = "read" /\ y.pc = "write" /\ Same(x, y)
    \/ x.pc \in {"post", "read", "write"} /\ y.pc = "idle"
    \/ x.pc \in {"post", "read", "write"} /\ y.pc = "wait" /\ ~CountsAsSuccess(x.exit)

LEMMA MovesLower == ASSUME NEW x \in RunSet, NEW y \in RunSet, Moves(x, y) PROVE Ahead(y) < Ahead(x)
<1> DEFINE n == NPaths
           i == x.pos
           j == y.pos
           a == Again(x)
           b == Again(y)
           u == Ahead(x)
           v == Ahead(y)
<1>1. /\ n \in Nat /\ i \in Nat /\ j \in Nat /\ a \in Nat /\ b \in Nat /\ u \in Nat /\ v \in Nat
      /\ 1 <= i /\ i <= n /\ 1 <= j /\ j <= n /\ a \in {0, 5 + 4 * n} /\ b \in {0, 5 + 4 * n}
      /\ n = NPaths /\ i = x.pos /\ j = y.pos /\ a = Again(x) /\ b = Again(y)
      /\ u = Ahead(x) /\ v = Ahead(y)
  BY AheadIs
<1> HIDE DEF n, i, j, a, b, u, v
<1>2. CountsAsSuccess(y.exit) => b = 0
  BY <1>1 DEF Again
<1>3. ~CountsAsSuccess(x.exit) => a = 5 + 4 * n
  BY <1>1 DEF Again
<1>4. Same(x, y) => b = a
  BY <1>1 DEF Same, Again
<1>5. ASSUME x.pc = "wait" /\ y.pc = "pre" PROVE v < u
  BY <1>1, <1>5, AheadIs
<1>6. ASSUME x.pc = "pre" /\ y.pc = "prev" PROVE v < u
  BY <1>1, <1>6, AheadIs
<1>7. ASSUME x.pc = "prev" /\ y.pc = "probe" PROVE v < u
  <2>1. u = 3 + 4 * n /\ v = 4 + 4 * n - 2 * j
    BY <1>1, <1>7, AheadIs
  <2> QED BY <1>1, <2>1
<1>8. ASSUME x.pc = "probe" /\ y.pc = "act" /\ y.pos = x.pos PROVE v < u
  <2>1. u = 4 + 4 * n - 2 * i /\ v = 3 + 4 * n - 2 * i
    BY <1>1, <1>8, AheadIs
  <2> QED BY <1>1, <2>1
<1>9. ASSUME x.pc \in {"probe", "act"} /\ y.pc = "probe" /\ y.pos = x.pos + 1 PROVE v < u
  <2>1. u >= 3 + 4 * n - 2 * i /\ v = 4 + 4 * n - 2 * j /\ j = i + 1
    BY <1>1, <1>9, AheadIs
  <2> QED BY <1>1, <2>1
<1>10. ASSUME x.pc \in {"probe", "act"} /\ y.pc = "new" PROVE v < u
  <2>1. u >= 3 + 4 * n - 2 * i /\ v = 3 + 2 * n - j
    BY <1>1, <1>10, AheadIs
  <2> QED BY <1>1, <2>1
<1>11. ASSUME x.pc = "new" /\ y.pc = "new" /\ y.pos = x.pos + 1 PROVE v < u
  <2>1. u = 3 + 2 * n - i /\ v = 3 + 2 * n - j /\ j = i + 1
    BY <1>1, <1>11, AheadIs
  <2> QED BY <1>1, <2>1
<1>12. ASSUME x.pc \in {"prev", "new"} /\ y.pc = "post" /\ y.pos = 1 /\ CountsAsSuccess(y.exit) PROVE v < u
  <2>1. u \in {3 + 4 * n, 3 + 2 * n - i} /\ v = 3 + n - j + b /\ j = 1 /\ b = 0
    BY <1>1, <1>2, <1>12, AheadIs
  <2> QED BY <1>1, <2>1
<1>13. ASSUME x.pc = "post" /\ y.pc = "post" /\ y.pos = x.pos + 1 /\ Same(x, y) PROVE v < u
  <2>1. u = 3 + n - i + a /\ v = 3 + n - j + a /\ j = i + 1
    BY <1>1, <1>4, <1>13, AheadIs
  <2> QED BY <1>1, <2>1
<1>14. ASSUME x.pc = "post" /\ y.pc = "read" /\ Same(x, y) PROVE v < u
  <2>1. u = 3 + n - i + a /\ v = 2 + a
    BY <1>1, <1>4, <1>14, AheadIs
  <2> QED BY <1>1, <2>1
<1>15. ASSUME x.pc = "read" /\ y.pc = "write" /\ Same(x, y) PROVE v < u
  <2>1. u = 2 + a /\ v = 1 + a
    BY <1>1, <1>4, <1>15, AheadIs
  <2> QED BY <1>1, <2>1
<1>16. ASSUME x.pc \in {"post", "read", "write"} /\ (y.pc = "idle" \/ (y.pc = "wait" /\ ~CountsAsSuccess(x.exit))) PROVE v < u
  <2>1. u \in {3 + n - i + a, 2 + a, 1 + a}
    BY <1>1, <1>16, AheadIs
  <2>2. v = 0 \/ (v = 5 + 4 * n /\ a = 5 + 4 * n)
    BY <1>1, <1>3, <1>16, AheadIs
  <2> QED BY <1>1, <2>1, <2>2
<1>17. v < u
  BY <1>5, <1>6, <1>7, <1>8, <1>9, <1>10, <1>11, <1>12, <1>13, <1>14, <1>15, <1>16 DEF Moves
<1> QED BY <1>1, <1>17

(* A step of the service, as a move of its run.                            *)
MovesOn(s) == \E y \in RunSet : run' = [run EXCEPT ![s] = y] /\ Moves(run[s], y)

LEMMA ExitMoves ==
    ASSUME TypeOK, NEW s \in Services, NEW code \in {0, 1}, Exit(s, code),
           run[s].pc \in {"prev", "new"}
    PROVE  MovesOn(s)
<1> DEFINE d == run[s].day
           y == [Idle EXCEPT !.pc = "post", !.day = d, !.exit = code]
<1>1. d \in {"trade", "holiday"} /\ "post" \in Labels
  BY ServiceTypes DEF RunSet, Labels
<1>2. run' = [run EXCEPT ![s] = y]
  BY DEF Exit
<1> HIDE DEF d
<1>3. y \in RunSet /\ y.pc = "post" /\ y.pos = 1 /\ y.exit = code
  BY <1>1, IdleIs DEF RunSet
<1> HIDE DEF y
<1> QED BY <1>2, <1>3 DEF MovesOn, Moves, CountsAsSuccess

LEMMA LoopMoves ==
    ASSUME TypeOK, NEW s \in Services, NEW result \in Results, run[s].pc \in {"probe", "act"},
           run' = [run EXCEPT ![s] = NextPath(s, result)]
    PROVE  MovesOn(s)
<1>1. PICK y : y = NextPath(s, result)
  OBVIOUS
<1>2. y \in RunSet /\ (y.pc = "new" \/ (y.pc = "probe" /\ y.pos = run[s].pos + 1))
  BY <1>1, NextPathIs
<1> QED BY <1>1, <1>2 DEF MovesOn, Moves

LEMMA StatusMoves ==
    ASSUME TypeOK, NEW s \in Services, run[s].pc \in {"new", "post"}, run[s].pos < NPaths,
           run' = [run EXCEPT ![s] = [@ EXCEPT !.pos = run[s].pos + 1, !.seen = SeenNow(s)]]
    PROVE  MovesOn(s)
<1> DEFINE x == run[s]
           now == SeenNow(s)
           n == x.pos + 1
           y == [x EXCEPT !.pos = n, !.seen = now]
<1>1. x \in RunSet /\ x = run[s] /\ now \in SUBSET Paths /\ n \in Paths /\ n = x.pos + 1
  BY ServiceTypes DEF SeenNow, Paths
<1>2. run' = [run EXCEPT ![s] = y]
  OBVIOUS
<1> HIDE DEF x, now, n
<1>3. y \in RunSet /\ y.pc = x.pc /\ y.pos = n /\ y.exit = x.exit
  BY <1>1 DEF RunSet
<1> HIDE DEF y
<1> QED BY <1>1, <1>2, <1>3 DEF MovesOn, Moves, Same

LEMMA SettleMoves ==
    ASSUME TypeOK, NEW s \in Services, NEW e \in BOOLEAN, Ended(s),
           run' = [run EXCEPT ![s] = Settle(s, e)]
    PROVE  MovesOn(s)
<1>1. PICK y : y = Settle(s, e)
  OBVIOUS
<1>2. y \in RunSet /\ y.pc \in {"idle", "wait"}
  BY <1>1, SettleIs
<1>3. CountsAsSuccess(run[s].exit) => y.pc = "idle"
  BY <1>1, IdleIs DEF Settle, Idle
<1> QED BY <1>1, <1>2, <1>3 DEF MovesOn, Moves, Ended

LEMMA EmitStatusMoves == ASSUME TypeOK, NEW s \in Services, EmitStatus(s) PROVE MovesOn(s)
<1>1. At(s, "post") /\ run[s].pc \in {"new", "post"}
  BY DEF EmitStatus, At
<1>2. CASE run[s].pos < NPaths
           /\ run' = [run EXCEPT ![s] = [@ EXCEPT !.pos = run[s].pos + 1, !.seen = SeenNow(s)]]
  BY <1>1, <1>2, StatusMoves
<1>3. ASSUME NEW v \in States,
             run' = [run EXCEPT ![s] = [run[s] EXCEPT !.pc = "read", !.pos = 1, !.seen = {},
                                                      !.state = v]]
      PROVE  MovesOn(s)
  <2> DEFINE x == run[s]
             y == [x EXCEPT !.pc = "read", !.pos = 1, !.seen = {}, !.state = v]
  <2>1. x \in RunSet /\ x = run[s] /\ run' = [run EXCEPT ![s] = y] /\ 1 \in Paths
    BY <1>3, ServiceTypes, MountAssumption DEF Paths
  <2> HIDE DEF x
  <2>2. y \in RunSet /\ y.pc = "read" /\ y.exit = x.exit
    BY <2>1 DEF RunSet, Labels
  <2> HIDE DEF y
  <2> QED BY <1>1, <2>1, <2>2 DEF MovesOn, Moves, Same, At
<1>4. Classify(SeenNow(s)) \in States /\ UnknownState \in States
  BY DEF Classify, UnknownState, States
<1> QED BY <1>2, <1>3, <1>4 DEF EmitStatus

(* Each step of a service, a failed emitter included, is such a move.      *)
LEMMA StepMoves ==
    ASSUME TypeOK, NEW s \in Services, Step(s) \/ EmitFails(s) PROVE MovesOn(s)
<1>1. ASSUME NEW l \in {"prev", "probe", "act"},
             run' = [run EXCEPT ![s] = [run[s] EXCEPT !.pc = l]],
             \/ At(s, "pre") /\ l = "prev"
             \/ At(s, "prev") /\ l = "probe"
             \/ At(s, "probe") /\ l = "act"
      PROVE  MovesOn(s)
  <2> DEFINE x == run[s]
             y == [x EXCEPT !.pc = l]
  <2>1. x \in RunSet /\ x = run[s] /\ run' = [run EXCEPT ![s] = y]
    BY <1>1, ServiceTypes
  <2> HIDE DEF x
  <2>2. y \in RunSet /\ y.pc = l /\ y.pos = x.pos
    BY <2>1 DEF RunSet, Labels
  <2> HIDE DEF y
  <2> QED BY <1>1, <2>1, <2>2 DEF MovesOn, Moves, At
<1>2. CASE Pre(s)
  <2>1. At(s, "pre") /\ run' = [run EXCEPT ![s] = [run[s] EXCEPT !.pc = "prev"]]
    BY <1>2 DEF Pre, CountsAsSuccess, TradingDayExit
  <2> QED BY <1>1, <2>1
<1>3. CASE PreviousStatus(s)
  BY <1>1, <1>3, ExitMoves DEF PreviousStatus, At
<1>4. CASE Probe(s)
  <2>1. {"already", "error"} \subseteq Results /\ At(s, "probe") /\ run[s].pc \in {"probe", "act"}
    BY <1>4 DEF Probe, At, Results
  <2> QED BY <1>1, <1>4, <2>1, LoopMoves DEF Probe
<1>5. CASE Act(s)
  <2>1. {"ok", "error"} \subseteq Results /\ run[s].pc \in {"probe", "act"}
    BY <1>5 DEF Act, At, Results
  <2> QED BY <1>5, <2>1, LoopMoves DEF Act
<1>6. CASE NewStatus(s)
  <2>1. run[s].pc \in {"new", "post"} /\ run[s].pc \in {"prev", "new"}
    BY <1>6 DEF NewStatus, At
  <2>2. ExitCode(Classify(SeenNow(s)), TargetState(s)) \in {0, 1}
    BY DEF ExitCode
  <2> QED BY <1>6, <2>1, <2>2, StatusMoves, ExitMoves DEF NewStatus
<1>7. CASE EmitStatus(s)
  BY <1>7, EmitStatusMoves
<1>8. CASE EmitRead(s)
  <2>1. PICK unread \in SUBSET Services :
            run' = [run EXCEPT ![s] = [@ EXCEPT !.pc = "write", !.unread = unread,
                                                !.prev = ReadStamps(unread)]]
    BY <1>8 DEF EmitRead
  <2> DEFINE x == run[s]
             prev == ReadStamps(unread)
             y == [x EXCEPT !.pc = "write", !.unread = unread, !.prev = prev]
  <2>2. prev \in [Services -> 0..MaxStamp]
    BY MountAssumption DEF ReadStamps, TypeOK
  <2>3. At(s, "read") /\ x \in RunSet /\ x = run[s] /\ run' = [run EXCEPT ![s] = y]
    BY <1>8, <2>1, ServiceTypes DEF EmitRead
  <2> HIDE DEF x, prev
  <2>4. y \in RunSet /\ y.pc = "write" /\ y.exit = x.exit
    BY <2>2, <2>3 DEF RunSet, Labels
  <2> HIDE DEF y
  <2> QED BY <2>3, <2>4 DEF MovesOn, Moves, Same, At
<1>9. CASE EmitWrite(s)
  BY <1>9, SettleMoves DEF EmitWrite, Ended, At
<1>10. CASE EmitFails(s)
  BY <1>10, SettleMoves DEF EmitFails, Ended
<1>11. CASE Restart(s)
  <2> DEFINE d == run[s].day
             y == [Idle EXCEPT !.pc = "pre", !.day = d]
  <2>1. At(s, "wait") /\ run' = [run EXCEPT ![s] = y] /\ d \in {"trade", "holiday"}
    BY <1>11, ServiceTypes DEF Restart, RunSet
  <2> HIDE DEF d
  <2>2. y \in RunSet /\ y.pc = "pre"
    BY <2>1, IdleIs DEF RunSet, Labels
  <2> HIDE DEF y
  <2> QED BY <2>1, <2>2 DEF MovesOn, Moves, At
<1> QED BY <1>2, <1>3, <1>4, <1>5, <1>6, <1>7, <1>8, <1>9, <1>10, <1>11 DEF Step

Ends ==
    \A s \in Services :
        /\ Ahead(run[s]) \in Nat /\ Ahead(run'[s]) \in Nat
        /\ Step(s) \/ EmitFails(s) => Ahead(run'[s]) < Ahead(run[s])
        /\ Ahead(run'[s]) > Ahead(run[s])
           => Kill(s) \/ \E day \in {"trade", "holiday"} : Start(s, day)

(* Every run of a service ends: its own steps, failed ones too, lead down  *)
(* to idle, and no run beside it, no fault and no failed emitter sends it  *)
(* back; only a kill does, or the next start.                              *)
THEOREM EveryServiceRunEnds == Spec => [][Ends]_vars
<1>1. ASSUME TypeOK, TypeOK', [Next]_vars PROVE Ends
  <2> SUFFICES ASSUME NEW s \in Services
               PROVE  /\ Ahead(run[s]) \in Nat /\ Ahead(run'[s]) \in Nat
                      /\ Step(s) \/ EmitFails(s) => Ahead(run'[s]) < Ahead(run[s])
                      /\ Ahead(run'[s]) > Ahead(run[s])
                         => Kill(s) \/ \E day \in {"trade", "holiday"} : Start(s, day)
    BY DEF Ends
  <2>1. run \in [Services -> RunSet] /\ run'[s] \in RunSet
    BY <1>1 DEF TypeOK, RunSet, Labels, Results, States
  <2>2. Ahead(run[s]) \in Nat /\ Ahead(run'[s]) \in Nat
    BY <2>1, AheadIs
  <2>3. ASSUME Step(s) \/ EmitFails(s) PROVE Ahead(run'[s]) < Ahead(run[s])
    <3>1. PICK y \in RunSet : run' = [run EXCEPT ![s] = y] /\ Moves(run[s], y)
      BY <1>1, <2>3, StepMoves DEF MovesOn
    <3>2. run'[s] = y
      BY <2>1, <3>1
    <3> QED BY <2>1, <3>1, <3>2, MovesLower
  <2>4. ASSUME NEW t \in Services, t # s,
               Step(t) \/ Kill(t) \/ EmitFails(t) \/ \E day \in {"trade", "holiday"} : Start(t, day)
        PROVE  run'[s] = run[s]
    <3>1. \E y : run' = [run EXCEPT ![t] = y]
      <4>1. Step(t) \/ EmitFails(t) => \E y : run' = [run EXCEPT ![t] = y]
        BY <1>1, StepMoves DEF MovesOn
      <4> QED BY <2>4, <4>1 DEF Kill, Exit, Start
    <3> QED BY <2>1, <2>4, <3>1
  <2>5. HostCrash => Ahead(run'[s]) = 0
    <3>1. HostCrash => run'[s].pc = "idle"
      <4>1. [Idle EXCEPT !.emitted = FALSE].pc = "idle"
        BY IdleIs DEF RunSet
      <4> QED BY <4>1 DEF HostCrash
    <3> QED BY <2>1, <3>1, AheadIs
  <2>6. UNCHANGED vars \/ LoseMetric => run'[s] = run[s]
    BY DEF vars, LoseMetric
  <2>7. \/ UNCHANGED vars \/ LoseMetric \/ HostCrash
        \/ \E t \in Services : Step(t) \/ Kill(t) \/ EmitFails(t)
                               \/ \E day \in {"trade", "holiday"} : Start(t, day)
    BY <1>1 DEF Next
  <2> QED BY <2>2, <2>3, <2>4, <2>5, <2>6, <2>7
<1> QED BY <1>1, MountTypes, PTL DEF Spec
=============================================================================
