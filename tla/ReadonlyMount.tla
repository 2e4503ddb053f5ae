---------------------------- MODULE ReadonlyMount ----------------------------
(***************************************************************************)
(* F5: the lock and unlock services that set and clear the immutable flag  *)
(* of the policy files, and the textfile metric each emits when it stops.  *)
(*                                                                         *)
(* A run of a service is ExecStartPre (check_trading_day), ExecStart (the  *)
(* CLI around ReadonlyMountController) and ExecStopPost (the emitter).  It *)
(* is started by its timer or by the operator; nothing keeps the two       *)
(* services apart.  Every lsattr and chattr is a step of its own, so the   *)
(* other service's steps fall between a probe and the act that trusts it.  *)
(*                                                                         *)
(* systemd and the file system are external: a status of SuccessExitStatus *)
(* counts as success of whichever process of the unit ended with it; an    *)
(* uncaught exception ends Python with exit status 1.                      *)
(***************************************************************************)
EXTENDS Naturals, FiniteSets

CONSTANTS NPaths,    \* how many protected paths
          MaxFaults, \* bound: failing commands and reads, kills, a damaged
                     \* metric file, host crashes
          MaxStamp   \* bound: seconds; the clock stops there

ASSUME MountAssumption ==
    /\ NPaths \in Nat \ {0}
    /\ MaxFaults \in Nat /\ MaxStamp \in Nat

Services == {"lock", "unlock"}
Paths == 1..NPaths

(* Exit statuses: 0, 1, a signal (a name, which the emitter reads as       *)
(* _UNKNOWN_EXIT), and none yet.                                           *)
Killed == 2
Running == 3

VARIABLES flag,    \* immutable flag of each path, as lsattr shows it
          run,     \* the current or last run of each service
          gauge,   \* the state of the metric file, "none" if no emitter's
                   \* file is there whole
          success, \* last_lock_success and last_unlock_success, as they read
          clock,   \* seconds, advanced by the emitters
          faults,  \* observer: faults so far
          overlap  \* observer: the other service was active when the last run
                   \* started

vars == <<flag, run, gauge, success, clock, faults, overlap>>

Idle == [pc |-> "idle", day |-> "trade", pos |-> 1, seen |-> {},
         res |-> [p \in Paths |-> "none"], exit |-> Running, state |-> "none",
         prev |-> [s \in Services |-> 0], unread |-> {}, emitted |-> TRUE]

Init ==
    /\ flag = [p \in Paths |-> FALSE]
    /\ run = [s \in Services |-> Idle]
    /\ gauge = "none" /\ success = [s \in Services |-> 0] /\ clock = 0
    /\ faults = 0 /\ overlap = FALSE

Classify_AnyIsLocked(immutable) ==
    IF immutable = {} THEN "UNLOCKED" ELSE "LOCKED"
(* _classify_state over the paths seen immutable.                          *)
Classify(immutable) ==
    IF immutable = {} THEN "UNLOCKED"
    ELSE IF immutable = Paths THEN "LOCKED" ELSE "PARTIAL"

ActualState == Classify({p \in Paths : flag[p]})

TargetFlag(s) == s = "lock"
TargetState(s) == IF s = "lock" THEN "LOCKED" ELSE "UNLOCKED"

At(s, label) == run[s].pc = label
Fault == faults < MaxFaults /\ faults' = faults + 1
NoFault == UNCHANGED faults
Files == <<flag, gauge, success, clock>>

(***************************************************************************)
(* The unit                                                                *)
(***************************************************************************)
Start(s, day) ==
    /\ At(s, "idle")
    /\ run' = [run EXCEPT ![s] = [Idle EXCEPT !.pc = "pre", !.day = day]]
    /\ overlap' = (\E t \in Services \ {s} : ~At(t, "idle"))
    /\ UNCHANGED <<Files, faults>>

(* SuccessExitStatus=0 1.                                                  *)
CountsAsSuccess(exit) == exit \in {0, 1}

TradingDayExit(day) == IF day = "trade" THEN 0 ELSE 1

(* check_trading_day exits 1 on a holiday; the unit goes on if that counts *)
(* as success.                                                             *)
Pre(s) ==
    /\ At(s, "pre")
    /\ LET exit == TradingDayExit(run[s].day) IN
       run' = [run EXCEPT ![s] =
                  IF CountsAsSuccess(exit) THEN [@ EXCEPT !.pc = "prev"]
                  ELSE [@ EXCEPT !.pc = "post", !.exit = exit]]
    /\ UNCHANGED <<Files, faults, overlap>>

Settle_NoRestart(s, emitted) == [Idle EXCEPT !.emitted = emitted]
(* After ExecStopPost: Restart=on-failure, or the unit is done.            *)
Settle(s, emitted) ==
    IF CountsAsSuccess(run[s].exit)
    THEN [Idle EXCEPT !.emitted = emitted]
    ELSE [Idle EXCEPT !.emitted = emitted, !.pc = "wait", !.day = run[s].day]

Restart(s) ==
    /\ At(s, "wait")
    /\ run' = [run EXCEPT ![s] = [Idle EXCEPT !.pc = "pre", !.day = run[s].day]]
    /\ UNCHANGED <<Files, faults, overlap>>

Exit(s, code) ==
    run' = [run EXCEPT ![s] = [Idle EXCEPT !.pc = "post", !.day = run[s].day,
                                           !.exit = code]]

(***************************************************************************)
(* ReadonlyMountController._transition                                     *)
(***************************************************************************)
(* previous = self.status(), which is only reported; it raises if lsattr   *)
(* does.                                                                   *)
PreviousStatus(s) ==
    /\ At(s, "prev")
    /\ \/ NoFault /\ run' = [run EXCEPT ![s] = [@ EXCEPT !.pc = "probe"]]
       \/ Fault /\ Exit(s, 1)
    /\ UNCHANGED <<Files, overlap>>

NextPath_OneTooMany(s, result) ==
    IF run[s].pos > NPaths
    THEN [run[s] EXCEPT !.res[run[s].pos] = result, !.pc = "new", !.pos = 1]
    ELSE [run[s] EXCEPT !.res[run[s].pos] = result, !.pc = "probe", !.pos = @ + 1]
NextPath_StopOnError(s, result) ==
    IF run[s].pos = NPaths \/ result = "error"
    THEN [run[s] EXCEPT !.res[run[s].pos] = result, !.pc = "new", !.pos = 1]
    ELSE [run[s] EXCEPT !.res[run[s].pos] = result, !.pc = "probe", !.pos = @ + 1]
(* The loop records the path's result and goes on, also after an error.    *)
NextPath(s, result) ==
    IF run[s].pos = NPaths
    THEN [run[s] EXCEPT !.res[run[s].pos] = result, !.pc = "new", !.pos = 1]
    ELSE [run[s] EXCEPT !.res[run[s].pos] = result, !.pc = "probe", !.pos = @ + 1]

Probe(s) ==
    /\ At(s, "probe")
    /\ \/ /\ NoFault
          /\ IF flag[run[s].pos] = TargetFlag(s)
             THEN run' = [run EXCEPT ![s] = NextPath(s, "already")]
             ELSE run' = [run EXCEPT ![s] = [@ EXCEPT !.pc = "act"]]
       \/ Fault /\ run' = [run EXCEPT ![s] = NextPath(s, "error")]
    /\ UNCHANGED <<Files, overlap>>

(* chattr; one that fails (a timeout, say) may have had its effect.        *)
Act(s) ==
    /\ At(s, "act")
    /\ \/ /\ NoFault
          /\ flag' = [flag EXCEPT ![run[s].pos] = TargetFlag(s)]
          /\ run' = [run EXCEPT ![s] = NextPath(s, "ok")]
       \/ /\ Fault
          /\ flag' \in {flag, [flag EXCEPT ![run[s].pos] = TargetFlag(s)]}
          /\ run' = [run EXCEPT ![s] = NextPath(s, "error")]
    /\ UNCHANGED <<gauge, success, clock, overlap>>

(* One lsattr of a status(): what is seen so far.                          *)
SeenNow(s) == run[s].seen \cup {p \in {run[s].pos} : flag[p]}

(* _exit_code_for_state.                                                   *)
ExitCode(state, expected) == IF state = expected THEN 0 ELSE 1

(* new_state = self.status(), path by path; the CLI exits 0 iff it is the  *)
(* target.  A probe that raises here leaves _transition.                   *)
NewStatus(s) ==
    /\ At(s, "new")
    /\ \/ /\ NoFault
          /\ IF run[s].pos < NPaths
             THEN run' = [run EXCEPT ![s] = [@ EXCEPT !.pos = run[s].pos + 1, !.seen = SeenNow(s)]]
             ELSE Exit(s, ExitCode(Classify(SeenNow(s)), TargetState(s)))
       \/ Fault /\ Exit(s, 1)
    /\ UNCHANGED <<Files, overlap>>

(* The main process is killed; $EXIT_STATUS is then a signal name.         *)
Kill(s) ==
    /\ run[s].pc \in {"prev", "probe", "act", "new"} /\ Fault
    /\ Exit(s, Killed)
    /\ UNCHANGED <<Files, overlap>>

(***************************************************************************)
(* emit_readonly_mount_metric                                              *)
(***************************************************************************)
(* What _actual_state reports when a probe raises.                         *)
UnknownState_Unlocked == "UNLOCKED"
UnknownState == "PARTIAL"

(* _actual_state: status() again.                                          *)
EmitStatus(s) ==
    /\ At(s, "post")
    /\ \/ /\ NoFault
          /\ IF run[s].pos < NPaths
             THEN run' = [run EXCEPT ![s] = [@ EXCEPT !.pos = run[s].pos + 1, !.seen = SeenNow(s)]]
             ELSE run' = [run EXCEPT ![s] = [@ EXCEPT !.pc = "read", !.pos = 1, !.seen = {},
                                                      !.state = Classify(SeenNow(s))]]
       \/ /\ Fault
          /\ run' = [run EXCEPT ![s] = [@ EXCEPT !.pc = "read", !.pos = 1, !.seen = {},
                                                !.state = UnknownState]]
    /\ UNCHANGED <<Files, overlap>>

(* _read_prev_timestamp, called for each timestamp: one that cannot be     *)
(* read is taken for 0.                                                    *)
ReadStamps(unread) == [t \in Services |-> IF t \in unread THEN 0 ELSE success[t]]
EmitRead(s) ==
    /\ At(s, "read")
    /\ \E unread \in SUBSET Services :
          /\ IF unread = {} THEN NoFault ELSE Fault
          /\ run' = [run EXCEPT ![s] = [@ EXCEPT !.pc = "write", !.unread = unread,
                                                 !.prev = ReadStamps(unread)]]
    /\ UNCHANGED <<Files, overlap>>

SuccessfulAction_ExitOnly(s) == run[s].exit = 0
SuccessfulAction(s) == run[s].exit = 0 /\ run[s].state = TargetState(s)

(* The whole file is rendered from what was read and replaced atomically.  *)
EmitWrite(s) ==
    /\ At(s, "write")
    /\ clock' = IF clock < MaxStamp THEN clock + 1 ELSE clock
    /\ gauge' = run[s].state
    /\ success' = IF SuccessfulAction(s) THEN [run[s].prev EXCEPT ![s] = clock']
                                         ELSE run[s].prev
    /\ run' = [run EXCEPT ![s] = Settle(s, TRUE)]
    /\ UNCHANGED <<flag, faults, overlap>>

(* The emitter dies: the old file stays, the unit ends all the same.       *)
EmitFails(s) ==
    /\ run[s].pc \in {"post", "read", "write"} /\ Fault
    /\ run' = [run EXCEPT ![s] = Settle(s, FALSE)]
    /\ UNCHANGED <<Files, overlap>>

(* The metric file is removed or damaged, by a power cut (nothing syncs    *)
(* it) or by hand: a stamp then reads 0, or as fewer digits.               *)
LoseMetric ==
    /\ gauge # "none" /\ Fault
    /\ gauge' = "none"
    /\ success' \in {lost \in [Services -> 0..MaxStamp] :
                       \A t \in Services : lost[t] <= success[t]}
    /\ UNCHANGED <<flag, run, clock, overlap>>

(***************************************************************************)
(* Host crash and reboot: flags survive, so does the metric file unless    *)
(* LoseMetric says otherwise; runs do not, and Persistent=false starts     *)
(* none.                                                                   *)
(***************************************************************************)
HostCrash ==
    /\ Fault
    /\ run' = [s \in Services |-> [Idle EXCEPT !.emitted = FALSE]]
    /\ UNCHANGED <<Files, overlap>>

Step(s) ==
    \/ Pre(s) \/ PreviousStatus(s) \/ Probe(s) \/ Act(s) \/ NewStatus(s)
    \/ EmitStatus(s) \/ EmitRead(s) \/ EmitWrite(s) \/ Restart(s)

Next ==
    \/ \E s \in Services : \E day \in {"trade", "holiday"} : Start(s, day)
    \/ \E s \in Services : Step(s) \/ Kill(s) \/ EmitFails(s)
    \/ LoseMetric \/ HostCrash

Spec == Init /\ [][Next]_vars

(* systemd runs a started unit to its end and restarts a failed one.  A    *)
(* start is up to the timers and the operator and is not assumed.          *)
FairSpec == Spec /\ \A s \in Services : WF_vars(Step(s))

(***************************************************************************)
(* Properties                                                              *)
(***************************************************************************)
TypeOK ==
    /\ flag \in [Paths -> BOOLEAN]
    /\ run \in [Services ->
         [pc : {"idle", "pre", "prev", "probe", "act", "new", "post", "read",
                "write", "wait"},
          day : {"trade", "holiday"}, pos : Paths, seen : SUBSET Paths,
          res : [Paths -> {"none", "already", "ok", "error"}],
          exit : {0, 1, Killed, Running},
          state : {"none", "LOCKED", "UNLOCKED", "PARTIAL"},
          prev : [Services -> 0..MaxStamp], unread : SUBSET Services,
          emitted : BOOLEAN]]
    /\ gauge \in {"none", "LOCKED", "UNLOCKED", "PARTIAL"}
    /\ success \in [Services -> 0..MaxStamp] /\ clock \in 0..MaxStamp
    /\ faults \in 0..MaxFaults /\ overlap \in BOOLEAN

Ended(s) == run[s].pc \in {"post", "read", "write"}
AllAt(target) == \A p \in Paths : flag[p] = target

(* The exit status can be trusted: unless the other service ran beside it, *)
(* a run that ended with 0 left every file in the state it was asked for,  *)
(* whatever commands failed on the way.                                    *)
ExitZeroMeansTarget ==
    \A s \in Services :
        Ended(s) /\ run[s].exit = 0 /\ ~overlap => AllAt(TargetFlag(s))

(* One file's failure never costs another file its flag: when the loop is  *)
(* over, the files not reported as errors are at the target.               *)
PathsAreIndependent ==
    \A s \in Services : At(s, "new") /\ ~overlap =>
        \A p \in Paths : run[s].res[p] = "error" \/ flag[p] = TargetFlag(s)

(* Between runs the metric tells the truth or raises an alarm: after runs  *)
(* that were killed, failed half way or were refused, the gauge shows the  *)
(* real state or PARTIAL, never a LOCKED that is not so.                   *)
GaugeIsHonest ==
    (\A s \in Services : At(s, "idle") /\ run[s].emitted)
        /\ ~overlap /\ gauge # "none"
    => gauge \in {ActualState, "PARTIAL"}

(* A success timestamp moves for three reasons only, unless the services   *)
(* ran beside each other: the service earned it and the gauge shows the    *)
(* state it claims; it was forgotten, because the file was damaged or      *)
(* because the emitter could not read this very stamp; or the emitter that *)
(* had read it before the damage puts it back.  A failed or refused run    *)
(* never moves one, and one stamp's read never costs the other.            *)
Earned(s) == success'[s] > success[s] /\ gauge' = TargetState(s)
Forgotten(s) ==
    /\ success'[s] < success[s]
    /\ gauge' = "none" \/ \E t \in Services : At(t, "write") /\ s \in run[t].unread
PutBack(s) ==
    gauge = "none" /\ \E t \in Services : At(t, "write") /\ success'[s] = run[t].prev[s]
SuccessIsEarned ==
    [][~overlap => \A s \in Services :
          success'[s] # success[s] => Earned(s) \/ Forgotten(s) \/ PutBack(s)]_vars

(* A lock run that starts on a trading day, or was killed and must be      *)
(* restarted, finishes what earlier runs left undone, unless another fault *)
(* hits or the unlock service is started beside it.                        *)
LockCompletes ==
    \A n \in 0..MaxFaults :
        (/\ At("lock", "pre") \/ (Ended("lock") /\ run["lock"].exit = Killed)
         /\ run["lock"].day = "trade"
         /\ At("unlock", "idle") /\ faults = n)
        ~> (AllAt(TRUE) \/ faults > n \/ ~At("unlock", "idle"))

(* lock.service:33-34: a lock that failed for some file, on a trading day, *)
(* is tried again.                                                         *)
PartialLockIsRetried ==
    \A n \in 0..MaxFaults :
        (/\ Ended("lock") /\ run["lock"].exit = 1 /\ run["lock"].day = "trade"
         /\ ~overlap /\ faults = n)
        ~> (AllAt(TRUE) \/ faults > n \/ ~At("unlock", "idle"))

(* lock.service:20-25, lock.timer:4: on a holiday the service is a no-op.  *)
HolidaysAreSkipped ==
    [][flag' # flag => \E s \in Services : ~At(s, "idle") /\ run[s].day = "trade"]_vars
=============================================================================
