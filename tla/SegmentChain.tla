---------------------------- MODULE SegmentChain ----------------------------
(***************************************************************************)
(* scripts/monthly_ledger_chain.py: the segment hash of one month of the   *)
(* ledger, published as a read-only file in two places, the external SSD   *)
(* and the S3 placeholder.                                                 *)
(*                                                                         *)
(* The timer (or an operator) runs it; nothing keeps two runs apart but    *)
(* DuckDB's lock, which each gives back before it writes.  Time is the     *)
(* month of the clock; the id of a row is its position.                    *)
(***************************************************************************)
EXTENDS HashChain, Sequences

CONSTANTS Runs,      \* processes of the script that can run at a time
          Builds,    \* policy shas of the builds
          MaxMonth,  \* bound: the clock
          MaxRows,   \* bound: rows of the ledger
          MaxStarts, \* bound: runs started
          MaxFaults  \* bound: failures, kills, power cuts and clock steps

ASSUME SegmentAssumption ==
    /\ Builds # {} /\ MaxMonth \in Nat \ {0} /\ MaxRows \in Nat
    /\ MaxStarts \in Nat /\ MaxFaults \in Nat

Months == 1..MaxMonth
Places == {"local", "s3"}
Files == Places \X Months  \* --out-local and --s3-placeholder of each month

VARIABLES rows,       \* month of created_at_utc of each row, by id
          now,        \* the month of the clock
          build,      \* POLICY_VERSION_SHA of the code in place
          archive,    \* content of each published file
          tmp,        \* content of each file's tmp sibling
          run,        \* the processes
          stepped,    \* observer: the clock was set back
          overlapped, \* observer: two runs of a month were under way
          killed,     \* observer: a run was killed, or the power cut
          starts,     \* observer: runs started so far
          faults      \* observer: faults so far

vars == <<rows, now, build, archive, tmp, run, stepped, overlapped, killed,
          starts, faults>>

Absent == [kind |-> "absent"]
Torn == [kind |-> "torn"]

Idle == [pc |-> "idle", month |-> 1, s3 |-> FALSE, place |-> "local",
         body |-> Absent, old |-> Absent, fd |-> "none", alone |-> TRUE]

Init ==
    /\ rows = <<>> /\ now = 1 /\ build \in Builds
    /\ archive = [f \in Files |-> Absent] /\ tmp = [f \in Files |-> Absent]
    /\ run = [r \in Runs |-> Idle]
    /\ stepped = FALSE /\ overlapped = FALSE /\ killed = FALSE
    /\ starts = 0 /\ faults = 0

At(r, label) == run[r].pc = label
File(r) == <<run[r].place, run[r].month>>
NoFault == UNCHANGED faults
Fault == faults < MaxFaults /\ faults' = faults + 1

(***************************************************************************)
(* The ledger, the clock and the builds.                                   *)
(***************************************************************************)
(* LedgerClient.append: created_at_utc is the database's now().            *)
AppendRow ==
    /\ Len(rows) < MaxRows /\ rows' = Append(rows, now)
    /\ UNCHANGED <<now, build, archive, tmp, run, stepped, overlapped, killed, starts>>

MonthEnds ==
    /\ now < MaxMonth /\ now' = now + 1
    /\ UNCHANGED <<rows, build, archive, tmp, run, stepped, overlapped, killed, starts>>

ClockStepsBack ==
    /\ now > 1 /\ now' = now - 1 /\ stepped' = TRUE
    /\ UNCHANGED <<rows, build, archive, tmp, run, overlapped, killed, starts>>

Deploy(b) ==
    /\ b # build /\ build' = b
    /\ UNCHANGED <<rows, now, archive, tmp, run, stepped, overlapped, killed, starts>>

(***************************************************************************)
(* main, and compute_segment_hash under the database lock                  *)
(***************************************************************************)
InMonth_ToNextStart(at, m) == at \in {m, m + 1}
(* created_at_utc >= the month's start AND < the next month's.             *)
InMonth(at, m) == at = m

Ids(m) == {i \in DOMAIN rows : InMonth(rows[i], m)}

Body_IgnoresPrev(m, prev) ==
    [kind |-> "body", month |-> m, prev |-> prev, ids |-> Ids(m), sha |-> build,
     hash |-> SegmentHash(NoHash, Ids(m), build), closed |-> m < now]
(* The JSON document.  "closed" is an observer: was the month over?        *)
Body(m, prev) ==
    [kind |-> "body", month |-> m, prev |-> prev, ids |-> Ids(m), sha |-> build,
     hash |-> SegmentHash(prev, Ids(m), build), closed |-> m < now]

(* The operator passes the hash published for the month before, or none.   *)
PrevHashes(m) ==
    {NoHash} \cup {archive[<<"local", k>>].hash :
        k \in {k \in Months : k = m - 1 /\ archive[<<"local", k>>].kind = "body"}}

Among(m) == {q \in Runs : run[q].pc # "idle" /\ run[q].month = m}

(* Opening the database, the query and the close are one step: the lock is *)
(* held throughout.  A run that fails there (exit 1) has done nothing.     *)
Compute(r, m, s3, prev) ==
    /\ At(r, "idle") /\ m <= now /\ starts < MaxStarts /\ starts' = starts + 1
    /\ run' = [q \in Runs |->
         IF q = r THEN [Idle EXCEPT !.pc = "open", !.month = m, !.s3 = s3,
                                   !.body = Body(m, prev), !.alone = Among(m) = {}]
         ELSE [run[q] EXCEPT !.alone = @ /\ q \notin Among(m)]]
    /\ overlapped' = (overlapped \/ Among(m) # {})
    /\ UNCHANGED <<rows, now, build, archive, tmp, stepped, killed>>

End(r) == run' = [run EXCEPT ![r] = Idle]

Exit(r) ==
    /\ At(r, "exit") /\ End(r)
    /\ UNCHANGED <<rows, now, build, archive, tmp, stepped, overlapped, killed, starts>>

(***************************************************************************)
(* _atomic_write_readonly                                                  *)
(***************************************************************************)
(* open(tmp, "w"): an empty file, or the one there made empty; its name is *)
(* the same for every run of the month.                                    *)
Opened_Append(content) == IF content = Absent THEN Torn ELSE content
Opened(content) == Torn

OpenTmp(r) ==
    /\ At(r, "open")
    /\ run' = [run EXCEPT ![r] = [@ EXCEPT !.pc = "write", !.fd = "tmp"]]
    /\ tmp' = [tmp EXCEPT ![File(r)] = Opened(@)]
    /\ UNCHANGED <<rows, now, build, archive, stepped, overlapped, killed, starts>>

(* What a file holds after r wrote its body from the start of it.  Another *)
(* run's longer body keeps its tail.                                       *)
Over(r, content) == {run[r].body} \cup IF content.kind = "body" THEN {Torn} ELSE {}

(* write and fsync, through a descriptor whose file another run may have   *)
(* renamed, or replaced, since.                                            *)
Write(r) ==
    CASE run[r].fd = "tmp" ->
           /\ UNCHANGED archive
           /\ \E c \in Over(r, tmp[File(r)]) : tmp' = [tmp EXCEPT ![File(r)] = c]
      [] run[r].fd = "target" ->
           /\ UNCHANGED tmp
           /\ \E c \in Over(r, archive[File(r)]) : archive' = [archive EXCEPT ![File(r)] = c]
      [] OTHER -> UNCHANGED <<tmp, archive>>

WriteBody(r) ==
    /\ At(r, "write") /\ Write(r)
    /\ run' = [run EXCEPT ![r] = [@ EXCEPT !.pc = "replace", !.fd = "none"]]
    /\ UNCHANGED <<rows, now, build, stepped, overlapped, killed, starts>>

(* Descriptors that other runs hold follow their files.                    *)
Follow(r, me, tmpIsNow) ==
    run' = [q \in Runs |->
        IF q = r THEN me
        ELSE IF File(q) # File(r) \/ run[q].fd = "none" THEN run[q]
        ELSE [run[q] EXCEPT !.fd = IF @ = "tmp" THEN tmpIsNow
                                   ELSE IF tmpIsNow = "target" THEN "gone" ELSE @]]

(* os.replace                                                              *)
Replace(r) ==
    /\ At(r, "replace") /\ tmp[File(r)] # Absent
    /\ archive' = [archive EXCEPT ![File(r)] = tmp[File(r)]]
    /\ tmp' = [tmp EXCEPT ![File(r)] = Absent]
    /\ Follow(r, [run[r] EXCEPT !.pc = "dirsync", !.old = archive[File(r)]], "target")
    /\ UNCHANGED <<rows, now, build, stepped, overlapped, killed, starts>>

Unlink_Never(r) == UNCHANGED tmp
(* except BaseException: unlink the tmp file, whosever it is.              *)
Unlink(r) == tmp' = [tmp EXCEPT ![File(r)] = Absent]

(* FileNotFoundError: another run took the tmp file.  Not caught by main.  *)
ReplaceFails(r) ==
    /\ At(r, "replace") /\ tmp[File(r)] = Absent /\ End(r)
    /\ UNCHANGED <<rows, now, build, archive, tmp, stepped, overlapped, killed, starts>>

(* The parent directory is synced, the mode set; then the second place.    *)
NextPlace(r) ==
    IF run[r].place = "local" /\ run[r].s3
    THEN [run[r] EXCEPT !.pc = "open", !.place = "s3", !.old = Absent]
    ELSE [run[r] EXCEPT !.pc = "exit", !.old = Absent]

SyncDir(r) ==
    /\ At(r, "dirsync") /\ run' = [run EXCEPT ![r] = NextPlace(r)]
    /\ UNCHANGED <<rows, now, build, archive, tmp, stepped, overlapped, killed, starts>>

(* OSError, from a full disk, say: mkdir, chmod and the directory sync are *)
(* not guarded, what is between them unlinks and raises.                   *)
WriteFails(r) ==
    /\ \/ run[r].pc \in {"open", "dirsync"} /\ UNCHANGED tmp /\ End(r)
       \/ run[r].pc \in {"open", "write", "replace"} /\ Unlink(r) /\ Follow(r, Idle, "gone")
    /\ UNCHANGED <<rows, now, build, archive, stepped, overlapped, killed, starts>>

Kill(r) ==
    /\ run[r].pc \notin {"idle", "exit"} /\ End(r) /\ killed' = TRUE
    /\ UNCHANGED <<rows, now, build, archive, tmp, stepped, overlapped, starts>>

AfterPowerCut_NoFsync(c) == Torn
(* A renamed file keeps its content, which was synced before.              *)
AfterPowerCut(c) == c

(* No run survives, and a rename whose directory was not synced may not.   *)
PowerCut ==
    /\ run' = [r \in Runs |-> Idle] /\ killed' = TRUE
    /\ LET renamed(R, f) == {r \in R : At(r, "dirsync") /\ File(r) = f}
       IN  \E lost \in SUBSET Runs :
             /\ archive' = [f \in Files |->
                  IF renamed(lost, f) # {} THEN run[CHOOSE r \in renamed(lost, f) : TRUE].old
                  ELSE IF renamed(Runs, f) # {} THEN AfterPowerCut(archive[f])
                  ELSE archive[f]]
             /\ tmp' = [f \in Files |-> IF renamed(lost, f) # {} THEN archive[f] ELSE tmp[f]]
    /\ UNCHANGED <<rows, now, build, stepped, overlapped, starts>>

Next ==
    \/ NoFault /\ (AppendRow \/ MonthEnds \/ \E b \in Builds : Deploy(b))
    \/ NoFault /\ \E r \in Runs :
         \/ \E m \in Months, s3 \in BOOLEAN :
              \E prev \in PrevHashes(m) : Compute(r, m, s3, prev)
         \/ OpenTmp(r) \/ WriteBody(r) \/ Replace(r) \/ ReplaceFails(r)
         \/ SyncDir(r) \/ Exit(r)
    \/ Fault /\ \/ ClockStepsBack \/ PowerCut
                \/ \E r \in Runs : WriteFails(r) \/ Kill(r)

Spec == Init /\ [][Next]_vars

(***************************************************************************)
(* Properties                                                              *)
(***************************************************************************)
Hashes == {NoHash} \cup {archive[f].hash : f \in {f \in Files : archive[f].kind = "body"}}

IsContent(c) ==
    \/ c \in {Absent, Torn}
    \/ /\ c.kind = "body" /\ c.month \in Months /\ c.ids \subseteq DOMAIN rows
       /\ c.sha \in Builds /\ c.hash = SegmentHash(c.prev, c.ids, c.sha)
       /\ c.closed \in BOOLEAN

TypeOK ==
    /\ rows \in Seq(Months) /\ Len(rows) <= MaxRows
    /\ now \in Months /\ build \in Builds
    /\ \A f \in Files : IsContent(archive[f]) /\ IsContent(tmp[f])
    /\ \A r \in Runs :
         /\ run[r].pc \in {"idle", "open", "write", "replace", "dirsync", "exit"}
         /\ run[r].month \in Months /\ run[r].place \in Places
         /\ IsContent(run[r].body) /\ IsContent(run[r].old)
         /\ run[r].fd \in {"none", "tmp", "target", "gone"}
         /\ run[r].alone \in BOOLEAN /\ run[r].s3 \in BOOLEAN
    /\ stepped \in BOOLEAN /\ overlapped \in BOOLEAN /\ killed \in BOOLEAN
    /\ starts \in 0..MaxStarts /\ faults \in 0..MaxFaults

(* No kill, full disk or power cut leaves half a document under a          *)
(* published name, as long as no two runs of a month overlap; what such    *)
(* overlaps leave behind is of the fixed tmp name.                         *)
ArchiveIsWhole ==
    ~overlapped => \A f \in Files : archive[f] # Torn

(* A run that was alone and exits 0 has published its own document in each *)
(* place it was given, whatever earlier runs, failed, killed or            *)
(* overlapping, left there (test_monthly_ledger_chain_cli: identical       *)
(* copies, re-runs succeed).                                               *)
ExitZeroPublishes ==
    \A r \in Runs : At(r, "exit") /\ run[r].alone =>
        \A p \in IF run[r].s3 THEN Places ELSE {"local"} :
            archive[<<p, run[r].month>>] = run[r].body

(* segment_hash.py:11-14: the hash of a month that was over can be         *)
(* computed again later, from the previous hash and sha in its document,   *)
(* after any appends and builds in between, if the clock was never set     *)
(* back.                                                                   *)
ClosedMonthIsReproducible ==
    ~stepped => \A f \in Files :
        LET c == archive[f]
        IN  c.kind = "body" /\ c.closed =>
                c.month = f[2] /\ c.hash = SegmentHash(c.prev, Ids(f[2]), c.sha)

(* monthly_ledger_chain.py:43-44: an interrupted run leaves no tmp file,   *)
(* unless no handler could run.                                            *)
TmpNeedsAKill ==
    ~killed => \A f \in Files : tmp[f] # Absent =>
        \E r \in Runs : File(r) = f /\ run[r].pc \in {"write", "replace"}
=============================================================================
