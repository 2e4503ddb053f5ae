----------------------------- MODULE PolicyGates -----------------------------
(***************************************************************************)
(* The way of a change of the trading policy to main: the commit-msg hook  *)
(* (check_policy_prefix.py), CI stage 6 (check_cooling.py) and stage 7     *)
(* (check_paper_replay_marker.py) on the head of its pull request, and the *)
(* protected branch, on which a pull request is squashed to one commit.    *)
(*                                                                         *)
(* Pull requests race: each is checked on the history it is based on.  The *)
(* hook may be missing or told to stand aside, and both gates pass what    *)
(* git fails to read to them.  git and GitHub are external; of a message   *)
(* only the lines that begin with "policy:" matter, of a sha only that     *)
(* every new head has a new one.                                           *)
(***************************************************************************)
EXTENDS Naturals, Sequences

CONSTANTS PRs,        \* pull requests open at a time
          Window,     \* COOLING_WINDOW
          MaxTime,    \* bound: the clock
          MaxHeads,   \* bound: heads that branches ever have
          MaxBelow,   \* bound: commits of a branch below its head
          MaxMain,    \* bound: commits of main
          MaxSlips    \* bound: hooks that are bypassed and reads that fail

ASSUME GatesAssumption ==
    /\ Window \in Nat /\ MaxTime \in Nat /\ MaxHeads \in Nat
    /\ MaxBelow \in Nat /\ MaxMain \in Nat \ {0} /\ MaxSlips \in Nat

(* "policy": the subject begins with it; "mention": only a later line does.*)
Kinds == {"policy", "mention", "other"}
Titles == {"policy", "other"}

VARIABLES main,  \* commits of the protected branch
          pr,    \* the pull requests
          tags,  \* heads that have a paper-replay-ok tag
          heads, \* the newest head, heads being numbered
          now,
          slips  \* hooks bypassed and reads failed so far

vars == <<main, pr, tags, heads, now, slips>>

Commit(kind, files) == [kind |-> kind, files |-> files, time |-> now]

(* On main, a commit also carries what its pull request was: its head, the *)
(* base that head was built on, whether both gates could read it, whether  *)
(* they then saw a policy: head, and whether it was a single commit, made  *)
(* once and past the hook.                                                 *)
Root == [kind |-> "other", files |-> FALSE, time |-> 0, head |-> 0, base |-> 0,
         read |-> FALSE, gated |-> FALSE, plain |-> FALSE]

None == [open |-> FALSE, base |-> 1, below |-> <<>>,
         top |-> [kind |-> "other", files |-> FALSE, time |-> 0],
         head |-> 0, passed |-> 0, unread |-> FALSE, unhooked |-> FALSE]

Init ==
    /\ main = <<Root>> /\ pr = [p \in PRs |-> None]
    /\ tags = {} /\ heads = 0 /\ now = 0 /\ slips = 0

Tick == now < MaxTime /\ now' = now + 1 /\ UNCHANGED <<main, pr, tags, heads, slips>>

(***************************************************************************)
(* The author                                                              *)
(***************************************************************************)
HookAllows_Any(kind, staged) == TRUE
(* The commit-msg hook: staged policy files need the prefix.  What it      *)
(* refuses can still be committed, with --no-verify or where nobody        *)
(* installed it; the branch is then unhooked.                              *)
HookAllows(kind, staged) == staged => kind = "policy"

Slip == slips < MaxSlips /\ slips' = slips + 1
Hooked(kind, files) == IF HookAllows(kind, files) THEN UNCHANGED slips ELSE Slip

(* A branch with a new head; checks and tags are of the old one.           *)
NewHead(p, branch) ==
    /\ heads < MaxHeads /\ heads' = heads + 1
    /\ pr' = [pr EXCEPT ![p] = [branch EXCEPT !.head = heads + 1, !.passed = 0,
                                                 !.unread = FALSE]]
    /\ UNCHANGED <<main, tags, now>>

Open(p, kind, files) ==
    /\ ~pr[p].open /\ Hooked(kind, files)
    /\ NewHead(p, [None EXCEPT !.open = TRUE, !.base = Len(main),
                               !.top = Commit(kind, files),
                               !.unhooked = ~HookAllows(kind, files)])

Push(p, kind, files) ==
    /\ pr[p].open /\ Len(pr[p].below) < MaxBelow /\ Hooked(kind, files)
    /\ NewHead(p, [pr[p] EXCEPT !.below = Append(@, pr[p].top),
                                !.top = Commit(kind, files),
                                !.unhooked = @ \/ ~HookAllows(kind, files)])

(* commit --amend: what the old commit had changed is not staged again, so *)
(* that the hook does not see it under the new message.                    *)
Amend(p, kind, files) ==
    /\ pr[p].open /\ Hooked(kind, files)
    /\ NewHead(p, [pr[p] EXCEPT !.top = Commit(kind, files \/ @.files), !.unhooked = TRUE])

(* Rebased on main: every commit is committed again.                       *)
Update(p) ==
    /\ pr[p].open /\ pr[p].base < Len(main) /\ UNCHANGED slips
    /\ NewHead(p, [pr[p] EXCEPT !.base = Len(main), !.top.time = now,
                     !.below = [i \in DOMAIN @ |-> [@[i] EXCEPT !.time = now]]])

Close(p) ==
    /\ pr[p].open /\ pr' = [pr EXCEPT ![p] = None]
    /\ UNCHANGED <<main, tags, heads, now, slips>>

(* The operator tags the head that was replayed on paper.                  *)
TagReplay(p) ==
    /\ pr[p].open /\ tags' = tags \cup {pr[p].head}
    /\ UNCHANGED <<main, pr, heads, now, slips>>

(***************************************************************************)
(* CI, on the head of a pull request                                       *)
(***************************************************************************)
History_WithHead(p) == Append(SubSeq(main, 1, pr[p].base) \o pr[p].below, pr[p].top)
(* git log HEAD~1                                                          *)
History(p) == SubSeq(main, 1, pr[p].base) \o pr[p].below

(* --grep=^policy: looks at every line of a message.                       *)
Matches(h) == {i \in DOMAIN h : h[i].kind \in {"policy", "mention"}}

Previous_Oldest(h) == {i \in Matches(h) : \A j \in Matches(h) : i <= j}
(* prev_policy_commit: the newest of them, if there is one.                *)
Previous(h) == {i \in Matches(h) : \A j \in Matches(h) : j <= i}

Elapsed(h) == \A i \in Previous(h) : h[i].time + Window <= now

(* check_cooling, with git at hand, exits 0.  An exit of 1 changes nothing:*)
(* the job can be run again.                                               *)
CoolingPasses(p) == pr[p].top.kind = "policy" => Elapsed(History(p))

CoolingGate(p) ==
    /\ pr[p].open /\ pr[p].passed = 0 /\ CoolingPasses(p)
    /\ pr' = [pr EXCEPT ![p].passed = @ + 1]
    /\ UNCHANGED <<main, tags, heads, now, slips>>

(* paper-replay-ok/<short sha of HEAD> exists.                             *)
IsMarked(p) == pr[p].head \in tags

ReplayMarker_NoNeeds(p) ==
    /\ pr[p].open /\ (pr[p].top.kind = "policy" => IsMarked(p))
    /\ pr' = [pr EXCEPT ![p].passed = @ + 1]
    /\ UNCHANGED <<main, tags, heads, now, slips>>
(* check_paper_replay_marker exits 0; the job needs stage 6.               *)
ReplayMarker(p) ==
    /\ pr[p].open /\ pr[p].passed = 1 /\ (pr[p].top.kind = "policy" => IsMarked(p))
    /\ pr' = [pr EXCEPT ![p].passed = @ + 1]
    /\ UNCHANGED <<main, tags, heads, now, slips>>

(* git fails: the subject is empty, or there is no earlier policy commit,  *)
(* and whichever of the two gates it was exits 0.                          *)
ReadFails(p) ==
    /\ pr[p].open /\ pr[p].passed < 2 /\ Slip
    /\ pr' = [pr EXCEPT ![p].passed = @ + 1, ![p].unread = TRUE]
    /\ UNCHANGED <<main, tags, heads, now>>

(***************************************************************************)
(* The protected branch                                                    *)
(***************************************************************************)
UpToDate_Any(p) == TRUE
(* "strict": the head was checked on top of what main is now.              *)
UpToDate(p) == pr[p].base = Len(main)

Commits(p) == Append(pr[p].below, pr[p].top)

(* One commit is squashed under its own message; several under the title,  *)
(* which can be edited until then, with their subjects as a list           *)
(* ("* policy: ...") and their other lines.                                *)
SquashKind(p, title) ==
    IF pr[p].below = <<>> THEN pr[p].top.kind
    ELSE IF title = "policy" THEN "policy"
    ELSE IF \E i \in DOMAIN Commits(p) : Commits(p)[i].kind = "mention" THEN "mention"
    ELSE "other"

Squash(p, title) ==
    [kind |-> SquashKind(p, title), time |-> now,
     files |-> \E i \in DOMAIN Commits(p) : Commits(p)[i].files,
     head |-> pr[p].head, base |-> pr[p].base, read |-> ~pr[p].unread,
     gated |-> pr[p].top.kind = "policy" /\ ~pr[p].unread,
     plain |-> pr[p].below = <<>> /\ ~pr[p].unhooked]

Merge(p, title) ==
    /\ pr[p].open /\ pr[p].passed = 2 /\ UpToDate(p) /\ Len(main) < MaxMain
    /\ main' = Append(main, Squash(p, title)) /\ pr' = [pr EXCEPT ![p] = None]
    /\ UNCHANGED <<tags, heads, now, slips>>

Next ==
    \/ Tick
    \/ \E p \in PRs :
         \/ \E kind \in Kinds, files \in BOOLEAN :
              Open(p, kind, files) \/ Push(p, kind, files) \/ Amend(p, kind, files)
         \/ Update(p) \/ Close(p) \/ TagReplay(p)
         \/ CoolingGate(p) \/ ReplayMarker(p) \/ ReadFails(p)
         \/ \E title \in Titles : Merge(p, title)

Spec == Init /\ [][Next]_vars

(***************************************************************************)
(* Properties                                                              *)
(***************************************************************************)
BranchCommits == [kind : Kinds, files : BOOLEAN, time : 0..MaxTime]
MainCommits == [kind : Kinds, files : BOOLEAN, time : 0..MaxTime, head : 0..MaxHeads,
                base : 0..MaxMain, read : BOOLEAN, gated : BOOLEAN, plain : BOOLEAN]

TypeOK ==
    /\ main \in Seq(MainCommits) /\ Len(main) \in 1..MaxMain
    /\ pr \in [PRs -> [open : BOOLEAN, base : 1..MaxMain,
                      below : Seq(BranchCommits), top : BranchCommits,
                      head : 0..MaxHeads, passed : 0..2, unread : BOOLEAN, unhooked : BOOLEAN]]
    /\ \A p \in PRs : pr[p].base <= Len(main) /\ Len(pr[p].below) <= MaxBelow
    /\ tags \subseteq 0..MaxHeads /\ heads \in 0..MaxHeads /\ now \in 0..MaxTime
    /\ slips \in 0..MaxSlips

(* ci.yml:11-12, test_policy_cooling_gate: a pull request whose head is a  *)
(* policy: commit and which git did not fail lands at least Window after   *)
(* every commit on main that has a policy: line, however many pull         *)
(* requests passed the gate at once, and whatever the gates missed before. *)
PoliciesAreApart ==
    \A j \in DOMAIN main : main[j].gated =>
        \A i \in Matches(main) : i < j => main[i].time + Window <= main[j].time

(* The tree such a pull request puts on main is the tree that was          *)
(* replayed: its own head, and no commit came between that head's base and *)
(* the merge.                                                              *)
ReplayedTreeLands ==
    \A j \in DOMAIN main : main[j].gated =>
        main[j].head \in tags /\ main[j].base = j - 1

(* Hook and gates together: a change of policy files that was committed    *)
(* once, past the hook and alone in its pull request, and whose gates git  *)
(* did not fail, lands replayed and Window after the last such change,     *)
(* without anybody having to remember the prefix.  Nothing is promised of  *)
(* what --no-verify let by (check_policy_prefix.py:7-9): stage 6 never     *)
(* looks at files.                                                         *)
PolicyFilesCool ==
    \A j \in DOMAIN main : main[j].plain /\ main[j].files /\ main[j].read =>
        /\ main[j].head \in tags
        /\ \A i \in 1..(j - 1) : main[i].plain /\ main[i].files =>
               main[i].time + Window <= main[j].time

(* Waiting is never in vain: a single policy commit that has cooled stays  *)
(* so when it is rebased, amended or just left, until another commit with  *)
(* a policy: line lands.                                                   *)
CoolingDoesNotRestart ==
    [][\A p \in PRs :
         LET ready == pr[p].open /\ pr[p].below = <<>> /\ pr[p].top.kind = "policy"
                      /\ Matches(main) \subseteq 1..pr[p].base /\ CoolingPasses(p)
             same  == pr'[p].open /\ pr'[p].below = <<>> /\ pr'[p].top.kind = "policy"
         IN  ready /\ same => CoolingPasses(p)']_vars
=============================================================================
