# Athena V1.0 in TLA+

A verification project for the Athena trading substrate: TLA+ models of the
parts of the repository that keep state, TLC runs that check them on small
instances, and TLAPS proofs of the properties that matter most, for instances
of every size. Paths below are relative to the repository root.

To check: `tlc -workers 2 -config MCLedger.cfg MCLedger` (and so on, see
"Runs"), and `tlapm M.tla` for `LedgerProofs`, `ChainProofs`, `VerifyProofs`,
`ShardProofs`, `SyncProofs`, `SegmentProofs`, `MountProofs` and `GateProofs`.

## Inventory: the system and its parts

Athena V1.0 is the substrate of a personal stock-trading system on two hosts.
A *Logger PC* records market data into DuckDB and exports it hourly as Parquet
shards; a *Trading PC* pulls the shards, reads them through DuckDB views, and
keeps a hash-chained ledger of what it decides before it trades. During market
hours the policy files are immutable.

| Component | Code | State it keeps | Operations | Module |
|---|---|---|---|---|
| Pre-trade ledger writer | `packages/athena-execution/.../ledger/{client,hash_chain,schema}.py`, `schema.sql` | table `pre_trade_ledger_raw`, its id sequence | construct (seed genesis), `append` | `Ledger`, `HashChain`, `AbstractLedger` |
| Ledger verifier | `scripts/verify_ledger.py` | none (reads the table, an archive) | `verify_chain`, verdict | `VerifyLedger` |
| Monthly segment archive | `scripts/monthly_ledger_chain.py`, `ledger/segment_hash.py`, `backup.py` | archive files, one per month and place | compute, publish | `SegmentChain` |
| F5 read-only mount | `packages/athena-alpha-defense/.../f5/`, `scripts/check_trading_day.py`, `scripts/emit_readonly_mount_metric.py`, `infra/systemd/athena-readonly-mount-*` | immutable flags, metric file, unit state | lock, unlock, emit | `ReadonlyMount` |
| Hourly shard export | `packages/athena-feature-store/.../parquet_shard.py`, `scripts/export_parquet_shard.py` | shard files, tmp files | export, check | `ShardExport`, `AbstractShards` |
| Shard sync and reader | `infra/systemd/athena-logger-sync.*`, `scripts/emit_logger_sync_metric.py`, `parquet_reader.py`, `feature_query.py` | mirrored tree, views, metric file | rsync, emit, attach and refresh views | `LoggerSync` |
| Policy gates | `scripts/check_{cooling,policy_prefix,paper_replay_marker}.py`, `ci.yml`, `infra/github/branch_protection.json` | none of their own: git history, tags, checks of a head | hook, stage 6, stage 7, merge | `PolicyGates` |
| Core library | `packages/athena-core` | none | validate, convert, look up secrets | not modelled |
| Schemas, override event DTO, provisioning scripts, alert rules, stub packages | see PROJECT.json | none | none | not modelled |

**How they interact.** `LedgerClient` and the verifier share the table and the
hash function; the verifier and the monthly archive share `compute_segment_hash`
and the archive file. The lock and unlock services share the flags and one
metric file; systemd connects their three processes by exit statuses. The
export and the Logger daemon share a database that one process at a time can
open; the export hands files to rsync, which hands them to the reader's views.
Nothing in the repository calls across these four groups.

**What is hard.** Statements of one ledger call that fail or are cut by a crash
after earlier ones have committed; a sequence that does not roll back; reading
the tip and the id in statements of their own. Two services with no lock
between them, each probing before it acts; exit statuses that mean different
things to systemd, to the emitter and to the script that set them. An export
interrupted between two files and then repeated. A copy made file by file of a
tree that grows and is evicted, under views that are attached meanwhile. Two
archive runs with one tmp name. Pull requests that are each checked on a history
that is no longer main's. PROJECT.json lists each hazard at its line with the
properties that answer it.

**What makes each correct.** The ledger: the chain is whole, rows are added
only at the end, an id returned is the caller's row. The verifier: OK exactly
if the chain is whole, and reports that point at the damage. The archive: whole
documents that can be computed again. The mount: status, metric and flags
agree, one file's failure does not spread, a killed lock is finished. The
export: shards are whole and frozen unless the power fails, success means
complete. The sync: what the
reader sees is what was exported, the gauge is true, the copy catches up. The
gates: policy changes land a cooling window apart, as they were replayed.

## Modules

| Module | Content | Checked by | Proved in |
|---|---|---|---|
| `HashChain` | digests and whole chains, shared by writer, verifier and archive | (with the others) | `ChainProofs` |
| `AbstractLedger` | the log promised to callers | `ledger` | `LedgerProofs` |
| `Ledger`, `MCLedger` | LedgerClient statement by statement | `ledger` | `LedgerProofs` |
| `VerifyLedger` | the verifier against damaged ledgers | `verify` | `VerifyProofs` |
| `SegmentChain`, `MCSegment` | the monthly archive system call by system call | `segment` | `SegmentProofs` |
| `ReadonlyMount` | lock and unlock units | `mount`, `mount_retry`, `mount_holiday` | `MountProofs` |
| `AbstractShards` | the shard tree promised to whoever copies it | `shard` | `ShardProofs` |
| `ShardExport` | the hourly export | `shard`, `shard_check`, `shard_cut` | `ShardProofs` |
| `LoggerSync`, `MCSync` | copy, metric and views on the Trading PC; the Logger's side is `AbstractShards` | `sync`, `sync_blind` | `SyncProofs` |
| `PolicyGates`, `MCGates` | hook, two CI gates, protected branch | `gates` | `GateProofs` |

`ShardExport` implements `AbstractShards` while the Logger PC has power, and
`LoggerSync` takes the Logger's tree from it (`Logger!Init`, `Logger!Write`): what
is shown of the copy holds beside any export, however that is run and killed. `Ledger` and `VerifyLedger` meet
in `WholeChain`, `VerifyLedger` and `SegmentChain` in `SegmentHash`. The gates
touch none of the others at run time.

## Models

### HashChain

`compute_entry_hash` joins its parts with NUL bytes that no part contains and
applies SHA-256. The model's hash is the tuple of the parts: an injective
function, which is what a collision-free digest gives. `None` and `""` digest
alike (`prev_hash or ""`), which `OrEmpty` keeps. `WholeChain` says what a
correct chain is without any walk; it is the meeting point of writer and
verifier.

### Ledger (LedgerClient)

One action per SQL statement: `SELECT ... WHERE id = 1`, the genesis `INSERT`,
the tip `SELECT`, the `INSERT`, the `currval`. Each can raise. `rows` is the
table, `seq` the sequence. DuckDB is external: a statement commits or fails
whole, a failed INSERT may have advanced the sequence, and after a restart the
sequence stands anywhere from the highest stored id to the last value handed
out. Any number of tasks calls; a task that has entered `__init__` or `append`
keeps the event loop until it leaves, as both are synchronous
(`client.py:11-17`). That one guard is `LoopIsFree`, and dropping it (an append
that awaits) breaks `AckedIsMine` and the refinement. `RowsInCallOrder` and
`AppendFindsGenesis` follow from `IInv` and are kept as theorems without a run.

The observer variables `callNo`, `calls`, `acked` and the field `by` of a row
record which call did what; no guard reads them except the bound on calls.

`AbstractLedger` is what a caller may rely on: a log that grows at its end, at
most one record per call, returned ids that are the caller's. It does not
promise exactly-once: a call that raises may have stored its record.
`ImplementsLog` is the refinement, with the mapping
`log <- [i \in Ids |-> [entry |-> rows[i].body, by |-> rows[i].by]]`.

### VerifyLedger (verify_ledger.py)

A ledger is built by the writer's rule (ids may skip), the first month may be
archived, then columns are edited and rows deleted by something other than the
client, then the verifier fetches, walks row by row with `lastThis`, and
reports. With `--prev-segment-json` it also prints the segment hash of the month
over the given one; the verdict does not depend on that. Every exception inside
the `with` block gives `VERIFY_FAILED`. The
script opens the database read-write, so no writer runs beside it.

### SegmentChain (monthly_ledger_chain.py)

A run opens the database, selects the month's ids and closes it in one step
(`Compute`: DuckDB's lock is held throughout), then writes its document to one
or two places by `_atomic_write_readonly`: open the tmp file, write and fsync,
rename, sync the directory, each an action. Between any two the run can fail,
be killed, or the power go. A power cut may undo a rename whose directory was
not synced; it does not damage a file that was synced before it was renamed.

The tmp name is the same for every run of a month, so the model follows file
descriptors: a run writes through its own into a file that another has renamed
(`fd = "target"`), replaced or removed (`"gone"`) since. Writing over a longer
document may leave its tail (`Torn`). An id is a row's position, time is the
month of the clock; rows are stamped with it, the clock may be set back and a
new build put in place at any moment. `ArchiveIsWhole` assumes that no two runs
of a month overlapped; without that it is false of the code. `ExitZeroPublishes`
asks that of the run itself only, whatever overlapped before it. A run computed
before the month is over publishes an incomplete document, which the script does
not refuse; `closed` marks the months that were over.

### ReadonlyMount (F5)

Each service run is `ExecStartPre`, `ExecStart`, `ExecStopPost`; every lsattr
and chattr is a step, so the other service's steps fall between a probe and the
act that trusts it. The first `status()` of `_transition` only reports what it
saw and is one step; the second and the emitter's go path by path. systemd is
external: an exit status in `SuccessExitStatus` counts as success of any
process of the unit, otherwise `Restart=on-failure` starts the unit again. An
uncaught Python exception is exit status 1. A failing chattr may have had its
effect. A kill makes `$EXIT_STATUS` a signal name, which the emitter reads as
unknown. A stamp the emitter cannot read, or that is missing or damaged, is taken
for 0 and written back as 0 (`ReadStamps`, `LoseMetric`). A host crash keeps flags,
and the metric file too unless `LoseMetric` says otherwise. `systemctl stop` is not
modelled. The clock stops at its bound instead of blocking, so that runs can be
started forever.

`overlap` records whether the last run was started beside the other service.
The schedules are hours apart and the code has no lock between the services;
the safety properties assume no overlap, and the model explores overlapping
runs all the same, since what they leave behind is what later runs start from.

### ShardExport

One hour of all tables, in the order of `--tables` and of the query
(`ORDER BY symbol`). The content of a shard is its number of rows, as rows only
grow. An export or check takes the database lock, visits table after table and
symbol after symbol, and may end at any point by SIGTERM (handlers run), SIGKILL
(none run), a failing write, a refused symbol, or a power cut. The code syncs
neither a file nor its directory, so until the kernel has written a file back
(`unsynced`, `Flush`) a power cut may leave it cut short under its final name, or
undo its rename; a check then fails to read it (exit 4), an export stops at it
(exit 1). Rows can arrive between runs,
also after the hour was exported. Several processes never run at once, by
DuckDB's lock; the loser exits 3.

`AbstractShards` is the promise to a reader: a name without a file gets a whole
shard, once, and nothing else ever happens. `ImplementsTree` is the refinement,
with a shard's content as its number of rows, and with one exception: a power cut
may take files that were not on the disk. `PoweredTreeIsWriteOnce` is the refinement
without the exception, for a Logger PC whose power stays on; `OnlyPowerCutsTear` and
`ShardsFrozen` state as theorems that no shard is otherwise torn or changed.

### LoggerSync (athena-logger-sync, FeatureStore)

One run of the unit is `TimerFires` (rsync lists the source and compares), a
`Copy`, `Vanished` (exit 24) or `CopyFails` (23) per file, the deletions of
`--delete-after` up to `--max-delete` (exit 25), and the emitter: parse the
exit status, read the old metric and write the tmp file, rename. A connection
that breaks, `--timeout` and SIGTERM after `TimeoutStartSec` end rsync with 12,
30 and 20; the service's comment expects 124 for the last, which rsync does not
give. A kill leaves a signal's name as the status. rsync and systemd are
external, and modelled from the options and comments of the unit file;
`--partial-dir` keeps what has arrived of a file outside the tree, and the mutant
that leaves it inside breaks `MirrorIsWhole`.

`AppearsEmpty` is the case the unit file names for `--max-delete`: the listing is
empty though the Logger is not. Such a run deletes up to the cap and exits 25, or 0
if the whole copy was no larger than that: it is then wiped and nothing tells.
`WipeIsCapped` is what the cap is good for; `wipe` observes those runs and what the
copy has lost.

The metric file may be lost or damaged (`LoseMetric`). Most damage reads as 0, or
as fewer digits. A line that is cut off after its name raises an IndexError which
`_read_prev_last_success` does not catch: `ReadCrashes` ends this emitter and every
later one until somebody removes the file, so `CatchesUp` and `OrphansAreSwept`
except a metric that was cut. (`inf` on the line would do the same by an
OverflowError; the sibling emitter of the mount guards against the cut line.)

`source` grows by `AbstractShards`' `Write`, retention evicts (`evicted`), and
an evicted shard does not come back. The reader attaches its views table by
table at any moment, in the constructor or in `refresh_views`. Probe and
`CREATE VIEW` are steps of their own, and so are the three statements of
`_create_empty_view`: between `DROP TABLE` and `CREATE TABLE` a view that an earlier
attach left has no table under it (`broken`). DuckDB's error on a glob without files
leads to the empty view, any other error ends the attach. `ViewsFollowTheTree` says
what an attach is based on; that an empty view is true of the tree until rsync
touches it again, as the docstring has it, is false (`sync_blind`): a first shard
that arrives between the probe and the empty view stays hidden until
`refresh_views`. Observers: `moved` (the source changed since it was listed, or the
run did not see it), `good` and `lost` (the last published success, the metric file
was lost since), `touched` of the store (rsync changed the table after its view was
made), `bare` (the table being attached had no shard at some moment of this attach)
and `failed` (the last attach did).

### PolicyGates

A pull request has a base on main, commits below its head, a head that gets a new
number with every push, amend and rebase, and the number of stages that passed
for that head. The hook looks at what a commit stages; stage 6 looks for the
newest commit below HEAD with a `policy:` line in any line of its message;
stage 7 needs stage 6 and the tag of that head. A merge needs both and an
up-to-date base (`"strict": true`) and squashes: under the commit's own message,
or under the title with the list of subjects. Only what the gates read of a
message is kept (`Kinds`): a `policy:` subject, a `policy:` line further down, or
neither. A gate that exits 1 can be run again, with its inputs as they are then.

Both gates fail open: a git command that fails gives an empty subject or no
earlier commit, and exit 0 (`check_cooling.py:43-44`, `61-62`,
`check_paper_replay_marker.py:35-36`). `ReadFails` is such a pass, and the three
properties of what lands are about pull requests whose gates could read (`read`,
`gated`), on a main that may hold others. The hook can be missing or bypassed
(`--no-verify`, which `check_policy_prefix.py:7-9` leaves to stage 6; but stages 6
and 7 look at subjects and never at files): a commit it would have refused is made
all the same, and the branch is `unhooked`. `MaxSlips` bounds both.

What the gates do not promise, and the properties therefore exclude: a pull
request of several commits whose last one is not a `policy:` commit passes both
gates (`gated`); an amend stages nothing anew, so it can drop the prefix, and
counts as going round the hook (`plain`).

## Runs

| Run | Bounds | Question | Result |
|---|---|---|---|
| `ledger` | 2 tasks, 2 entries, 4 ids, 3 calls | chain, ids, append-only, refinement, loop released | holds, 50,019 states |
| `verify` | 3 rows, 2 bodies, 2 edits | exact verdict, local reports, what the archive adds | holds, 101,799 states |
| `segment` | 2 runs, 2 starts, 2 builds, 2 months, 2 rows, 1 fault | archives whole, published, reproducible; tmp files | holds, 774,162 states |
| `mount` | 2 files, 1 fault, 2 seconds | status, metric and flags agree; a lock completes | holds, 963,214 states |
| `mount_retry` | 2 files, 1 fault | retry on partial failure | violated |
| `mount_holiday` | 2 files, 1 fault | holidays are skipped | violated |
| `shard` | 2 tables, 3 symbols (one refused), 3 rows, 2 kills, 1 power cut | success complete, tmp files, refinement of the tree | holds, 853,478 states |
| `shard_check` | 1 table, 2 symbols, 2 rows | `--check-only` writes nothing | violated |
| `shard_cut` | 1 table, 1 symbol, 1 row, 1 power cut | no torn shard under a final name | violated |
| `sync` | 2 tables, a shard each, 1 deletion per run, 2 ticks, 1 fault | copy whole, losses capped, gauge true, views follow, copy catches up | holds, 1,739,608 states |
| `sync_blind` | 1 table, 1 shard, 1 fault | an empty view is true until rsync touches the table | violated |
| `gates` | 2 pull requests, window 2, 3 heads, 1 commit below a head, 4 commits on main, 1 slip | policies apart, replayed, cooled | holds, 2,781,247 states |

Why the bounds are enough to be interesting. *Ledger*: with four ids and three
calls one append can fail and burn an id, a second die between INSERT and
currval, and a third chain across both, next to a second task; with 2 entries
every row can differ. *Verifier*: three rows have a first, a middle and a last
one, two edits can hide each other, and the hash alphabet holds every hash of the
table and one that is none. *Segment*: two runs can overlap in one place at every
pair of system calls, two months give a previous hash, two rows fall into the
same or different months. *Mount*: two is the code's number of protected files;
one fault meets any point of two interleaved services, and the theorems cover any
number. *Shards*: three symbols put a refused one between two good ones, two
kills and three rows make a partial export, a partial repetition and a late row,
and a power cut meets any number of files not yet on the disk.
*Sync*: two tables let one be attached while the other changes, both shards evicted
at once need two runs of one deletion each, a Logger that appears empty
loses one of two shards, two ticks tell an old success from a
new one. *Gates*: a policy commit, one that races it, and a third head for a
rebase or an amend of either; the window is the whole clock, so that passing it
needs every tick, and one slip makes one of the two the pull
request that the other's promise must survive. Every safety property of a passing run is also proved for
instances of any size.

`MCVerify.cfg` and `MCGates.cfg` switch deadlock checking off: the verifier ends,
and with the bounds on heads and commits used up no pull request may be left to
act on. The other systems never stop, and their runs check it. Symmetry is used
where no liveness is checked: runs and builds of `segment`, pull requests of
`gates`.

### Fairness

`Ledger`: weak fairness of `Step(c)`: Python executes the statement a task has
reached (a statement that fails raises, which is a step). Nothing obliges a
task to call, the process to crash, or anyone to restart it. Where the bound on
ids blocks an INSERT, raising is still possible, so no behaviour is cut.
`ReadonlyMount`: weak fairness of each service's `Step`: systemd runs a started
unit to its end and restarts a failed one. Starts, kills and failures are not
fair. `LockCompletes` excuses only a further fault or an unlock beside it.
`LoggerSync`: weak fairness of the unit's steps that are no fault: the timer
starts the unit again a minute after its last start, or when that run is over,
whatever its result (`OnUnitActiveSec`), and systemd and rsync finish what they began. Faults,
ticks, exports, evictions and attaches are not fair; `CatchesUp` is about what
follows once those that are bounded are over.

### Disagreements found

1. `athena-readonly-mount-lock.service:33-35` promises a retry after a partial
   failure; that exit status is listed as a success, so systemd never retries
   (`mount_retry`).
2. The same line lets `ExecStartPre`'s exit 1 pass on holidays, and the flags
   are set on a day the unit says it skips (`mount_holiday`).
3. `--check-only` is documented to write nothing and writes every shard that is
   missing (`shard_check`).
4. `parquet_shard.py:234-241` writes to a tmp file and renames it so that a power
   cut leaves no truncated shard; nothing is synced, so one may (`shard_cut`).
5. `parquet_reader.py:40-43` says that files rsync adds or deletes between probe and
   view are handled; the deleted ones are, the added ones stay behind an empty view
   (`sync_blind`).

Two more without a run of their own. `athena-logger-sync.service:39-40` wants a
metric after every run; when rsync was ended by a signal the emitter cannot parse
`$EXIT_STATUS` and writes none, so the gauge keeps the exit code of the run before
(`ExitsArePublished` says what holds). And `_read_prev_last_success` does not
survive a metric line that is cut off, see `LoggerSync` above.

## Proofs

Eight modules: one for each component, with an invariant of its own, and one for
the hash chain; TLAPS checks every leaf.

**The ledger.** The assumptions are `BoundsAssumption` and `CallersAssumption`:
the bounds are natural numbers, any however large, and no task is `NoCaller`.
`ChainWhole` alone is not inductive: an INSERT extends the chain only if the
local `prevHash` is still the hash of the tip, and currval is the right id only
if nothing was inserted since. `IInv` adds what the synchronous loop gives: only
the running task is inside a method; while it stands before its INSERT its
`prevHash` is the tip's hash; while it stands before its currval the tip is its
row and `seq` its id; `seq` is not below any id; calls are numbered in the order
in which they start; a client exists only where genesis does. One lemma per
action shows that it preserves `IInv`, `NextIInv` combines them, and `Invariance`
is `Spec => []IInv`. From it follow, as theorems of `Spec`, `TypeOK`,
`ChainWhole`, `AckedIsMine`, `RowsInCallOrder`, `AppendFindsGenesis`, the action
properties `AppendOnly` and `BurnedGenesisStaysOut`, and the refinement
`LedgerImplementsLog`, in which every step maps to a `Seed`, `Add`, `Ack` or a
stutter. `LedgerVerifies` joins the two components: the table satisfies
`WholeChain`, and by `VerdictExact` that is when the verifier says OK.
`EveryCallEnds` is the part of `LoopIsReleased` that needs no fairness: the loop
is held by the caller that has statements left and by nobody else, each of its
steps leaves fewer, and the next call finds the loop free.

**The hash chain.** `ChainProofs` is about `WholeChain` and `EntryHash` alone,
with nothing assumed but that ids are numbers. A digest determines its parts
(`DigestInjective`, `SegmentInjective`), a row of a whole chain has one
predecessor and all but the last one a next row (`OnePredecessor`, `NextRow`).
`TipCommits`: two whole chains with the same ids and the same last hash agree in
every hashed column. It looks at the highest id in which they differ: the row
after it has the same `prev_hash` in both, which is the hash of the differing
row, or else it is the tip, whose hash is the same by assumption. This needs the
well-foundedness of the numbers (`LeastExists`), and no induction over hashes.
`OneColumnBreaks` and `InnerDeletionBreaks` say that a whole chain with one
column changed, or a row below the tip removed, is not whole; the first because
no two rows of a whole chain have the same hash (`HashesDiffer`, by the lowest id
at which a hash occurs again).

**The verifier.** `VerdictExact` is `Spec => []VerdictIsExact` for any number of
rows and edits. The invariant says of the walk: the visited rows are the ones
below every row of `todo`; `lastThis` is the recomputed hash of the last of
them; and `reports` is empty iff the visited rows are a whole chain.
`ReportsLocal` adds that a row nobody touched hashes correctly (`HashLocal`) and
carries its predecessor's hash unless that one was touched (`LinkLocal`); edits
and deletions keep this, and so the walk finds nothing at such a row.
`CInv` keeps what the table was: a whole chain while nobody changed it
(`Untouched`), and after the first change broken, unless that deleted the last
row; and then the archived month has lost an id, if the open month has not
(`EditedOnce`, by the two lemmas on broken chains). `SingleEditSeen`,
`ArchiveCovers` and `NoFalseAlarm` follow. `TipPinsTheLedger` goes beyond single
changes: whoever noted the ids and the last hash of a ledger, and later sees the
verifier pass a table with them, has the table he noted, however often it was
changed in between. Without such a note a passing verdict says nothing of rows deleted at
the end.

**The export.** From `ShardAssumption` alone: any number of tables, symbols,
rows, kills and power cuts. `SuccessMeansComplete` speaks of the end of a run only, so
`IInv` says how far a run is: the tables it is done with have every shard equal
to its rows, and of the current table so do the symbols it is done with
(`Progress`); a file never holds more than the rows there are, unless a power cut
tore it, and then it has rows to hold (`FilesOfRows`, which makes a symbol the query
does not find owe nothing); and while a shard is being written none is there (`Fresh`, which makes
shards frozen). Every property the `shard` run checks is a theorem of `Spec`,
the refinement `ShardsImplementTree` included.

**The sync.** From `SyncAssumption`. `Copies`: a file of the copy is the one the
source has, which no later export changes since `AbstractShards` never writes a
name twice. `Progress`: while the source has not moved since the listing, what
is neither still to copy nor flagged is there, an exit status 0 means that no
flag was raised and nothing extra was left, and so the copy is the list.
`Emitter`: the time in the tmp file is the run's own or the last success, even if
the metric was lost in between. `Views`: what the attach has done so far rests on
what it saw. `SyncTypes`, `CopyWhole`, `GaugeKept`, `CleanIsSynced`, `ViewsTrue` and
`AttachGoesOn` follow, and so does `ExitsArePublished`: a run that no signal ended
and whose emitter lived has its own exit status on the gauge.

`WipeIsCapped` is about lists that age or are empty: `ListInv` says that the list of
a run that saw the Logger still has every shard of the copy that was not evicted,
and `CapInv` counts, so that only a run that saw it empty can lose one, and no more
than it may delete (`WipesAreCapped`). `CopyNears` is the stronger statement about a
single step of the other runs, and `SourceIsTheTree` is the step of composition: the
Logger's side of `LoggerSync` behaves as `AbstractShards` does, which is what
`PoweredTreeIsWriteOnce` proves of the export. `EveryRunEnds` is the part of
`CatchesUp` without fairness: a run's steps still ahead (files to copy, deletions up
to `MaxDelete`, the emitter's three) are lowered by each of its steps and raised by
the start of a run alone.

**The archive.** From `SegmentAssumption`. Every document, published or in a tmp
file or in a process, is what the ledger gives for its month, if that was over
and the clock not set back (`Documents`); a run that nobody disturbs is alone
with its files and finds in them what it put there (`Undisturbed`); descriptors
are open only while writing (`FdInv`). A step of one process changes its own
file only, to something that the file, its tmp sibling or the process had
(`OwnFile`, `Neighbours`), which gives the steps of all processes one argument.

**The mount.** From `MountAssumption`. While no run was started beside another,
at most one service is active (`Solo`) and it knows the flags (`Knows`): what it
put on its list, what it has seen so far, the state it found, the timestamps it
read. Timestamps are never ahead of the clock (`Stamps`), and what an emitter has
read is what the file has, but for what it could not read and for what was lost
since. With overlapping runs
the invariant says nothing but types, as the properties do. `EveryServiceRunEnds`
holds for those too: `Ahead` counts the steps a service has before it is idle, a
restart included; every step of the service lowers it, whatever commands fail,
and only a kill or a start raises it. That is the part of `LockCompletes` without
fairness, and the reason why `PartialLockIsRetried` fails.

**The gates.** From `GatesAssumption`. `HasCooled` carries what stage 6 found to
the merge: it is about a fixed part of main, and the clock only goes on; at the
merge that part is all of main. `Checked` does the same for the tag, `Labelled`
for the hook, each of pull requests that were read or not bypassed only; what slipped
by lands beside them and counts in `Matches`. Commit times grow along main and along each branch (`MainInOrder`,
`BranchInOrder`), which makes the newest policy commit, the only one the gate
looks at, stand for all.

**Model-checked only.** The liveness properties `LoopIsReleased`,
`LockCompletes`, `CatchesUp` and `OrphansAreSwept`: fairness and ENABLED are beyond
the prover. For the first three the decreasing measure is proved (`EveryCallEnds`,
`EveryServiceRunEnds`, `EveryRunEnds`); that a step is always enabled and
eventually taken is checked by the runs. No theorem rests on induction over data:
chains and histories are stated by quantifiers, and where a first or a last row is
needed it is picked by well-foundedness of the natural numbers.

## Not modelled

Several connections or processes appending to one ledger (`client.py:16` puts
them out of scope; DuckDB's file lock refuses the second process). Timestamps,
module versions and parameter hashes of ledger rows, which no hash covers.
The CLI's `status` and `--dry-run`, JSON output and logging. Two emitters of one
metric at once, other than through overlapping mount runs. Power cuts of the
Trading PC's copy, which nothing there syncs (those of the metric files are
`LoseMetric`), and torn shards of the Logger in `LoggerSync`: its source is the
tree of a Logger PC whose power stays on. The retry of a rename on
Windows' PermissionError, and the empty `$EXIT_STATUS`. Queries of the feature
store, which change nothing, and its `insert_*` stubs, which raise. CI stages 1
to 5, taken to pass; the CI run on main after a merge, which blocks nothing.
The core library, schemas and the override event are declarations and conversions
without interaction; provisioning scripts are one-shot I/O; alert rules are
thresholds over the metrics; the orchestrator and ops-defense packages are empty
at this commit. PROJECT.json gives the reason for each.
