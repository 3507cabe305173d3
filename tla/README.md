# TLA+ models of RepoMap's control plane

RepoMap extracts a graph from source repositories and keeps it in PostgreSQL,
or, in SQLite Local mode, in one file per graph. This directory models what
runs concurrently or may be cut short: how a refresh is asked for, claimed,
executed by worker processes, published, disposed of and recovered; how the
local database file is published, backed up, restored, upgraded and cleaned
up; and how an operator's maintenance commands, upgrades and restores keep
clear of that work and survive their own failures. TLC checks the models on
small instances; TLAPS proves the safety properties of all but two of them for
all values of the constants.

Paths are relative to `src/src/main/python/repomap_kg/`; "the contract" is
`docs/specs/durable-job-and-coordinator-contract.md`, "the restore contract"
`docs/specs/postgresql-extension-restore-contract-v1.md`.

## The system and its modules

| Part of the system | Modules | What makes it hard |
|---|---|---|
| control store: tables and transactions of `coordinator/_control_*.py`, `_restart_fencing.py`, `_supervisor_registration.py` | `ControlStore` | transactions of a coordinator that lost its singleton, leases that expire under a running job |
| publication of a graph: `coordinator/_publication_phase.py`, `storage/staged_*.py`, `storage/*publication_fencing*.py` | `GraphPublication` | workers and commits outlive the coordinator that started them |
| coordinator core, disposition, startup recovery: `core.py`, `_core_disposition.py`, `startup_recovery.py` | `Coordinator`, on the two above | cancellation, crash and takeover between any two steps |
| polling scheduler: `polling.py` | `Polling` | graphs that leave and return during a poll, starvation, stop at any time |
| desired state: `desired_state.py`, `_control_coalescing.py`, `_control_polling.py` | `DesiredState` | values read at different times and acted on later |
| session protocol and process supervision: `_protocol_*.py`, `process_supervision.py` | `Supervision` | a cancel, a deadline or a signal that crosses the last message |
| refresh worker and its adapter: `refresh_worker.py`, `refresh_adapter.py` | `RefreshWorker`, extends `Supervision`; `Workers` has both kinds | the gate and the commit under a kill |
| portable worker: `portable_worker.py`, `_portable_worker_launch.py`, `ops/portable_refresh.py` | `PortableWorker`, extends `Supervision` | three threads, a helper in the same process group |
| SQLite Local refresh: `ops/local_refresh.py`, `ops/_portable_retention.py`, `storage/sqlite_local/publisher.py` | `LocalRefresh` | records and database change in two files; power loss |
| SQLite Local database file: `connection.py`, `restore.py`, `upgrade.py`, `orphans.py`, `ops/local_cleanup.py` | `LocalFiles` | crashes between file system calls |
| SQLite Local backup: `backup.py` | `LocalBackup` | several attempts at one output |
| maintenance lock and its commands: `runtime/maintenance.py`, `backup.py`, `backup_commands.py` | `Maintenance` | work that runs beside dumps, upgrades and drops |
| schema upgrade: `runtime/schema_upgrade.py`, `_schema_upgrade_ledger.py`, `repository_identity_migration.py`, `schema_decommission.py` | `SchemaUpgrade` | one of many container calls fails, or the command is killed and what it was doing goes on |
| restore with extensions: `runtime/_extension_restore_*.py` | `ExtensionRestore` | commands of unknown outcome, compensation that fails |
| one container command and its settlement: `_extension_restore_exec.py`, `_extension_restore_exec_control.py` | `ContainerExec` | a command that starts after its client was killed |

The theorems are in `ControlStoreProofs`, `GraphPublicationProofs`,
`CoordinatorSteps` and `CoordinatorProofs` (the second builds on the first),
`WorkerProofs` (`Supervision`, `RefreshWorker`, `PortableWorker`),
`LocalProofs` (`LocalRefresh`, `LocalFiles`, `LocalBackup`), `AdmissionProofs`
(`Maintenance`, `Polling`) and `UpkeepProofs` (`SchemaUpgrade`,
`ExtensionRestore`). The modules `MC...` give the constants
their values and compose modules for TLC. `PROJECT.json` lists every part of
the system with its status, the source lines behind every definition, and the
hazards of the code at their lines.

### ControlStore

A process is named by the fencing epoch with which it acquired the singleton;
a claim is a pair of a job and an attempt number. Rows are records with the
columns the transactions test. Clocks are reduced to two facts: whether the
singleton and whether a lease is unexpired ("live"); either may expire at any
time. Expiry of a retry delay and the order in which queued jobs are picked
are left open.

All statements of one transaction are one step, with one exception:
`require_live_owner` is an unlocked SELECT in a READ COMMITTED transaction, so
the writes after it may happen when another coordinator already has the
singleton. `stragglers` holds the expired epochs that have such a transaction
open. `acquire_singleton` locks its row and needs no straggler.

`xact` numbers the transactions that insert a lease, whose id is the lease's
fencing epoch. The state `deleted` marks a row that `cleanup_terminal` removed,
so that a job identity is not used twice.

### GraphPublication

`initial` and `decision` are the two gate files of an attempt (the latter
`none`, `torn`, `not_started` or `transaction_started`), `worker` the step of
the worker process or its last words, `backend` the server's side of its final
transaction, `run` the receipt, `authority` the fencing row of the graph and
`outcome` what the coordinator made of the attempt. Reading the initial file
and creating the decision file are two steps. COMMIT is three: it is sent, it
takes effect or is rolled back, the worker learns of it or does not. A killed
worker leaves its transaction to the server.

`Faults` enables two paths on which a worker says `not_started` although its
commit may have happened: `readback` (the second connection of
`reconcile_commit_unknown` cannot be opened) and `post_commit` (the bookkeeping
of the capture fails after the commit). They are real paths of the code and
the subject of the run `publication_misreport`; the other runs assume they do
not occur.

### Coordinator

`thread[c].at` is the next step of the thread that runs attempt `c`, named
after the transaction or file operation it performs; `recovery[e]` is the
recovery pass of the process of epoch `e`. Between two steps a process may
die, lose the singleton to a successor while it goes on, or be overtaken.
`Disturbances` selects what the environment does: `crash`, `singleton_expiry`
and `lease_expiry` (of a process that is alive), `control_error` (the control
database fails under a thread), `cancel` (a client) and `unproved` (a worker
that cannot be reaped). The locks of a process and the row locks that the
restart closure holds across its three steps are guards.

`StoreSpec` and `PublicationSpec` state that `Coordinator` implements the two
other modules. The first is plain inclusion of variables; the second maps
`claim` to the epochs in the attempt rows and `outcome` to the state of the
job's rows (`Outcome`). In this direction the refinement carries the weight:
`GraphPublication` demands evidence for each disposition, and the run checks
that the threads and recovery passes always have it.

### Polling and DesiredState

`Polling` is the scheduler thread (synchronise targets, collect, admit, wait),
the threads of its pool and the caller of `stop()`. Time is relative: `due[g]`
counts ticks, and of graphs that fell due in the past only the order is kept.
The configuration may change between any two iterations, be unreadable
(`Broken`) or malformed (`Malformed`), which ends the scheduler.

`DesiredState` is one graph: the source moves, a poll scans it, reads the
latest receipt and then records or coalesces a request; jobs run; publications
by hand come in between. Its fairness takes for granted what `Polling` and
`Coordinator` show: that a configured graph is polled again and that queued
jobs are run. It also assumes that the refresh of a source that rests
succeeds, since an automatic job that fails is not asked for again under the
same key.

### Supervision, RefreshWorker, PortableWorker

`Supervision` has the supervisor's loop, its reader thread, the two pipes and
the process group; the two worker modules add the worker's own steps. A poll
of the process and the write it permits are two steps. Deadlines are not
clocks: a running one may pass at any moment. A malformed line on standard
output is one kind of message (`stray`). SIGKILL ends every process of a
group. Left out: draining of standard error, blocking writes to the worker's
standard input, the probe of `_timeout_probe` (tests only), Windows job
objects.

### LocalRefresh, LocalFiles, LocalBackup

`LocalRefresh` is `ops refresh-graph`: lock, settle what an earlier process
left, capture, arm the record, commit, settle the record. A record is replaced
by a rename and made durable by a later sync of its directory: `rec` is what
processes see, `durable` the versions a power loss may leave. The database is
its accepted lineage, a sequence of attempts. `LocalFiles` has init, restore,
upgrade and cleanup down to the calls that create, sync, link and unlink
names; a publication is one step there and a backup an element of a set. Two
things to know of it. A database counts as reported when a command said
initialized, restored, upgraded or published: `already-current` syncs nothing,
so a name that a failed attempt linked may be called current and then be taken
back by a power loss, as `docs/ops/sqlite-local.md` (737-741) says. And the
comparison in `_apply` (`upgrade.py:142`) is a second guard behind the lock:
the proofs show that it never finds a difference, and its failing branch is in
the model but never taken.
`LocalBackup` is the writing of one backup by attempts of different graphs
that were given the same output directory.

### Maintenance, SchemaUpgrade

`Maintenance` has one advisory lock per database, held by the connection that
took it. Ordinary work (a coordinator's attempt, a direct refresh, a load, a
submission) takes it shared and never waits; dump, dump-all, upgrade and drop
take it exclusive on the control database and then on graphs in order.
`SchemaUpgrade` is what the upgrade command does inside its window, one step
per container call; a database is its ledger, its DDL and its repository rows.
A row is its location, its identity, its publication authority and the fences
of the runs published under it; a fence is the pair of singleton and lease
epoch, compared in that order. The rest of what a row owns moves with it and is
left out. A call that fails, or a command that is killed in one, may leave its
psql running in the container (`run_container_command` starts a client and
waits for it): `late` holds such transactions, and each may commit at any later
point, also under a later command, unless the database refuses it (the ledger
exists, the ordinal is taken, a row has another identity). A dump or a read
left behind changes nothing and is left out.

### ExtensionRestore, ContainerExec

`ExtensionRestore` has invocations that create, hold, stamp and fill their
targets in order, clear all stamps in one transaction, and on a failure drop
in reverse order what they can prove to be their own. A database is who
created it, its stamp and whether its content is whole; a container command
ends settled or not, and an unsettled one may take effect at any later time
(`pending`). Another user of the server creates and drops databases of its
own. The restore contract makes no promise against one that replaces a target
between its creation and the lock on it (line 253), so the model has none.

`ContainerExec` is the two shell scripts and their runner. The census of
`/proc` is not atomic: the listing and the look at each process are steps
between which the command forks, ends or is reaped. Left out: a child of the
child, which when forked after the listing would escape the census, the reuse
of process numbers (the scripts compare start times) and children without the
token that outlive their parent, which the restore contract excludes.

## Runs

Where several questions are about parts that share no state in the instance, one
run checks them side by side: an unchanging variable (`part`, `kind` or
`cast`) says which part a history is about, or in `local` which of the three has
moved, and the others rest. This is no
composition; `Coordinator`, `RefreshWorker` and `PortableWorker` are.

| Run | What it shows | Instance | Distinct states |
|---|---|---|---|
| `store_publication` | the store keeps its inductive invariant, replacements are retained, uncertainty needs evidence, a stale owner cannot advance a job, dispositions are final; what is disposed of as unpublished stays so, the fence is respected | a manual job with 2 attempts under 2 epochs, or two automatic jobs; two attempts on one graph, 2 epochs, 2 leases | 496,458 |
| `coordinator` | a job is published at most once, reports agree with receipts, both components are implemented | one job, 2 epochs; crashes, or expiries of a live coordinator, or crashes with errors, cancellation and unreaped workers; a second attempt where coordinators only crash | 377,286 |
| `progress` | a job is decided and its lease returned; a graph reaches the generation of its source and then rests; a maintenance command ends | one job with a retry under one coordinator; three generations; two operations and two commands | 31,513 |
| `local` | records are settled truly and decidably, commits are behind durable records, the database under its name is complete and kept, cleanup spares what it must, a backup is whole | 2 processes, 3 attempts, 2 temporary names, 2 generations, at most 2 backups; five mixes of faults for attempts at an output | 573,944 |
| `polling` | polls are bounded, every configured graph is polled again, a stopped scheduler ends | 3 graphs, one poll at a time, backoff of 1 and 2 ticks | 539,812 |
| `worker` | no end refuses a message, results are true, supervision ends; a settled container command is over and the postmaster is spared | one worker (quiet, noisy or portable) with 2 frames per pipe, or one command with a child | 468,676 |
| `upkeep` | coordinated backups are stable, nothing is changed or dropped without a backup, upgrades keep their ledger and the authority of merged rows, and converge; what a restore leaves is named, it touches only its own, its success is whole | five casts of work and commands, one kill or failure; four migrations, two locations, four fences, two failures or refreshes; two restores of two databases, the first with every fault | 1,005,144 |

Five runs are expected to fail. Each states a sentence of the documents that
the code does not keep:

| Run | The document says | What happens |
|---|---|---|
| `publication_misreport` | "A job is never retried while publication state is unknown." (contract, 1625) | a commit that may have happened is reported as not started |
| `coordinator_lease_left` | "No lease remains." (contract, 598, 599) | a crash between the terminal state and the release leaves the lease; recovery looks at nonterminal jobs only |
| `coordinator_commit_pending` | "a matching committed publication completes the job as `succeeded`" (contract, 682) | a runner that raised never marks its attempt terminated, so the marker found by recovery is not accepted |
| `desired_revert` | "Opaque generation comparison and reconciliation converge without event ordering assumptions." (contract, 1585) | a source that goes back to a generation whose polling job is finished meets the unique key of that job and is not refreshed while the row is kept |
| `maintenance_drop_gap` | "holds control and exact graph maintenance ownership continuously across backup-first drop snapshot, verification, and destruction" (`docs/specs/as-built-architecture.md`, 614) | a drop ends its own lock connection before DROP DATABASE, and a load without a home is admitted in between |

### Bounds

Two epochs give an owner and a successor; an attempt's safety depends on its
own epoch, the current one and whether another came between, and the fence
compares two epochs at a time. Two attempts give a retry beside an attempt
whose worker may still be alive. One graph suffices for the store because
every guard looks at one graph's lease, intent and authority row; the limits
on numbers of jobs are the only coupling, and they only refuse submissions.
Two automatic jobs are the running and the queued one of coalescing.
`ManualOrAutomatic` keeps the two kinds of jobs apart, with conflicting
evidence about a first attempt only, and `SecondAttemptAfterCrash` keeps the
second attempt to histories of crashes; the proofs about `ControlStore` and
`GraphPublication` cover what the former cuts off. Cancellation beside a
takeover of a coordinator that is alive is not explored in `coordinator`.

Three graphs and a pool of one let a graph starve behind two others. Three
generations let the source move twice during one poll. Two frames per pipe
hold a cancel beside a heartbeat or a terminal. Three attempts of
`LocalRefresh` leave a settled record, an armed one and a new one; its
theorems hold for any number. `FewBackups` bounds the backups an operator
keeps, and the attempts at an output to two where interrupts happen or where
both a call and the cleanup after it fail. `FaultSets` has the faults that
attempts at an output meet together: failing calls, failing unlinks, both,
crashes with power loss, and interrupts; `BackupStaysWhole` is about every set.
Four migrations give one before, one at and one after the identity and
the removal. The four fences are none and three that the two epochs order
differently; `OneRun` gives each row to begin with the run of its authority,
where the proofs allow any runs that are not ahead of it. Two restores are one that leaves something behind and one that
comes later or waits beside it; two targets are what compensation in reverse
order needs.

`MaxEpoch`, `MaxFrames`, `MaxGen`, `MaxFailures`, `MaxFaults` and `MaxMishaps`
are bounds of the models only. Symmetry is used in `local` alone, which checks no liveness.
Deadlock is checked in `polling`, `upkeep`, `desired_revert` and
`maintenance_drop_gap`; the others rest when jobs, attempts, epochs, tokens or
the one worker are used up.

### Fairness

- `Coordinator`: weak fairness of startup, of the recovery pass and the claim
  loop of a process that is up, of every claim thread, of every worker and of
  the server. The claim loop is a thread of the service that calls `run_once`
  again and again; a worker ends at the latest when its deadline passes and
  its supervisor kills it; a server ends every transaction, by rollback when
  the client is gone. "Decided" includes `reconciliation_required`: the
  contract leaves such a job to evidence that may come only with a restart or
  an operator.
- `DesiredState`: weak fairness of the poll and of every job, strong fairness
  of a successful scan, because a scan of a source that rests does not fail
  for ever.
- `Polling`: weak fairness of the scheduler thread and of every poll, which is
  bounded by its timeout; strong fairness of `Tick`, because time passes only
  while the thread waits, and every wait takes some.
- `RefreshWorker`, `PortableWorker`: weak fairness of the supervising thread,
  in which deadlines pass. Nothing is assumed of the worker.
- `Maintenance`: weak fairness of every operation and command under way.
- `SchemaUpgrade`: weak fairness of the command, which the operator runs again
  until it reports the current schema; failures are bounded by `MaxMishaps`.
  Nothing makes a transaction that was left behind commit.

Crashes, failures, clients' requests, edits and manual publications are never
owed.

## Proofs

| Theorem | States | Assumes |
|---|---|---|
| `TypeCorrect`, `StoreInvariant` | the control store keeps its types and `StoreInv` | |
| `ActiveJobsHoldTheirLease`, `GraphsHaveOneActiveJob`, `StatesAgreeWithPublication` | an active job has its graph's lease and a current attempt; a graph has one active job; the state of a job and its publication agree | |
| `DispositionsAreFinal`, `StaleOwnersStop`, `UncertaintyIsDecidedByEvidence` | a terminal job keeps its state until it is deleted; an owner whose epoch is over does not advance a job; an uncertain publication is decided by evidence alone | |
| `ReplacementsAreRetained` | the job a superseded one names as its replacement is retained as long as it is | |
| `PublicationTypes` | types of `GraphPublication` | |
| `UnpublishedForGood`, `FinalTransactionsExclude`, `FenceHolds` | an attempt disposed of as unpublished is never published; final transactions on a graph exclude each other; authority only moves forward and nobody publishes behind a later owner | `Faults = {}` |
| `DecisionsAreFinal` | a closed gate stays closed, and no transaction of the attempt starts, until its evidence is retired | `Faults = {}` |
| `CoordinatorTypes`, `CoordinatorsImplementStore` | processes, threads and passes keep their types; each of their steps is one transaction of `ControlStore` or none | |
| `CoordinatorsImplementPublication` | the coordinators implement `GraphPublication`: they close gates, dispose of attempts and retire evidence only with the proof it demands | `Faults = {}` |
| `JobsArePublishedOnce`, `ReportsAreTruthful` | a job is published at most once; what it is reported as is what happened to its graph | `Faults = {}` |
| `NoMessageIsRefused` | no session refuses a message of the other end, for either worker and pipes of any capacity | |
| `ResultStaysTrue` | what `run_refresh_worker` returns is true of the graph | `"late_signal" \notin Faults` |
| `PortableStaysTrue` | an acknowledged cancel decides the terminal; a candidate comes from a clean end | |
| `QuietWorkers`, `PortableWorkers` | the inductive invariants behind the two | |
| `LocalTypeCorrect`, `LocalSettlesTruly`, `LocalCommitsBehindDurableRecord` | records are settled by the lineage in place; the database moves only behind a durable armed record | |
| `LocalSettledIsTrue` | while no backup exists, every version of a settled record that can come back is true | |
| `DecidableUntilRearmed` | every armed record can be decided until a power loss arms a settled one again or a backup could be put back | |
| `LocalArmedIsDecidable` | every armed record can be decided | `NothingComesBack` |
| `FinalStaysComplete`, `DatabaseStays`, `CleanupsSpare` | a local database's name shows complete and durable bytes only; a reported one keeps its publications and is upgraded behind a backup; cleanups spare live temporaries and only copies | |
| `BackupStaysWhole` | a reported backup stays; a manifest stands beside its own finished database, or an attempt that gave up could not remove it | |
| `WindowInvariant`, `BackupSetsAreStable` | the windows of commands overlap no work and no other window on their databases; a backup set shows no attempt half way | |
| `ChangesAreBacked` | what is changed or dropped is in the command's backup | `GapIsQuiet` |
| `PollsStayBounded` | one poll of a graph, and no more polls than the pool has threads | |
| `UpgradeInvariant`, `LedgerStaysTrue`, `ChangesStayGuarded`, `AuthorityStaysAhead` | the ledger names the DDL in place; changes are behind a backup and a removal behind settled rows; no run is ahead of the authority of its repository, whatever was merged | |
| `RestoreAccounts`, `LeftoversStayNamed`, `RestoresTouchTheirOwn`, `SuccessStaysWhole` | what a restore leaves is named by its ledger, it touches only its own, its success is whole | |

The assumptions on constants are named in the modules: limits are numbers, a
null value is none of the values, a request has its type, the identity
migration comes before the removal, targets of a restore are named once; for
`Coordinator`, jobs are finitely many (a lease takes the next free number) and
workers may only have the faults of `GraphPublication`. The four assumptions of
the table are about the environment, and each is needed:

- `Faults = {}`: `UnpublishedForGood` is false with a fault, as
  `publication_misreport` shows.
- `NothingComesBack`: a record that was settled but not synced returns armed
  after later publications.
- `GapIsQuiet`: in no cast is there, beside a drop, work that the lock does not
  hold back in the gap between the end of the sessions and DROP DATABASE: a
  load of the dropped graph, or for control anything but a load.
  `maintenance_drop_gap` is such a cast; the casts of `upkeep` are quiet.
- `"late_signal" \notin Faults`: a SIGTERM between the commit and the restored
  signal handlers is reported as `rolled_back` (see below). No instance has it.
  The other theorems about workers hold with it.

Two properties state their own limits. `BackupIsWhole` speaks of power loss
while the output directory was made once. It has a manifest beside the finished
database of its attempt, with one exception: an attempt that has given up may
leave a manifest without its database where it was interrupted between a link
and its record, or where its calls fail and an unlink fails or the power is lost
as well ("Cleanup errors are suppressed, so leftovers can remain.",
`docs/ops/sqlite-local.md`, 352). TLC finds a history for each exception.
`DecidableUntilReturn` ends where `NothingComesBack` would be violated.

*Control store.* `StoreInv` is the conjunction that is inductive: types, an
active job holds its graph's lease, its current attempt is its latest, a lease
names its job, the state agrees with the publication. `JobMove` says what a transaction without inserts and
deletes of leases does to one job; most actions are shown to consist of such
moves, and one lemma shows that moves keep the invariant. Claim, release,
retry, reconciliation and cleanup have a lemma each. For the history of a job,
`JobChange` lists what any transaction may do to one job and under whose epoch,
`EveryChange` shows the list complete, and the three theorems follow from it.
`ReplacementIsRetained` rests on `IntentsNameTheirGraph`: a job becomes a
replacement only through the row of its graph, so a step that leaves links
alone (`Unlinked`) can disturb it only by deleting, which cleanup does not do
to a job that is still referred to.

*Publication.* For each attempt: the gate is passed before anything is at
stake (`GateComesFirst`), the worker's step and its transaction agree
(`ProgressAgrees`), an unpublished attempt has nothing under way and its worker
is over or behind the fence (`ShutOut`), and the owner of an open final
transaction is not stale (`LockedIsFresh`). `ShutOut` alone is not inductive:
that a worker in front of the gate cannot pass it needs `StaleForGood`, that
staleness is never lost, and `LockedIsFresh`.

*Coordinators.* The theorems are about the jobs of one graph, any number of
them, with any number of attempts and processes and every disturbance. The
proof goes in four parts, the first two in `CoordinatorSteps`. Rows: each
transaction leaves what
`GraphPublication` sees of the rows alone, issues one claim or decides one
attempt (`StoreQuiet`, `StoreIssues`, `StoreDecides`), given `RowsInv`, that the
attempts of a job before its latest are given up and each row fits its job's
state. Steps: the same for each step of a thread, a pass or a
process with the file operations in it (`EffectOn`), and `BaseInv`, `StoreInv`
and `RowsInv` with what a thread's place says of what it saw; this gives the
refinement of `ControlStore`. Evidence, in `CoordinatorProofs`: what a thread or a pass has
learnt before it closes an attempt. A thread about to dispose of a failure knows
that its worker is over and the gate closed or never reached (`Over`,
`GateShut`), one about to record a success knows the receipt, a pass that has
installed its fence knows the attempt overtaken and, with the closed gate on
file, not started (`RecoveryEvidence`). None of this is inductive by itself: it
was read several steps ago and others have moved since. The last part
therefore takes `PubInv` of `GraphPublication` into the invariant, through an
instance of its proofs over the same tables, and shows that every step is a step
of the protocol (`StepPublishes`), that no such step takes evidence away
(`EvidenceStays`, `Lasts`) and hence that the evidence is there when it is used.
The two invariants follow: an attempt that was given up is unpublished, so a
receipt can only be of the latest attempt.

*Local refresh.* `LocalInv` says that only the holder of the lock works
(`HolderWorks`), what each phase implies for the record in hand and the
generation (`PhaseInv`), that durable versions are never ahead of a record
(`RecordInv`), and that an attempt stands in a lineage only at the place it
expected (`PlaceInv`). `TrueInv` and `DecidableInv` are added for the last two
theorems; the second ranges over the records that are armed or could become so
after a power loss.

*Local files and backup.* `FilesInv` says what a place in a command implies for
the file in hand, its bytes and the names (`FilePhase`): only what is synced is
linked, an upgrade still has in memory what its backup holds, a cleanup's
inventory lists only what may go. The names alone (`NamesInv`) are not
inductive, since the link publishes what earlier calls left. Each step is shown
to keep the invariant and the action properties together (`FilesStep`).
`BackupInv` does the same for attempts at one output; what makes it go through
is `Respects`, that an attempt only ever removes names that are its own, and
`DirectoryInv`, that a directory made once is durable for everyone who works in
it. `LeftoverInv` is added for manifests without a database: who gave up
(`GaveUp`), and which fault let a name stay.

*Workers.* `ChannelInv` relates the two sessions through what is in the pipes,
for a worker in a given phase: what the supervisor may still have written
(`SendInv`), what precedes hello and start (`OpeningInv`), and that the messages
under way are accepted one after the other whatever the supervisor sends
meanwhile (`TalkInv`). Both workers map their places to the four phases, so that
each lemma about a message is proved once. `RefreshInv` ties the worker's claim
to the state of its transaction, the supervisor's judgement to the claim, and
the result to both; that nothing is committed after a `not_started` needs that
the worker has said its last word or is gone. `PortableInv` says which of the
three threads runs in which phase, and what an acknowledgement commits the
terminal to.

*Windows and polls.* `WindowInv` says that whoever is past admission holds its
locks, that shared and exclusive exclude each other and that a backup is of what
its command still has locked. A killed operation loses its lock but leaves its
content; `StableInv` is therefore about attempts that were not killed.
`PoolInv` counts: a graph is in `running` exactly while its future is there, and
its thread is at work exactly while that is open.

*Upgrade and restore.* `UpgradeInv` carries what the command knows between its
calls: `OnPrefix`, that the ledger is at least as far as the command read it,
`RunInv`, that it has a backup of what it began from and comes to the removal
with settled rows, and that at most one row has the expected identity, as the
index demands. A transaction left behind may commit under a later command, so
each is kept `Sound` (`LateInv`): an adoption was sent to a database with the
whole schema, missing migrations to one whose ledger is exact and, for the
removal, whose rows are settled; neither merges nor refreshes nor another
transaction take that away. That no run is ahead of its authority needs that
the order of fences is total and has a greatest member in every table
(`HasWinner`). `RestoreInv` keeps, for
each target, who created it and who may still act on it (`DatabaseInv`,
`PendingInv`), and for each invocation how far it is, which targets are its own
and whole, and which its intents and its ledger name. The ledger is written
before each creation; the invariant shows that this suffices although a command
of unknown outcome may take effect after its invocation has ended.

Model-checked only:

- liveness (`JobsEnd`, `ConvergesAndRests`, `CommandEnds`, `PolledAgain`,
  `StopEnds`, `WorkersEnd`, `UpgradesConverge`), which the prover cannot do;
  `DesiredState` has no other property;
- `ContainerExec` (`SettledIsOver`, `PostmasterIsSpared`): its constants are
  finite choices of the scripts, one command with one child, so that the run is
  exhaustive and a theorem would say no more.

The proof modules of workers, local store, admission and upkeep name `Zenon`
once as the prover of their leaves; a leaf with arithmetic, sequences or large
records cites `SMT`.

The type invariants of modules without theorems document the state; no run
lists them.

## Behaviour worth knowing

Met while modelling, and kept out of the properties or stated as their limit:

- A retry and a coalesced request can leave two queued automatic jobs of one
  graph (`_control_state.py:325`), where the contract (810) has one.
  `ReplacementIsRetained` is about what a replacement is kept for, not about the
  order in which requests are coalesced.
- `claim_once` checks its owner with an unlocked SELECT
  (`_control_ownership.py:117`), so a superseded coordinator can insert one
  claim; the epoch fences what follows from it.
- A batch of `cleanup_terminal` is refused as a whole while `coalescing_state`
  still refers to one of its jobs (`_control_maintenance.py:121`).
- An uncertain job that turns up later is looked at again only while a
  recovery report is pending (`core.py:215`, `startup_recovery.py:155`).
- A SIGTERM that falls into the clean-up after a worker's commit is reported as
  `rolled_back` (`ops/refresh.py:136`).
- A broken pipe while the supervisor writes is raised as `ProtocolError`
  (`_protocol_execution.py:313`) through its loop, which then neither ends nor
  waits for the worker.
- A worker runs in a session of its own (`process_supervision.py:136`), so a
  portable worker goes on when its supervisor dies.
- A record settled but not synced may be armed again after a power loss
  (`ops/_portable_retention.py:209`); a later publication makes it undecidable.
- An interrupt between linking a backup file and noting it leaves the file
  (`backup.py:251`); a directory made by a failed attempt and removed may be made
  again by another that then does not sync its parent (`backup.py:233`).
- The cleanup of a failed backup suppresses its own errors (`backup.py:269`), so
  a manifest may be left beside no database.
- `refuse_outstanding_restore_state` (`_extension_restore_custody.py:70`) is
  called before the maintenance lock is waited for, so a restore may run
  container commands although another has meanwhile left a ledger; the
  restore contract (421) says it refuses. `LeftoversAreNamed` and `OnlyItsOwn`
  hold all the same.

## Not modelled

- In modelled parts: `quarantine_legacy_attempt` (rows older than fencing
  epochs), several graphs, the worker limit, the burst of manual jobs and
  changed routes in `Coordinator`, the job objects of Windows, the contents of
  graphs, backups and manifests (whole, torn or absent here), digests.
- `coordinator` service, endpoint and client: handlers that call one store
  operation each, and the framing of requests.
- Artifact store: every attempt has a store root of its own with one writer at
  a time, and nothing deletes from it.
- Bundles, manifests, receipts; service package; provisioning,
  release; operator configuration and source generations; stage cleanup;
  direct publication without a coordinator's authority, but for what it does
  to the rows an upgrade reads.
- Server, command line, graph analyses, extractors, canonicalization: pure
  functions of source text and graph data, or read-only queries. They are the
  greater part of the code, most of it parsing, SQL text, validation and
  reporting, which is why the mapped lines are a small share of the whole: a
  model of it would be a transliteration with nothing to check.
