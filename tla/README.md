# Formal models of runvault

runvault records experiment runs: a program opens a run directory, appends
metrics, events, logs and artifacts to it, and ends it with a verdict in
`status.json`. A command-line tool collects the runs whose process died (`gc`),
copies runs to a shared aggregation repository (`sync`, the *vault*), deletes
them for good (`delete`), and reads them (`verify`, `query`, `report`,
`metrics audit`, `path`). There is no server: everything that coordinates
processes is a file. What can go wrong is therefore an order of file operations
of several processes, a kill between two of them, or one that fails.

The directory holds TLA+ models of that coordination, TLC configurations that
check them on small instances, and TLAPS proofs for every instance.

    tlc -config Lifecycle.cfg MCRunLifecycle.tla     # one run of PROJECT.json
    tlapm RunLifecycleProofs.tla                     # one proof module

## Inventory of the system

Paths are below `src/`; `runvault/` stands for `crates/runvault/src/`, `cli/`
for `crates/runvault-cli/src/`.

| Part | State it keeps | Operations | Hard behaviour | What makes it correct |
|---|---|---|---|---|
| Run (`runvault/run.rs`) | directory, writers, counts, `open` flag | start, log_*, finish, fail, drop | errors half-way, kill between two files | a run has a trace at every moment and one verdict at the end |
| Lock, heartbeat (`runvault/lockfile.rs`) | `.runvault.lock`, a thread | write, refresh, remove | a refresh after the removal | a lock means a live or a killed run, never an ended one |
| gc (`runvault/gc.rs`) | none | visit, read, judge, re-read, remove, write, re-check | judged state is stale when acted upon | only dead runs are collected; every killed run is |
| `latest_finished` link (`runvault/paths.rs`) | symlink, mutex file | update | takeover of the mutex, deadline | never moves backwards, ends at the latest |
| Walk of `results/` (`runvault/paths.rs`, `runvault/legacy.rs`, `cli/main.rs`) | none | run_dirs, find_run_dirs, `runvault path` | nesting, string or instant order | each run is found once |
| Progress (`runvault/progress.rs`) | done, next report, log | tick, close | integer steps, timed lines | lines keep coming, and not too many |
| Seal (`runvault/run.rs`, `runvault/verify.rs`) | `manifest.csv` | walk, digest, write | a stage writes while it is sealed | the manifest names what is there |
| Metrics (`runvault/run.rs`, `runvault/metrics_meta.rs`, `runvault/vocabulary.rs`) | rows, buffers, names | log_metric(s), log_reference | refused half-way, buffered rows | counts, names and rows agree |
| Events (`runvault/run.rs`, `runvault/verify.rs`) | `events.jsonl`, its buffer | log_event, flush, deep check | a refused line written by a later call, later lines that contradict earlier ones | what was acknowledged is there; terminal lines summarise the observations |
| Sync (`runvault/sync.rs`) | vault copy, receipt | plan, guard, copy, settle, receipt | live source, overlap, kill, refusal | no history is lost, the receipt describes the copy |
| Delete (`runvault/delete.rs`) | tombstones | plan, tombstone, remove | kill inside a removal, a sync beside it | a deleted run stays deleted, a live run is spared |
| Verify (`runvault/verify.rs`) | none | shallow, deep, search for circles of lineage | runs that start, end and go under the search | accepts what the writers write, and no circle |
| Identity (`runvault/hash.rs`, `canonical.rs`, `pointer.rs`, `ids.rs`, `config.rs`, `env.rs`, `git.rs`) | none | hashes, slugs | framing, exclusion of pointers | equal hashes only for equal conditions |
| Legacy (`runvault/legacy.rs`) | none | recognise, convert | wide, long and panel tables, ambiguous names | a key per metric of a run |
| Index, audit (`cli/index.rs`, `cli/audit.rs`) | nine parquet tables | walk, read, flatten, write; classify | the vault changes under the walk; killed between two tables | a whole index is the vault; an ended run is whole in it |
| Report, query (`cli/report.rs`, `cli/main.rs`) | none | one SQL statement after the other | the tables are replaced between two statements | the parts of a payload add up; the headline is shown |
| Python writer and reader (`python/src/runvault/`) | the same directory | the same | heartbeat joined with a timeout | the same promises |
| Schemas, tools (`schema/`, `tools/`) | data | generators, shell jobs | | |

They interact through the directory only: the owner and its heartbeat thread
with gc through the lock and the status; runs of one experiment through the link
and its mutex; stages with finish() through the `open` flag; sync and delete
through the vault, the tombstones and the receipts; the index with sync and
delete through the receipts and the copies they describe; the report with the
refresh through the tables; a run with the runs it names through their `run.json`
and `status.json`.

## Modules

| Module | Models | State | Actions and code |
|---|---|---|---|
| `RunRecord` | what a directory promises from outside | one of new, open, released, finished, failed | abstract specification |
| `RunLifecycle` | run, heartbeat, gc | the owner's point, the files of the directory, the lock as the number of the write that made it, its age in ticks, each collector's point | one action per file operation of `Run::start`, `finish_inner`, `fail`, `Drop`, `Heartbeat`, `collect_one` |
| `LatestFinished` | the link and its mutex | each run's point, mutex, link | `LinkMutex::acquire` (create, fail, judge stale, take over), compare, swap, release; a delete at any time after the status |
| `ProgressStage` | counts of one stage | done, next, last said, ticks of silence | `tick`, `close`, `step_for` |
| `RunSeal` | the manifest against stages | the writes of each file, the rows, each stage's point | `flush`, `close_to_progress`, walk, digest, create, write; a stage's check and its write are two steps |
| `MetricLog` | rows and descriptions of an experiment's runs | rows on disk and in buffers, names, counts, `metrics.meta.json`, what earlier runs left in the index | `log_metric_batch`, `ReferenceEntry::send`, `finish`, `fail`, kill; `resolve`, `classify` as operators |
| `EventLog` | `events.jsonl` and its buffer | the lines of the file, what is pending, which calls returned | `log_event` with each way its write can fail, finish, fail, kill; `check_event_reserved`, `check_terminal_consistency`, `check_terminal_events` as operators |
| `Lineage` | the runs a run names, and the search for a circle | `run.json` and `status.json` of each run, the stack and the marks of the search | start, kill, gc, fail, delete; `check_lineage`; each turn of the loop of `check_no_cycle` |
| `VaultSync` | one run synced file by file | source, copy in both forms, receipt, each sync's job | plan, read receipt, guard, hash, copy, settle, receipt |
| `VaultDelete` | the copies of one run | files of each machine's copy and of the vault, tombstone, plans | sync's plan and copy in outline, delete's plan, tombstone, three removals, torn removals |
| `VaultIndex` | the index against the vault | stored files and receipts of several runs, the walk, what was read, the tables | a sync's copies and receipt, a delete's removals; walk, read of one file, flatten, write of one table |
| `LegacyRun` | reading a legacy run | none: operators | `parse_dir_name`, `find_run_dirs`, `convert_wide`, `convert_long` |
| `VaultReport` | the report against the refresh | vault, tables, the refresh's place, the report's draft | one action per statement of `report.rs`; refresh in outline |
| `MC*` | the same modules with values for TLC | | |
| `*Proofs` | theorems about the module they extend; `RunLifecycleProofs` is also about `LatestFinished`, `ProgressProofs` is about `RunSeal` and `ProgressStage`, `MetricProofs` about `MetricLog`, `LegacyRun` and `VaultReport` | | |

`RunLifecycle` implements `RunRecord` under a refinement mapping (`Record`).
`RunSeal` refines one step of `RunLifecycle` (the manifest), `VaultSync` one of
`VaultDelete` (the copy), `VaultIndex` one of `VaultReport` (the refresh); they
are kept apart because their products would be out of reach and they share no
variable but the file that the outer step writes. `VaultReport` extends
`LegacyRun`: what a legacy run contributes is computed by its operators.

Operators named `Mut...` are slips of the kind the properties must notice: each
is put in the place of the definition after it, and TLC must then find its
property violated. No specification uses them.

### What is abstracted

A lock record is the number of the write that made it, since gc compares whole
records. Instants are ages in ticks, or numbers for `finished_at`. A file is a
count of writes (`RunSeal`), an edition and a length (`VaultSync`), an edition
(`VaultIndex`), or there or not (`VaultDelete`). An atomic write
(`files::write_json_atomically`) is one step, as its rename makes it. A value is
left out of a metric row, of which the model keeps the key. `metrics.csv` is
flushed whole or not at all; a write to `events.jsonl` can fail after any part of
a line. A field of an event is a value of the right type, null, or of another
type. A name is a sequence of words and a cell a number or not (`LegacyRun`). The
tables of the index that copy columns are one row per run.

## Runs

| Run | Asks | Bounds | States |
|---|---|---|---|
| `lifecycle` | can a verdict be lost, doubled or given to a live run? does a killed run end as recorded? | two collectors (one sees the process), two failures of the run, one of a collector, three writes of the lock | 268 k |
| `lifecycle_late` | does a verdict stand once everybody is done, when a run may sleep past STALE_AFTER? | two collectors that do not see the process, one failure, two writes of the lock | 149 k |
| `latest` | the link and its mutex | three runs, two of one instant; one kill; slow holders, impatient waiters | 33 k |
| `stage` | when lines are printed, and which | totals around 20 and 40, where the step changes; two ticks of timer | 14 k |
| `seal` | manifest against files | two stages, one artifact, five writes, two failures | 18 k |
| `metrics` | rows, counts, descriptions, audit | two runs, three declarations, three rows in calls of at most two, one failure | 523 k |
| `events` | lines against calls, and the deep check | four accepted calls over thirteen events of two units, two failures | 531 k |
| `lineage` | what the search finds | three runs, every reference among them, two changes of their lives | 545 k |
| `sync` | copy and receipt | three files (append-only, immutable, status), two syncs, one kill, three plans, two rewrites | 223 k |
| `delete` | removal of all copies | two machines, two mishaps (kills, commands beside each other) | 252 k |
| `index` | the tables against the vault | a canonical run, two legacy runs (one without a date), two syncs, one kill | 425 k |
| `report` | one payload against itself and the vault | two runs, and a legacy run of four kinds of files that may be there before; two changes | 175 k |

The bounds are the least that let each kind of event meet each other. Two
collectors are needed for one to undo what another did, and one of each kind of
sight; a third repeats one of them. A lock record must be replaced while a
collector holds the old one (two writes) and once more after (three). Three runs
let one take over the mutex of a second while a third owns it. Contents of two
lengths lie on both sides of the compression size. The stage needs no more than
43 ticks for every remainder and both step sizes. Two mishaps let a kill be
followed by a crossing. In `metrics`, three rows are a batch refused after its
first row, and that batch repeated. In `events`, four calls are an observation,
a terminal, a later observation of the same unit, and one more that may be cut or
follow a cut one. Three runs make circles of every length up to three, a diamond
(one reached twice on different ways, which is no circle) and a circle the
subject only leads to. In `index`, two syncs are one of the live run and one of
the ended run in the other form, each under a refresh. In `report`, two
changes bring a run in, or let one grow or go under the statements; their names
compete for a budget that is 1 here and 12 in the code (3 for the headlines).

`CHECK_DEADLOCK FALSE` is set where the system may come to its end: runs end,
commands return, bounds are reached. A report can always be asked again.

### Fairness

`RunLifecycle!FairSpec`: time passes (the code polls a clock), and somebody keeps
running gc, each invocation to its end; it is a command meant for a schedule, and
`collect_one` has no wait. Nothing is assumed of the run itself.
`LatestFinished!FairLinkSpec`: a process inside `update_latest_finished` proceeds; it
polls every 10 ms and holds the mutex for two file operations; that the mutex cannot
be made, which ends the wait with an error, is possible at any time but not counted on.
`VaultDelete!FairSpec`: a command that was started goes on until it ends or is
killed, and a user who began to delete repeats the command where a copy is left;
strong fairness, because a sync on the same machine can make a plan impossible
now and then.
`VaultIndex!Spec`: a refresh goes on and is repeated, as
`tools/refresh_vault.sh` does; nothing is assumed of syncs and deletes, which may
stop half-way for ever. The other modules are checked for safety only.

## Properties and their conditions

Where the code cannot keep a promise under every schedule, the property carries
the weakest condition under which it does, as a history variable or an assumption
named for it: `JudgesSoundly` (gc sees the process, or refreshes come in time),
`NoTheft` (no run lost the mutex while under way), `SameThread` (stages are
ticked by the thread that finishes), `disturbed` (a sync was overlapped or left
the copy half done, and none has completed alone since), `crossed` and `torn` in `VaultDelete` (sync and delete side
by side, a kill inside a removal), `lawful` (the program logs a terminal event
for what was observed), `removed` (a run was deleted under the search), `doubt`
(a run was not as its receipt says while it was read), `mixed` (a table changed
between two statements), `IsPlain` (no dots in the headers of legacy files). The
states beyond the condition are in the models, and TLC visits them.

A delete that is repeated must not be refused. `InterruptedDeleteResumes` says it
of kills between two steps, of the machine that began and of every other with a
copy. It rests on the order in which the copies go: the copy in the vault may have
been synced while the run was live, and then only the source tells that the run
ended. Under `DeletionCompletes` a refused plan would leave a copy for ever.
`IndexCatchesUp` excepts a vault with a legacy run whose name is no date, since
every refresh fails on it.

### Statements refuted

Configurations beside the runs of `PROJECT.json`, which TLC finishes with the
violation named.

| Configuration | Module | Statement | What happens |
|---|---|---|---|
| `SyncRefused.cfg` | `MCVaultSync` | `RewritesRefused`: a re-sync never rewrites an append-only file (sync.rs 696-700) | after a refusal half-way the next one does |
| `FailedStart.cfg` | `MCRunLifecycle` | `FailedStartLeavesTrace`: a failed start leaves a lock or a status (run.rs 575-577) | an error of `materialize_locks` (run.rs 536) leaves neither |
| `RepairKilled.cfg` | `MCRunLifecycle` | `LockBesideStatusIsAKill`: a completed run with a lock was killed between the two writes (gc.rs 54-56) | Drop goes on when the lock cannot be removed (run.rs 1080), writes the status and returns; a kill alone leaves no such pair |
| `SealKilled.cfg` | `MCRunSeal` | `FailedRunVerifies`: a run killed before its seal is exempt (verify.rs 728-735) | a kill between the creation of `manifest.csv` and its rows is refused for ever |
| `DeleteTorn.cfg` | `MCVaultDelete` | `NeverRefused`: a repeated delete completes (docs/preservation.md 69-70) | a kill inside `remove_dir_all` can make it refuse |
| `DeleteRemains.cfg` | `MCVaultDelete` | `TombstonedNotSent`: the tombstone keeps what remains of a source from being sent (docs/preservation.md 72-73) | a torn source without `run.json` is sent as a legacy run (legacy.rs 239-245) |
| `TerminalLines.cfg` | `MCEventLog` | `TerminalLinesAreTerminal`: a terminal line cannot be terminal in name only (docs/run-directory.md 89-91) | the keys are asked for, not their types (run.rs 1365-1380): a `t` that is text passes |
| `IndexPartial.cfg` | `MCVaultIndex` | `NoPartialRun`: a half-copied tree contributes nothing (index.rs 170-172) | a run that was synced before keeps its receipt while it is copied again or removed |
| `ReportHeadline.cfg` | `MCVaultReport` | `HeadlineIsAlwaysShown`: `primary_metrics` are in `metrics` without exception (schema/v1/runs.report.json) | the points of a series rank a name (report.rs 266-315) and are not shown |

What stays true of a run that may sleep past STALE_AFTER is the run
`lifecycle_late`: a verdict that stands when its owner and the collectors are
done is not touched by a later one.

### Disagreements the conditions leave out

Seen while modelling; each is a behaviour of the models that the condition of a
property excludes.

* A run suspended past STALE_AFTER and collected from another machine can end
  with a failed status beside its live lock, if the lock returns after the last
  look (gc.rs 94); and a retraction can take a finished run's status with it
  (gc.rs 95-99, against docs/cli.md 90).
* A run killed between the removal of its lock and its status leaves neither
  (run.rs 853, against docs/run-directory.md 145-146), and so does a gc killed
  between the two (gc.rs 88).
* Two comments speak of a completed run with its lock: run.rs 851-852 says it must
  never be found, gc.rs 54-56 that a kill between the two writes can leave it.
  The lock is removed before the status is written in every ending, so no kill
  does. `NoLockBesideStatus` states what is so: only Drop and a failed start, which
  ignore that the removal failed (run.rs 1080 and 1222-1233), leave both. The
  repair in gc is for these.
* A holder of the mutex that is slow is robbed, and then removes the mutex of
  another (paths.rs 121 and 146, against docs/run-directory.md 148-151).
* A stage is silent for as long as one condition takes, the timer being looked at
  in tick() only (progress.rs 297, against 27-29).
* A stage ticked on another thread can write after the seal (progress.rs 380-392,
  against 93-95).
* Two syncs at once can write one generation twice (sync.rs 651), and a sync of a
  live run can record a digest no file has (sync.rs 629, against 228).
* A delete between the plan and the copy of a sync brings the run back
  (sync.rs 383, against docs/preservation.md 72-73).
* A run that failed has no `metrics.meta.json`, so names it was only allowed to
  record because they are described are undescribed for the audit (run.rs 821,
  against 992-996).
* A flush that failed is made good by a later one, and the row is then in the file
  without being counted or named (run.rs 1047-1050). The same of an event
  (run.rs 800); a line longer than the buffer that was cut leaves a fragment, and
  the next line, though acknowledged, is glued to it.
* A run resumed from one that was killed and not yet collected starts, works, and
  is refused by its own finish (verify.rs 495-511).
* A directory named `index` is not entered by the walk of the vault
  (index.rs 177-179), and an unreadable receipt is passed over, both without a
  note (against index.rs 107: "so a missing run is never silent").
* A refresh killed between two tables leaves tables of two walks
  (index.rs 909, against 886-889); a legacy run whose name is no date, or a bad
  `created_at`, ends every refresh (index.rs 749-765); a legacy run stored
  compressed loses its experiment (index.rs 772-800).
* With dots in the headers, two files of one legacy run can claim one metric
  (legacy.rs 492-493): `foo_summary.x` of one file and `summary.x` of `foo.csv`.
  `runvault legacy` looks for that again, the index does not. The other columns
  of numbers of a long file are dropped without a note.
* Which of two meanings of one name a report shows is open: the statement does not
  order by the meaning (report.rs 380-386, "the first in order wins").

## What is proved

`tlapm` checks each theorem from nothing, for every value of the constants.

* `RunLifecycleProofs`. `TypeCorrect` and `QuietStands` need no assumption: a
  verdict that stands when owner and collectors are done is not touched by a later
  one (`Settled`), even where a live run can be taken for a dead one. `OnlyTheDead`,
  `OneFault`, `Safety`, `Finality` and `Refinement` assume `JudgesSoundly`;
  `RecordsAreWhole` is stated by no run, only by `Safety`. The invariant ties where the owner is
  to the files, lock and status there are (`OwnerInv`), the way it took to what it
  has done (`PathInv`), a collector past its second read to an owner that is done
  (`JudgementInv`), and the age of an owned lock to the heartbeat (`FreshInv`).
  None of the properties is inductive alone: that gc reaps only the dead rests on
  the comparison of two reads, which says something only because lock records are
  never reused. `Refinement` shows that each step is one of `RunRecord` or a
  stutter.
  `Safety` says of the lock beside a status that it takes an error which Drop or a
  failed start ignored.
  Of `LatestFinished`: until a run is robbed, a run past `create_new` owns the
  mutex and its comparison is still true when it renames the link; mutual
  exclusion and a link that only moves forward follow, for any number of runs,
  takeovers and kills. A run that is through with the link left it at itself or at a
  later one (`Through`), which gives `LinkLatest` when all are done.
* `ProgressProofs`. Of a stage, for every total: a report is never more than a step
  away (`StageSilence`), the point of the next one stays a multiple of the step
  (`StageGrid`), and no tick says the total. `StepPositive`, `OneStepAhead` and
  `NextMultiple` are the arithmetic they rest on. Of the seal, with stages on the
  run's own thread, for any files, stages and writes: a sealed run verifies and goes
  on doing so, and a recorded run is still.
* `MetricProofs`. For any names, families, declarations and batches: what is
  counted is what is on disk or in a buffer (`RowsInv`), a name that was used
  passed the description check (`NamesInv`), `resolve` gives it to a name or a
  family by the same test (`DescribedIsKnown`), and the index of earlier runs only
  grows (`PastInv`). `CountsMatchRows`, `AuditKnowsFinishedNames` and
  `FinishedKeysAreUnique` follow; none speaks of the open run, so none is
  inductive alone. `MetaAccounts`: short of a failed write the names of the
  run are those of its rows (`FileInv`), and `resolve` puts each of them under itself,
  under the first family that covers it, or nowhere, and counts the members of a
  family once (`ResolveAccounts`). `LeastPosition`, `FirstMatch` and `NamesOfConcat`
  are the facts about sequences they rest on. Of legacy runs, for any table: the
  metrics converted from one file have different keys (`FileKeysDiffer`); and those
  of all files of a run when their headers have no dots (`RunKeysDiffer`), since the
  stem before each name keeps the files apart. Of the report, for any vault, index
  and interleaving with refreshes: tables that no refresh is writing are of one
  refresh (`Together`), and the rows of a legacy run are of one reading of its files
  (`OneReading`); each answer in the draft agrees with the tables it was asked of
  unless these changed since (`AgreeInv`, one conjunct per answer). `HeadlineShows`,
  `ReportIsOfOneIndex` and, with `RunKeysDiffer`, `NumbersCountOnce` follow; none is
  inductive, as each speaks of the finished draft only.
* `LineageProofs`. For any number of runs, whatever their files say and whatever
  is started, collected and deleted during the search. A run that was left has
  only references that were left before it (`DoneInv`), so the order of leaving
  falls along every reference and nothing accepted is circular
  (`SearchAcceptsNoCircle`). A run on the path has one entry on the stack to
  leave it, and each entry was put there by the nearest such entry below it
  (`StackInv`, `TrailInv`), so a run met again on the path closes a circle that the
  files hold (`SearchFindsTheCircles`). `RequireImpliesShape` and
  `StartLeavesNothingToRefuse`: what `Run::start` accepts is not refused for its
  shape when the work is done, and among runs that were all started by the library
  there is no circle. `AcceptedForGood`: the order in which lives of runs go
  (`Moves`) lets no accepted run get a circle, a missing ancestor or a resumed run
  in the wrong state (`KeptInv`), and what a search has read is still so unless a
  run is deleted under it (`ReadInv`, `LateInv`).
* `EventLogProofs`. For any events and any errors of the writer. The lines of the
  file and those in the buffer are one log, of which every flush, however it fails,
  only moves the border (`Carries`). It has the calls in their order, each once
  (`Rises`, `Answers`); what was acknowledged lies on the side of the file
  (`AckedIsInFile`), and a line that cannot be read was cut from a long one or follows
  it (`LongIsToBlame`). So nothing acknowledged is lost (`NothingIsLost`) and a
  finished run has all of it (`FinishedIsWhole`). What a lawful program has said,
  written or not, agrees with itself (`TimesAgree`), so any part of it that reaches
  the file passes the deep check (`LawfulPasses`).
* `VaultSyncProofs`. For any files, contents, syncs, kills and rewrites. The guard
  compares with the form that the receipt names, so it protects as much as the
  receipt is true: short of a disturbance a file the sync has not touched is as its
  entry says (`ReceiptHolds`), the comparison still holds when the file is copied and
  when the other form goes (`GuardHolds`, `SettleExtends`), and what a sync that is
  alone has written is as its receipt will say (`AloneKnows`). `HistoryStands` and
  `ReceiptDescribes` follow, the second also after disturbances, once a sync has
  completed alone. That a file of the vault has a source (`SourceIsThere`) is why no
  stale form stays behind.
* `VaultDeleteProofs`. For any number of machines and mishaps: nothing is removed
  before the tombstone (`RemovalIsRecorded`), no file of a run that is executed is
  removed (`LiveRunIsKept`); and where no sync and delete crossed, what was deleted
  stays away (`DeletionLasts`) and, short of a torn removal, a delete that was
  killed is not refused when it is run again (`KilledDeleteResumes`). The last two
  are not inductive alone. For the first the invariant says what a delete knows of
  the vault at each of its points (`PlanSeesVault`, `Emptied`), that syncs and
  deletes are not under way together (`OneKind`), and that no sync is once the
  tombstone is there (`NoSyncAfter`). For the second it follows who can tell how
  the run ended: nobody before it has (`NotYetEnded`), then every source that is
  left (`EndedSources`) and every sync that is still to write (`SendsStatus`), and
  where the source is gone the vault's copy, or nothing is left there
  (`StatusKept`); and that copy can be read from the plan of a delete until it goes
  (`VaultReadable`).
* `VaultIndexProofs`. For any runs, tables, editions and bounds. Two halves. In the
  vault, a receipt that lists `status.json` lists every file of an ended run, with
  `metrics.csv` in its last edition or gone (`FinalReceipts`), since a sync plans
  `status.json` only of an ended run and writes the receipt last; `VaultMoves` says what
  a step of a sync or a delete leaves to a refresh under it. In the refresh, a receipt
  that was read still holds of each run that nothing crossed (`FoundInv`), so do the
  bytes read (`GotInv`), the rows collected of them (`RowsInv`) and the tables written
  (`IndexInv`); and while nothing changed at all, each of these is what the vault holds
  (`SameInv`). `CurrentIndexMatches`, `ShownEndedIsWhole` (with `RowsAreCounted`: retired
  names and metrics add up to the rows) and `ShownEndedStays` follow. None is inductive:
  they speak of the tables, and a table is what was read long before.

The assumptions are the `ASSUME`s of the modules, which TLC evaluates in each run.

Every safety property of the runs, invariant or action property, is a theorem, and
so is each type invariant. Only model-checked is the liveness (`KilledRunIsRecorded`,
`EveryFinishReturns`, `DeletionCompletes`, `IndexCatchesUp`): fairness and ENABLED are
out of the prover's reach, as is induction over data, so what a recursive definition
computes is left to TLC.

## Not modelled

* Rendering, wording and layout; the columns of the index that are copied one to
  one; of the report costs, remotes, targets, parameter docs and freshness;
  `runvault path`, `diff` and `init`; generated types and schemas; git's answers; a
  disk that loses writes it acknowledged.
* Identity (`hash.rs`, `canonical.rs`, `pointer.rs`, `ids.rs`, `config.rs`): pure
  functions over JSON texts. Whether two hashes are equal is a question of bytes,
  and a model without them would assume what it should show.
* The Python writer and reader, a second implementation of the same directory.
* A line of `events.jsonl` longer than the buffer whose text is in the file while its
  newline is still in the buffer: `EventLog` lets a long line be cut or whole.
* Weighted stages, and the estimate of the time that is left.

`not_modelled` and `partly` in `PROJECT.json` say it part by part, and its hazards
which of them have no property.

## Plan

What further work is worth most, in order:

1. `RunDirs`: the walk of `results/`, numbered names of runs of one second, and
   the choice of `runvault path` against the link.
2. The Python writer as a second instance of `RunLifecycle`, where it differs:
   the join with a timeout, the exit of the interpreter.
3. `tools/refresh_vault.sh`: its lock, its deadline and what it reports.
4. Pointers excluded from the configuration and the framing of the hashed parts.
