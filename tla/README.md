# A TLA+ model of forecast-store

forecast-store is a Python library over Postgres/TimescaleDB. It keeps measurements, external
forecast vintages and a team's own forecasts as a log of beliefs with three clocks:
`target_time` (when the value is true), `available_at` (when its source knew it) and
`recorded_at` (when the database learned it). These modules model what its code and the SQL it
generates do, check the model with TLC and prove the main results with TLAPS. Paths below are
relative to the repository.

## 1. The system

| component | code | state | operations | what makes it correct |
|---|---|---|---|---|
| write path | `src/forecast_store/write.py`, `timestamps.py` | rows of points tables, `runs` | `write_actuals`, `write_predictors`, `write_forecast` | nothing acknowledged is lost; one row per key; a run and its points are one unit; a repeated row is harmless |
| store and blocks | `store.py` | a connection, its transaction, a cached declaration | `Store.connect`, forwarders, `config` | the block is the unit of work: all or nothing |
| schema | `ddl.py` | tables, keys, defaults, triggers, `store_tables` | generated DDL, `belief_guard`, `append_only_guard`, `data_quality_sweep` | the primary-key switch decides what a second belief means; the sweep misses nothing |
| series registry | `series.py`, `register_series()` in `ddl.py` | `series` | register, resolve, look up | two registrations of a name agree on one id, forever |
| reads | `read.py`, `queries.py` | none (reads the tables) | as-of, context and versioned reads, pins | no look-ahead; different reads of one moment select the same beliefs |
| provisioning | `provision.py`, `config.py` | `store_tables`, tables | `provision`, `compare_declarations`, `StoreConfig.from_store` | a provisioned table keeps its declaration; re-provisioning is a no-op |
| declarations, names | `declaration.py`, `naming.py`, `config.py` | none | parse, print, quantile names | round trips |
| benchmark storage | `integrations/openstef_beam.py` | labelled runs, points, evaluations | save/load/has for backtests and evaluations | an overwrite replaces exactly one label's artifacts; what is present loads |
| forecasting adapters | `integrations/openstef.py` | `last_run_id`, prediction start | `StoreReader.context`, `ForecastStoreCallback` | a persisted prediction is a committed run with its own bounds |
| command line | `cli.py` | none | `describe`, `provision` | a file that is "in sync" changes nothing |
| ingest script | `scripts/ingest_liander.py` | none (the store) | one transaction per target | a killed ingest resumes cleanly |

**How they interact.** Every component works on one Postgres connection handed to it. The library
never commits: a `Store.connect` block (or the caller) owns the transaction, so components of
different processes meet only through committed rows, unique-index waits and row locks under
READ COMMITTED. The callback, the benchmark storage and the scripts call the write functions or
insert themselves; the write functions look up the registry and the stored declaration, then issue
one `INSERT` per point.

**What is hard.** A transaction's `now()` is fixed by its first statement while its rows appear at
commit, so `recorded_at` order is not visibility order. A statement error kills a transaction that
the Python caller may believe alive. Batches, reports, registrations and overwrites wait for each
other's rows. A commit's answer can be lost. Multi-statement operations see a new snapshot per
statement, multi-transaction loads a new state per transaction. The full list, with the line where
each one bites and the properties about it, is `hazards` in `PROJECT.json`.

## 2. Modules

| module | models | abstract specification |
|---|---|---|
| `BeliefStore` | the write path inside blocks over the points tables | `BeliefLog`: an append-only log that grows by whole units of work |
| `SeriesRegistry` | racing registrations, lookups and writes by remembered ids | `SeriesCatalogue`: names registered once and for good, points on their series' grid |
| `Workspace` | backtest saves, loads and resume checks, statement by statement | `LabelStore`: a label is replaced wholesale |
| `Evaluations` | evaluation saves (per statement) and loads (per transaction) of a label | |
| `Provisioning`, on `Declarations` | check, DDL, commit; readers that keep a declaration; `describe` and its file; bands, spellings and column names | |
| `Reads` | context windows, as-of queries, versioned export, latest view as operators on a log | |
| `Forecasting`, on `Reads` | a forecasting workflow: `StoreReader` context, prediction, `ForecastStoreCallback` | |
| `Monitoring` | `data_quality_sweep` over the rows of any writer; the SDK's grid check | |
| `Ingest` | resumable ingests with kills | |
| `MC...` | the small instances TLC checks | |
| `...Proofs` | theorems (section 5) | |

How state and actions correspond to the code, where the names do not say it:

**BeliefStore.** `rows` and `runs` are the committed tables. `txn[b]` is block `b`'s transaction as
the server holds it: status, `now()`, uncommitted rows, keys inserted or locked. `client[b]` is the
Python side: the call in progress, what returned calls told the caller, how the last block ended.

| action | code |
|---|---|
| `Read`, a call with `c = None` in `Start` | the lookups open the transaction and fix `now()`; a read, an empty batch or a refused call does nothing else |
| `WriteActuals`, `WritePredictors`, `WriteForecast` | the checks of the functions in their order; a forecast inserts its `runs` row, whose CHECK on the compute bounds may fail |
| `InsertRow`, `SkipRow`, `Redeliver`, `Conflict`, `DuplicateTarget` | the outcomes of one `INSERT`: inserted; `DO NOTHING`; `DO UPDATE` dropped by `belief_guard`; `belief_guard` raises; no conflict clause |
| `ClientFault` | the driver refuses a value before its statement is sent: the call raises, the transaction stays open |
| `DeadlockVictim` | Postgres aborts a member of a wait cycle |
| `Leave`, `Abandon`, `LoseCommitReply` | COMMIT, or the ROLLBACK it means in a failed transaction; an exception or a dead connection; a connection that dies after the commit took effect |

**SeriesRegistry.** `Register` sends the statement; `Create` and `Find` are its two outcomes once no
other transaction is inserting the name. `held` is what a caller learned in the open block, `known`
what it remembers of earlier ones, committed or not; `Write` uses either. `minted` is the identity
sequence, which no rollback resets. A `DeadlockVictim` stays inside its block in a failed transaction,
where every call raises; leaving it normally is a ROLLBACK (`Leave`).

**Workspace.** A worker's record holds the rows a `DELETE` has chosen by its snapshot and not yet
reached (`targets`), the rows it has deleted and locked (`gone`) and the events it has inserted
(`done`). A run's uuid is the save that minted it and its event. `runs` is one table for the store;
points are in the forecast table of the storage. Save 0 is the production history.

**Evaluations.** A backtest and a state of the ground truth are numbers. The saves of the backtest
are taken one after another: what two at once leave is `Workspace`'s subject. `truth` counts all
revisions, those a pinned read sees, and the transactions begun before the pin that are still open
and may add to them. `used` are the series rows
an evaluation has locked by its upsert, `new` those it inserted. A row of `evaluation_runs` carries,
as history, what its metrics were computed from. `recorded` is the start of its transaction.

**Provisioning.** `store` has the rows of `store_tables`, the spec each table was created from, the
triggers, and whether the guard function exists. Every provisioning replaces the catalog functions
first, so the later of two waits there and fails when the earlier commits; one that has only checked
goes on. As history, `overtaken` are the declared tables that another provisioning created between
the check and the commit, and `settings` the store-level switches committed so far. A level is a numerator and its written decimals, so `0.1` and `"0.10"` are equal numbers
with different spellings; a string of digits, such as the fraction of a percent in a column name, is
its number and its length. Powers of ten are the recursive function `Ten`.

**Reads.** A read is one statement and becomes an operator; where SQL leaves the answer open
(`last(value, available_at)` with a tie, runs of one knowledge time in an export), the operator is
the set of possible answers. A transaction begins (`Begin`), which fixes its `recorded_at`, writes and
ends later (`Write`, `End`); `open` are the beginnings of those still open, so one may begin before a
pin and commit after it.

**Forecasting.** `call` is the callback with its open block; `frame` what the last context read
leaves for `context_end`. Measurements arrive at any time; the context window is `Reads`' own, over
the measurements of this workflow (`INSTANCE Reads`). An engine that has called `on_predict_start` once calls
it again before a later `on_predict_end` if a prediction failed in between (the guard of
`PredictEnd`); one that never calls it measures no start. `lost` and the `first` number of a run are
history: the commits nobody heard of, and the prediction a run belongs to.

**Monitoring.** Two scales: database ticks for `recorded_at`, microseconds for target times, because
the float remainder of `check_grid` accepts one microsecond. `registered` maps an id to its interval;
neither `check_grid` nor the sweep looks at the grid of an interval of 28 days or more (`Checked`).

**Ingest.** Each process is at a target, a series and a statement of it, with what its transaction
has registered and copied.

What belongs to Postgres, TimescaleDB, psycopg or the benchmark harness (unique-index waits, `now()`,
the deadlock detector, snapshots, gap filling, the order of a pipeline) is modelled from how the
code uses it and marked external in the map. Definitions whose comment says "Mutant of" are not part
of the model: they are plausible bugs of a definition that follows, kept to confirm that a property
notices them.

## 3. Runs

| run | instance | checks |
|---|---|---|
| `telemetry` | `BeliefStore`, a single-belief table; two blocks, batches in both orders, two values, a point off the grid | `TypeOK`, `OneBeliefPerTarget`, `AcknowledgedStored`; `CallEnds` |
| `logs` | `BeliefStore`, a revisioned table, vintages, a forecast log; empty, repeating and stated batches | `RunNeverSplit`, `AcknowledgedStored`, `PinStableWhenQuiet`, `ImplementsLog` |
| `registry` | two blocks, two names, two intervals, two ids | `CachedIdSafe`, `ReturnedIdStands`, `ImplementsCatalogue` |
| `workspace` | two workers, a label fought over and saved through two tables, a label with one saver; three saves | `ListedIsStored`, `ResumeLoads`, `ProductionKept`, `ImplementsLabelStore`; `SaveEnds` |
| `evaluations` | one or two workers, one pinned, a revision by a transaction begun before or after the pin, two metrics in both orders, two backtests | `OneSeriesPerKey`, `MetricsReadable`, `ReportConsistent`, `LoadNotSuperseded`; `SaveEnds` |
| `provision` | two provisioners, a reader, five declarations under three settings of the switches, with ten spellings of levels | `RowMatchesTable`, `KeptStaysTrue`, `VerifiedUnlessOvertaken`, `RecoveredIsNoOp`, `InSyncIsNoOp`, `ColumnsNameLevels`, `FileKeepsDeclaration` |
| `reads` | two writes of two jobs or none, two claims, NULL beliefs, ties, a pin, transactions open across it, four windows | `LaterBeliefsAreInvisible`, `GapsAreFilled`, `ReadsAgree`, `EngineCutoffAgrees` |
| `workflow` | two attempts, an hour and a half-hour interval, four instants | `ReturnedIsStored`, `BoundsAreOwn`, `AuditIsClean`, `StoredTwiceOnlyIfLost` |
| `sweep` | two rows of any writer, an interval below 28 days and one above, transactions of one tick, window of three | `OrphansAreReported`, `DefectsAreReported` |
| `ingest` | two ingests, two targets of two series, two kills | `TargetsWhole`; `EveryFileLoaded` |
| `pin_forever`, `spelling` | two disagreements with the documentation (section 4) | violated |

Every module states its `TypeOK`. Section 5 proves it for every instance, so the runs leave it out,
`telemetry` excepted. What the less obvious properties say:

* `AcknowledgedStored` relates what calls returned to what the tables hold after the commit: what
  skip, wait, conflict, fault and deadlock handling must preserve together. For revisioned tables it
  promises the coordinates of a belief, not its value (section 4, corrections).
* `PinStableWhenQuiet` is the guarantee of a pinned read in the form the code gives it: a pin in the
  past is stable once no transaction that began at or before it is open.
* `ListedIsStored` holds for every label, however savers fight; `ImplementsLabelStore` and
  `ResumeLoads` are about labels with one saver and one table, as one pipeline has them, while other
  labels are being fought over in the same tables.
* `LoadNotSuperseded` is what the order by transaction start still guarantees: an evaluation begun
  after another one committed is preferred to it.
* `ReportConsistent`: a load joins metrics with subsets of no older backtest, whoever else saves. They
  are of the same backtest when one process works on the label, crashes and restarts included, and of
  the same ground truth when both sides read under the pin and it was quiet: no transaction begun
  before it was open when the metrics were computed. Without these premises the code promises neither
  (section 4).
* `VerifiedUnlessOvertaken`: what a provisioning reported is true then and stays true, table by
  table, but for the tables another one created between its check and its commit; those exist, have
  the triggers asked for, and are described by their rows (`RowMatchesTable`).
* `RecoveredIsNoOp` and `InSyncIsNoOp` have two halves. When the declarations committed so far agree
  on the store-level switches (`OneSetting`), recovery and "in sync" mean a no-op, exactly. When they
  disagree, the properties say how far the difference goes: `provision` refuses the tables of another
  enforcement mode than the last table's, no others, and the statements would add missing insert-only
  triggers, nothing else. `KeptStaysTrue` covers a declaration whose rows and guard were read by two
  snapshots, with a provisioning in between.
* `StoredTwiceOnlyIfLost`: a caller repeats a write that raised. The one exception that leaves a run
  behind is a lost reply to COMMIT, so only then may the repeat double it.
* `EngineCutoffAgrees` quantifies over every order the export may have. For vintages it is unique;
  runs of one knowledge time leave it open, and then the window may show the same value.
* `LaterBeliefsAreInvisible` compares the context window and the as-of answers of every query before
  and after every write. The versioned export has no cutoff; what an engine makes of it is
  `EngineCutoffAgrees`.
* `GapsAreFilled` includes stored NULLs: such a bucket counts as a gap, and NULL is carried forward.
* `OrphansAreReported`, `DefectsAreReported`: the sweep's window must exceed the longest transaction
  plus the time between sweeps; this is `MonitoringAssumption`. Off-grid targets are reported for
  intervals shorter than 28 days only; of the two intervals of the run, one is that long.

**Bounds, and why they are enough.** Two processes everywhere: the code meets others through one
key, one row or one name at a time, and a wait cycle of two is the shape of every longer one. Two
targets, names or metrics are needed for opposite lock orders, two values for conflicts, two uuids
for concurrent runs. A clock of 0..1 gives "began before" and "after" a pin; `telemetry` stops the
clock, which no wait and no key depends on. `logs` constrains a behaviour to one table of each kind
(`OneTable`): no property relates rows of two points tables. Two ids let one be lost to a rollback
and one reused wrongly. Three saves give an overwrite of an overwrite and a competitor. Three
decimals cover levels with and without a fraction of a percent, and the theorems cover up to fifteen.
`MaxFaults`, `MaxSaves`, `MaxEvals`,
`MaxWrites`, `MaxAttempts`, `MaxRows`, `MaxTold` and `MaxId` bound the histories; the theorems of
section 5 do not depend on them. Symmetry is used where blocks and names are interchangeable, and
never together with liveness.

`reads` and `workflow` switch deadlock checking off: their clocks and budgets run out.

**Fairness.** Strong fairness of a statement that waits: Postgres queues waiters first-in first-out,
so a statement whose row is free again and again runs. Weak fairness of the loops that return or
commit (they wait for nothing else) and of the deadlock detector. `telemetry` adds strong fairness of
leaving a block: the code between two calls is finite. `workspace` and `evaluations` assume nothing
of clients that are not saving; `ingest` assumes that a process that can run its next statement does,
and that kills are finite in number. Nothing is assumed of calls, faults, crashes or lost
connections. `registry` states no liveness: its waits are the same as those of `telemetry`.

## 4. Where the documentation promises more than the code does

Two disagreements are checked:

* `pin_forever`: a transaction begins, the clock passes the pin, the transaction commits, and the
  pinned read has changed. `README.md:38` promises "the same rows come back forever". It holds once
  quiet (`PinStableWhenQuiet`).
* `spelling`: a band provisioned as `0.1` and again as `"0.10"`, equal declarations
  (`config.py:239`), raises `MigrationRequired`; `provision.py:3` says that re-running with the same
  `StoreConfig` is a no-op. The file `describe` prints for such a store is refused the same way.

Others were met while modelling. Each is the case that a precondition of a checked property
excludes, or names:

| code | documentation | property that holds |
|---|---|---|
| A caller catches `ConflictingBelief` inside a block: leaving it normally discards the block and raises nothing. | `store.py:119`: "Leaving the block commits; an exception rolls back" | `AcknowledgedStored` speaks of blocks that ended "committed" |
| Two unstated corrections of a target in one block share `now()`; the second is dropped (`write.py:261`). | `write.py:228`: corrections "arrive as new rows" | `AcknowledgedStored` promises the coordinates only |
| A block that reads first and writes later stamps `available_at` with the time of the read (`write.py:258`). | `write.py:18`: "arrival is *measured*" | `PinStableWhenQuiet` |
| A forecast repeated after a lost commit reply is stored twice. | `python-guide.md:181`: "Writes are idempotent." | `StoredTwiceOnlyIfLost`: only after such a loss |
| Two savers of a label, or two tables under one label, leave a mixed label and points without a run (`openstef_beam.py:286`, `291`). | `openstef.md:128`: "Benchmark overwrite = label-scoped replace." | `ImplementsLabelStore` for labels with one saver, `ListedIsStored` for all |
| `has_backtest_output` looks at the label, the load at the label in one table. | `openstef.md:65`: the label is "the key the resume checks probe" | `ResumeLoads` for labels with one table |
| `load_evaluation_output` reads the evaluation, the backtest and the ground truth in three transactions: with a second process on the label it joins the metrics of one backtest with the subsets of a newer one (`openstef_beam.py:433`). | `openstef.md:119`: "Evaluation reports round-trip via re-derivation." | `ReportConsistent`: never an older one, the same one for a single process |
| The params of an evaluation do not name the pin (`openstef_beam.py:360`). | `convention.md:619-621`: "`evaluation_runs.params` records `frozen_at`" | `ReportConsistent` when both sides use the pin, and it was quiet |
| Racing provisioners with different specs of a table may both report success (`provision.py:125`). | `provision.py:102`: "Create (or verify) the store" | `VerifiedUnlessOvertaken`, `RowMatchesTable` |
| Declarations under different switches recover to one that does not re-provision, and may be called "in sync" (`ddl.py:481`, `cli.py:159`). | `config.py:351`: "re-provisions as a no-op"; `cli.py:181` | `RecoveredIsNoOp`, `InSyncIsNoOp`: a no-op under one setting; otherwise only other enforcement modes are refused and only guards would be added |
| Runs with equal `available_at` tie without an order (`queries.py:104`). | `convention.md:757`: "identical rows forever" | `ReadsAgree`: the same set of possible answers, and only runs of one knowledge time leave more than one. That two reads answer the same is not promised |
| A stored NULL belief is listed as a gap (`read.py:75`). | `read.py:65`: "None where the bucket had no data" | `GapsAreFilled`: a gap is a missing or a NULL belief |
| A decision moment inside a bucket keeps that bucket in the window (`openstef.py:158`). | `convention.md:782`: "ending at the last complete bucket" | `GapsAreFilled` |
| `last_run_id` is set before the block commits (`openstef.py:274`). | `openstef.py:260`: "set after each successful write" | `ReturnedIsStored` after a returned write |
| A coarser result on a finer registered grid is stored (`openstef.py:307`). | `openstef.md:94`: "conflict ⇒ error" | none; the stored points are on the registered grid (`RunsStayOnGrid`) |
| `context_end` counts filled buckets, and without any target value the covariates' index (`openstef.py:366`). | `openstef.py:16`: "the last *observed target* timestamp" | `AuditIsClean` of runs whose context held a measurement |
| A level of more than fifteen digits is printed as the nearest float (`declaration.py:64`). | `declaration.py:59`: "they round-trip exactly" | `FileKeepsDeclaration` for levels of at most fifteen decimals |
| The grid of a series of 28 days or more is neither checked nor swept (`timestamps.py:45`, `ddl.py:375`). | `python-guide.md:172`: "target times must sit on the series' grid" | `DefectsAreReported` for shorter intervals |
| One microsecond off the grid is accepted (`timestamps.py:49`). | `python-guide.md:172`: "target times must sit on the series' grid" | `DefectsAreReported`: the sweep flags it |

(`convention.md` is `docs/forecast-store-convention.md`, `openstef.md` is
`docs/integrations/openstef.md`.)

## 5. Proofs

The theorems hold for every choice of the constants under the named assumptions of the modules,
which every run evaluates: a table has one role, bounds are naturals, `None` is not a value, claims
are times, targets of an ingest share no series, the sweep's window is long enough, a request is a
`StoreConfig` with finitely many tables, a level has one to fifteen decimals, which is what a float
keeps. Each proof has an inductive invariant `IInv` (or its parts), a lemma per action, and theorems
that read off the property. Every safety invariant and every action property of the passing runs is
stated by a theorem.

| module | theorems | the invariant, and why the property alone is not inductive |
|---|---|---|
| `BeliefStoreProofs` | `TypeCorrect`, `PinStability`, `QuietLasts`, `PinnedForever`, `SingleBeliefHolds` | `StepEffect` reduces every step to what the server sees: a transaction begins, inserts, locks, is reset or commits. `PinStability` needs `Stamped` (an open transaction's rows carry its beginning), which needs `CallInTransaction`; with `QuietLasts` it gives `PinnedForever`, the promise itself: what a quiet pin sees it sees in every later state. `OneBeliefPerTarget` speaks of committed rows, but two blocks may each hold an uncommitted one: `KeysHeld` adds that pending rows are locked by their block and locks are exclusive. |
| | `AcknowledgedIsStored`, `RunsWhole`, `StoreIsLog` | `AllDelivered`: what an open block was told is visible to its transaction, point by point of the call in progress. `RunsOnce` and `AllLinked`: a pending run's uuid is nobody else's, and its points carry its `recorded_at`. The refinement maps a commit to one step of the log, all else to stutters. |
| `SeriesRegistryProofs` | `IdsUnique`, `CacheSafe`, `ReturnStands`, `RegistryIsCatalogue` | `RegistryInv` with: what anybody learned agrees with every row, also rows that do not exist yet because an id is never handed out twice (`LearnedSafe`); what a block holds it sees (`HeldSeen`); pending points lie on a grid its block sees (`OnGrid`). |
| | `LoadedWhole` (of `Ingest`) | `Agrees`: the series of a target before the one at hand are loaded or copied by this transaction, all of them at the commit. |
| `WorkspaceProofs` | `ListedStays`, `ProductionStays` | `SavesFresh`: no statement has chosen a row of a save still in progress. `DeletesMatch`: while points are deleted their runs are still listed under the label, so the second DELETE chooses them too: this closes the gap between the two snapshots. |
| | `ResumeIsSound`, `LabelsAreReplaced` | `LabelInv`: what the label of a lone saver holds, statement by statement: the committed runs and points are those of the last save that ended, the saver's `targets` and `gone` are among them, its events are the label's next content. The refinement maps the commit of a save to one replacement of `LabelStore`; saves of a label others fight over map to stutters, because their rows are under other labels. |
| `EvaluationsProofs` | `SeriesUnique`, `AllReadable`, `LoadsLatest` | `SeriesApart`: rows locked by two saves have no key in common, and what a save uses is committed or its own. `KeysHeld`: a key of the report is still to come or held. `Ordered`: the clock has passed every commit, so an evaluation begun later has a later `recorded_at`. |
| | `ReloadConsistent` | `Sourced`: a row read under a quiet pin carries the one state that pin shows for good (`AtPin`), a row's backtest was stored before it is read again (`NoOlder`), and a lone process saves one backtest (`OneBacktest`). |
| `ProvisioningProofs` | `RowsDescribe`, `KeptIsTrue`, `ReportsHold`, `RecoveredStays`, `InSyncStays` | `Described`: a row is the row of the spec its table was created from, so what was read before a commit is still true after it (`Extends`). `JobOk`: a provisioning under way differs from the store in nothing but the tables it was overtaken in. `Switched`: the guard exists when some committed declaration asked for it, a table has the triggers that all of them ask for, and its enforcement mode is one of theirs. The last table of a declaration exists because a finite set of numbers has a greatest (`Greatest`). |
| | `FileStaysTrue` | `FileInv`: the file prints specs of tables that exist, and these keep their spec although the file itself may be provisioned again. That printing loses no level is `SameTrimmed`, from the lemmas on `Ten`: trailing zeros exist to be counted (`ZerosExist`), and dropping them leaves an equal number. |
| | `ColumnsAreNames` | `Spelled`: every stored band, also one read back from a file, spells a level once, because `_levels` and equal numbers printed alike keep it so (`CanonicalSpelled`, `DumpedSpelled`). A column name writes its level (`Parses`), so two columns of a band differ and each is read back as a level of it. |
| | `TypeCorrect` | `TypeInv`: what a provisioner, a reader or the file holds is a declaration, and triggers are on tables that exist. |
| `ForecastingProofs` | `ReturnedStays`, `BoundsStayOwn`, `RunsStayOnGrid` | `Measured`: a start is at hand only while its prediction runs. `Pending`: an open block holds the run last numbered and fits the registry, which nobody changes meanwhile. |
| | `TwiceOnlyIfLost` | `Repeated`: what is stored of the prediction a caller may still repeat was committed without an answer, and a prediction is numbered anew, so no later one is taken for it. |
| | `AuditStaysClean` | `Informed`: measurements lie on the grid and were known when they arrived, and a frame that holds one ends, and knows, no later than the clock. The step to it is `SeenIsFilled`: a visible measurement fills its bucket, so the context ends at a bucket of the window and not at the covariates' index. |
| | `TypeCorrect` | `Typed`: run ids are unique because a pending run has the newest. |
| `ReadsProofs` | `ReadsKeepAgreeing`, `GapsStayFilled`, `LaterStaysInvisible`, `EngineKeepsAgreeing`, `ExportsExist`, `PinnedAnswersStay` | `Rows`: rows are of the batches, on the grid. `Fills` and `Filled`: the recursion of `locf` has exactly one solution, the value of the last bucket before with a row (`Reaching`). `ExportIsComplete`: an order of an export's rows has a place for each. `PinFixes`: the rows a pinned query reads are fixed once the pin has passed and no transaction that began by then is open (a quiet pin: `pin_forever` shows what happens without), and each answer is a function of them (`AnswersOver`). `ForecastingProofs` uses these lemmas through an instance of this module whose log are the measurements (`Gap`). |
| `MonitoringProofs` | `NoOrphanEscapes`, `NoDefectEscapes` | `Short` and `Fresh`: a row was recorded at most `MaxOpen` before its commit; with `now <= swept + Period`, what was committed since the last sweep is still in the window. |

`TypeCorrect` is proved in every proof module (`IngestTypeCorrect` for `Ingest`).

Some of these rest on data that grows without bound, where the library's induction theorems cannot be
instantiated: they take a smallest counterexample from a well-founded order instead (`WFMin` with
the order of the naturals in `MaxOf`, `Filled` and `Least`, with strict inclusion of finite sets in `Greatest`
and `OrderExists`). `Least` is also what shows that the recursion of `Ten` has a solution
(`TenSteps`), which TLC takes for granted and a proof may not.

**Only model-checked.** The liveness properties (`CallEnds`, `SaveEnds` of both storages,
`EveryFileLoaded`): fairness and `ENABLED` are out of the prover's reach.

## 6. Not modelled

* `errors.py`, `__init__.py`: exception classes and re-exports.
* The benchmark scripts (`run_liander_benchmark.py`, `run_liander_chronos2.py`,
  `tsfm_forecasters.py`, `cqr_forecaster.py`): wrappers around forecasting models that touch the
  store only through the benchmark storage.
* Conversions between pandas frames, reports and rows; error texts; argument parsing and printing;
  series metadata and time zones; `target_time_observed` outside the sweep; the covariates of a
  context except where their index reaches past the target.
* Hypertables, compression, retention and foreign keys: storage layout, and constraints that refuse
  what the write functions refuse first. `append_only_guard` is modelled as attached or not, since no
  writer of the library issues an UPDATE on its tables.
* The validation of declared names and types in `config.py` and `declaration.py`, which only raises.

## 7. What could come next

1. `BeliefStore` composed with `Reads` in one module. Both have transactions open across a pin, and
   the two halves meet in the proofs: `PinnedForever` fixes the rows of a quiet pin under the write
   path's waits and failures, `PinnedAnswersStay` every answer over such rows.
2. `Reads` as a refinement of a log whose rows are the commits of `BeliefLog`.
