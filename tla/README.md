# TLA+ models of lol-predictor

lol-predictor ingests match data of League of Legends, trains Elo ratings in a
walk-forward backtest, freezes a dataset that serves predictions, keeps an
official ledger of predictions, observes a betting market, and can transmit real
orders to the Polymarket CLOB. Almost all of its state is in files under `data/`
that separate processes (scheduled jobs, scripts, an operator's shell) read,
append to and replace. Few of these processes share a lock, and all of them may
raise or die between two writes. What can go wrong is therefore seldom inside one
function: it is in the order in which the files are read and written. That is
what the modules here model, what TLC checks on small instances, and what TLAPS
proves for all values of the constants.

Paths in the tables below are relative to the repository, in which `src/` is the
package; the modules and `PROJECT.json` put `src/` in front of them for the
repository itself (`src/src/freeze.py`).

## 1. Inventory

| Component | Source | State | Operations |
|---|---|---|---|
| Order execution | `src/execution_polymarket.py` | `orders.jsonl` (append only), a thread lock and a lock file | `submit_order`, `reconcile_order`, `cancel_order`, `order_view` |
| Snapshot ingestion | `src/data/ingestion.py` | `snapshots/<id>/`, `current.json`, `cache_state.json`, `.publication.lock`, `last_failure.json` | `ConditionalDownloader.fetch`, `SnapshotStore.publish`, `assert_fresh_snapshot` |
| Operational jobs | `src/operations.py`, `src/cli.py`, `src/jobs.json` | `.idem_state/*.json` | `ingest`, `publish-snapshot`, `backtest`, `publish-freeze`, `settle`, `health` |
| Collection archive | `src/collection_shadow.py` | `collection_archive/events.jsonl`, `latest_run.json`, quarantine | `archive_snapshot` |
| Dataset freeze | `src/freeze.py` | `backtest_manifest.json`, `freezes/<id>/`, `current_freeze.json` | `write_backtest_manifest`, `publish_freeze`, `load_current_freeze` |
| Walk-forward backtest | `scripts/backtest_walkforward.py` | `ratings.json`, `calibration.json`, `walkforward_summary.json` | `main` |
| Weekly refresh | `scripts/atualiza_semanal*.py`, `src/runtime_manifest.py`, `src/ingest_oracle.py`, `src/db.py` | `lol.db`, the files of the walk-forward, the runtime manifest | a fixed sequence of scripts |
| Serving | `src/services.py`, `src/predict.py`, plugin | none of its own | `PredictionService.predict` |
| Prediction ledger | `scripts/predict_ewc_opening.py` | `predictions.jsonl` (append only), thread lock and lock file | `register_pre_event`, `mature_results` |
| H4 cohort | `src/h4_gate.py`, `scripts/collect_polymarket_*.py`, `build_h4_results.py`, `settle_h4_signals.py`, `evaluate_h4_gate.py` | `h4_signals.jsonl`, `h4_results.json`, `h4_v2_closure.json`, `market_gate.json` | collect, build results, settle, evaluate, close or reopen |
| Bets and manual approval | `src/betting.py`, `src/manual_approval.py` | `bets.jsonl`, approvals | `record_bet`, `settle_bet`, `go_gate`, `require_manual_approval` |
| Elo model and ratings | `src/model.py`, `src/identity.py`, `src/calibration.py` | `ratings.json` and its lock file | `predict`, `update_ratings` |
| Holdout and archival collection | `src/holdout.py`, `src/collection_only.py` | immutable captures, `holdout/latest.json` | `collect_holdout`, `collect`, `health`, `promote_to_trial` |
| Draft shadow | `src/draft_shadow.py`, `src/draft_coverage.py` | observation files | validation, audit |
| Providers, database access | `src/data/*_provider.py`, `src/repositories.py` | none | HTTP parsing, SQLite queries |
| Governance and tooling | the other scripts | reports | one-shot analyses |

How they interact: `ingest` moves `current.json`; `publish-snapshot` archives the
games of the snapshot it names; `backtest` checks that the archive is accepted and
of that snapshot, runs the walk-forward, and seals in `backtest_manifest.json` what
it used and what it made; `publish-freeze` copies all of it into an immutable
directory and moves `current_freeze.json`; `predict` refuses to answer unless that
directory is what its manifest says. Beside this pipeline, the weekly refresh of old
set-ups downloads with the same store and runs the same walk-forward script on
`lol.db`. The prediction ledger and the order ledger read predictions and approvals
and are independent of the pipeline otherwise. The H4 cohort meets the weekly refresh in
two of its steps: the collector appends signals, and the refresh derives their results
from the games it has just ingested and settles them; the job `settle` settles them beside
it, without a lock. `ratings.json` has three writers: sessions that record matches with
`update_ratings` replace it under a lock, the weekly refresh and the job `backtest` rewrite it
in place without one. The bets log and the holdout are written by their own functions only.

The hard behaviours, and what correctness means for each:

* **Order execution.** Submissions from several processes race; a request or its
  reply is lost, late or unreadable; a process dies before or after it transmitted; the
  exchange may refuse to cancel. A bet must never be sent twice, whatever was sent must be
  on record before, and the ledger must not claim more than the exchange did.
* **Snapshot ingestion.** Two fetches publish at once; a process dies anywhere
  between making the directory and replacing the pointer; a validator may outlive the
  publication it came from. Readers must see whole snapshots that never go back, and
  no 304 may hide newer content.
* **Pipeline.** A dozen files are read by one job while another rewrites them, and
  files are hashed at one moment and copied at another. A freeze must be immutable,
  its ratings must come from its own snapshot without the reserved day, its archive
  and metadata must be its own, and serving must never go back to older games.
* **Prediction ledger.** Registration is a loop of appends that may stop halfway and be
  repeated with other ratings. A match has one prediction, made before it starts, and
  one result that repeats it.
* **H4 cohort.** A settlement rewrites a file that the collector appends to and that another
  settlement rewrites as well, and results are derived in one step and applied in another. What was observed must stay, an official
  result must be that of the right match and side and never change, the gate must count
  what its criteria say, and nothing may run that a human has closed.
* **Ratings.** Sessions that loaded the file at different times, and a refresh and a job that
  rewrite it without their lock. A match must count once, and a refresh that reports success
  must have regenerated what its manifest names.
* **Bets.** Read-then-append without a lock, and lines cut by a crash. A bet is settled once.
* **Holdout.** A run of minutes over a market that moves meanwhile, and runs that overlap. The
  pointer must name a capture that is there and say what it misses.

`PROJECT.json` lists these hazards at their lines, with the properties that would catch
them or the reason there is none; a note says so where the code does what the hazard names. Six smaller ones are only listed here: a fixture that
names one match twice registers it twice (`predict_ewc_opening.py:225`); a result without
`prediction_id` for a rematch scores the first match's prediction (`:295`); a torn last
line of `orders.jsonl` makes every later call raise (`execution_polymarket.py:204`);
an approval may expire while a submission waits for the lock (`:357`); an unreadable
`current.json` beside an intact `cache_state.json` is answered 304 until the source changes
(`ingestion.py:394`); `assert_fresh_snapshot` reads the pointer twice (`:271`).

## 2. Modules

| Module | Stands for |
|---|---|
| `OrderLedger` | `orders.jsonl` as a sequence of rows, and `order_view` |
| `OrderExecution` | the three calls, the lock, the network and the exchange |
| `BetPlacement` | abstract: what `submit_order` promises for a bet |
| `OrderPlacement` | the refinement mapping from `OrderExecution` to `BetPlacement` |
| `SnapshotHistory` | abstract: what readers of the snapshot store are promised |
| `SnapshotStore` | `fetch` and `publish`, step by step; refines `SnapshotHistory` |
| `FreezePipeline` | the jobs from the published snapshot to the served freeze; extends `SnapshotHistory`, so that it is built on the promise `SnapshotStore` is shown to keep |
| `PredictionLedger` | `register_pre_event` and `mature_results` |
| `H4Cohort` | the collector, the two H4 steps of the weekly refresh, the job that settles as well, the evaluation, the human record |
| `RatingsFile` | `update_ratings`, the whole weekly refresh and the job `backtest` around `ratings.json` |
| `PaperBets` | `record_bet`, `settle_bet` and `go_gate` |
| `Holdout` | `collect_holdout` with the Polymarket client it reads |
| `MCOrders`, `MCSnapshots`, `MCPredictionLedger` | instances for TLC: symmetry, fixtures |
| `MCShadow` | one instance of `H4Cohort`, `RatingsFile`, `PaperBets` and `Holdout`, each explored on its own |
| `NaturalSets` | facts about the least element of a set of naturals |
| `*Proofs` | the theorems of the module they extend |

Definitions introduced by a comment "Faulty variant" are forms of an operation with
a plausible bug. No specification uses them. They show that a property can fail:
with the variant in place of the operation TLC finds the property violated.

### OrderExecution

| Variable | Code |
|---|---|
| `orders` | the view `order_view` builds from `orders.jsonl`, for each local order |
| `lock` | `_ORDERS_LOCK` together with the lock file |
| `call` | the call each thread or process is in, with its local variables |
| `wire` | requests of `post_order` under way |
| `exchange` | the orders of the CLOB |

The ledger only grows and is only read through `order_view`, so the model keeps views
and not rows. `OrderExecutionProofs` proves that this is sound: appending a row changes the
view of its order as `Folded` says and no other view. `SubmitCall` stands for all the
layers before the lock (arguments, gate, approval, opt-in), which raise before they
touch anything; `SubmitReturnsExisting`, `SubmitResumes` and `SubmitFindsNone` are the
three outcomes of the idempotency check; then come the `order_created` row, the
`order_submitted` row, the transmission, and the row of its result or of its
exception. `reconcile_order` and `cancel_order` take no lock: they read the view, talk
to the exchange, and append, in three steps. In `CancelSend` the exchange cancels an open
order or answers that it did not; the code does not look at the answer, so that
`CancelRecord` follows either way. `Abort` is a death or an exception outside
the handlers. Terms (token, side, price, size) are abstracted to the size.

### SnapshotStore

| Variable | Code |
|---|---|
| `dirs` | how far each `snapshots/<second>-<digest>/` has been written |
| `pointer` | `current.json` |
| `cache` | `cache_state.json` |
| `lock` | `.publication.lock` |
| `fetch` | each process in `fetch`, with attempt, validators, and content in hand |
| `upstream`, `clock` | the sources and the system clock |

Content is the last day it covers and which file with that day it is. An ETag stands for
the content it was answered with; ETag and Last-Modified are one validator. Comparing,
writing the cache, taking the lock, checking again, making the directory, writing
payload and metadata and moving the pointer are separate steps, any of which may fail
(and be retried in the same second) or be the last before a death. Replacing the
pointer and releasing the lock are one step; validation of the CSV, back-off times and
`last_failure.json`, which nothing reads, are left out.

### FreezePipeline

| Variable | Code |
|---|---|
| `current` | the snapshot `current.json` names (from `SnapshotHistory`) |
| `archive`, `report` | `events.jsonl`, `latest_run.json` |
| `ratings`, `summary` | `ratings.json`; `calibration.json` with `walkforward_summary.json` |
| `manifest`, `processed` | `backtest_manifest.json`; `.idem_state/backtest.json` |
| `freezes`, `serving` | `freezes/<id>/`; `current_freeze.json` |
| `job` | how far each job is, with its locals |

A hash is the thing it is taken of, so that "the file is what the manifest says" is
equality. What a derived file was computed from (a snapshot without its last day, or
`lol.db` with it) is its value. Sessions of `update_ratings`, which replace `ratings.json` too
(`model.py:279`, `services.py:87`), are not in this module but in `RatingsFile`. Each job is a
sequence of the reads and writes in which another job could come between; `Overlap` says
whether it may. `Fail(j)` is a
death or an exception of a job after any step. The scheduled tasks start no second
instance of a task that is running (`migration/windows/*.ps1`: a lock for each task,
`MultipleInstances IgnoreNew`), so the model has one instance of each job.

Simplifications: configuration, identity registry, governance files and code are
constant and not represented; freshness is one of the reasons for which a job may
fail; each file of the walk-forward is written in one step; the verification in
`publish-freeze` and the check of report and archive in `backtest` are one step each,
as is a copy; the state files of `publish-snapshot` and `publish-freeze`, which no job
reads, are left out.

### PredictionLedger

| Variable | Code |
|---|---|
| `ledger` | `predictions.jsonl` |
| `lock` | `_LEDGER_LOCK` together with the lock file |
| `call` | each process in `register_pre_event` or `mature_results` |
| `clock` | the system clock |

`RegisterReads` is the first loop (which matches are new, has each not begun),
`RegisterAppends` one pass of the second loop, `RegisterRaises` its comparison of a
prediction's horizon with the variable that the first loop left behind.
Probabilities are a function of match and ratings, so a row keeps the hash of the
ratings; results are read entry by entry, any of which may be recorded; scores and
Brier values are left out. `FixturesAssumption` says that a fixture lists a match
once, since fixtures are reviewed by hand. An append is atomic.

### H4Cohort

| Variable | Code |
|---|---|
| `now` | the system clock |
| `closure` | `data/h4_v2_closure.json`; `decided` remembers what a human last wrote in it |
| `games` | the complete games of `lol.db` |
| `signals` | `data/shadow/h4_signals.jsonl` |
| `results` | `data/shadow/h4_results.json`, by match |
| `collector` | each run of `collect_polymarket_upcoming.py` |
| `weekly` | `build_h4_results.py`, then `settle_h4_signals.py`, as steps of the refresh |
| `settlement` | each `settle`, that of the refresh and that of the job `lol-settlement`, with the results and rows it has read |
| `evaluator`, `gate` | `evaluate`, and the signals `market_gate.json` was computed from |

`ListUpcoming`, `FetchMatch` and `AppendOnce` are the loop of `collect`; the record of the
human decision is read once, at its start. `append_once` reads, compares and appends under
the lock of the file and is one step. `BuildReads` and `BuildWrites` are the two ends of
`build_h4_results.main`; `BuildFails` may leave the file torn, since `write_text` is not
atomic, and the refresh goes on to the settlement all the same. `SettleBegins` (the results),
`SettleReads` (the rows) and `SettleReplaces` are the steps of `settle`, which takes no lock, so
that everything may happen between them, the other settlement included: `SettlementJobs`
says whether the refresh settles alone or the job `lol-settlement` (`jobs.json:39`,
`operations.py:248`) runs beside it. `EvaluatorChecks` is `cohort_status` as `evaluate` calls it, and
`PublishGate` the figures, from a second reading. `captured` and `exposed` are history: what
was ever appended, and what was appended while a settlement held older rows. A signal keeps
its match, side and instants; probabilities, odds and the bootstrap are left out, and so is
the archive of raw observations, which no code reads.

### RatingsFile

| Variable | Code |
|---|---|
| `file`, `fileLock` | `data/ratings.json` and `ratings.json.lock` |
| `handle` | the file as the walk-forward of the refresh and that of `backtest` have it open |
| `session` | each `EloModel`, with its ratings, `_persistable` and the update it is in |
| `snapshot`, `database` | versions of the games in the current snapshot and in `lol.db` |
| `refresh`, `exit` | `main` of the weekly refresh, with the exit code so far; its result |
| `manifest` | `data/runtime_artifacts.json` |

A rating is what it was computed from: a version of the games, with or without their last
day, and how often each update was applied since. `UpdateReads` is everything up to the rebase
under the lock, `UpdateReplaces` the change and the atomic replacement, `UpdateReturns` the
rest. Between these two the process may end (`SessionEnds`), and the call may then be
repeated; `UpdateFails` is a write that raises after the session was changed. The two
walk-forwards take no lock and write in place (`Path.write_text`): `Opened` truncates the
file, `Written` fills it. If an update has replaced the name meanwhile, what they write goes to
a file that no name leads to (`orphan`); if both have the same file open, the shorter text
leaves the end of the longer one (`over`). Each may fail anywhere (`GivenUp`). The payload that
`backtest` works on may have been current some time before. `CheckRatings` is `ratings_valid`,
`HashRatings` the first hash of the manifest, `PublishManifest` the rest. Every step of the
refresh may fail and the next one runs. `done`, `recent`, `failed` and `displaced` are history.

### PaperBets

`bets` is `bets.jsonl`, line by line, with lines that a death left torn and lines that were
appended to those; `settler` is each call of `settle_bet` between its reading and its append.
The branch of `record_bet` for real bets is there and is never taken, since `GoGate` answers
NO-GO for every content of `market_gate.json`; `require_manual_approval`, which comes after
it, is therefore not modelled. The stake of a bet and the profit of a settlement are left out.

### Holdout

`run` is each call of `collect_holdout`: `Begin`, `CopyPayload`, `Discover`, then `ReadEvent`
and `ReadBooks` for each match listed (the requests of `fetch_match`, between which the market
may move the match), `WriteCapture` and `ReplaceLatest`. `copies`, `captures` and `latest` are
the files under `holdout/`. The market is external: any match may start at any hour whenever
it is asked.

## 3. Runs

| Run | Bounds | States | Shows |
|---|---|---|---|
| `orders_two_bets` | two bets, two callers, one size | 0.48 million | no bet is sent twice; what was sent is on record; ids do not mix; `BetPlacement` is implemented |
| `orders_one_bet` | one bet, three callers, two sizes | 0.28 million | late or unreadable replies never overstate a fill; terminal means closed; the lock is released |
| `orders_terminal_race` | one bet, two callers | stops early | **violated**: a terminal view changes (finding 1) |
| `orders_resumed_terms` | one bet, one caller, two sizes | stops early | **violated**: RECONCILED while open (finding 2) |
| `snapshots` | two processes, one source, two contents, two seconds, two attempts | 0.81 million | pointers to whole snapshots, covered validators, immutability; `SnapshotHistory` is implemented |
| `pipeline_serial` | two contents, two games, three reports, two manifests, all four jobs in sequence | 1.6 million | a published freeze loads, and its parts belong together |
| `pipeline_overlap` | two contents, one game, two reports, two manifests, three jobs that interleave | 1.6 million | what is served is out of sample and canonical; freezes are immutable; serving never goes back; a backtest that skips leaves what `publish-freeze` accepts |
| `pipeline_rerun` | one content | stops early | **violated**: a good archive is refused (finding 3) |
| `pipeline_weekly` | one content, with the weekly refresh | stops early | **violated**: in-sample ratings are served (finding 4) |
| `ledger` | two processes, three matches (a rematch), two ratings, five instants | 1.7 million | one prediction before the match and one result that repeats it |
| `ledger_horizon` | one process | stops early | **violated**: a false complaint refuses a fixture (finding 5) |
| `shadow` | seven explorations side by side, below | 1.3 million | the cohort, the ratings, the log of bets and the holdout keep what they promise |

Why the bounds are enough to be interesting. A race on one order needs two callers, a
third one lets a reconciliation overlap with both; mixing of ids needs two bets; a
resumption with other terms needs two sizes. Regression of content needs two days,
collision of directories two publications in a second, stale validators two processes
and a source that goes back. Rejection of part of a run needs two games; going back needs
two manifests; a repeated run and a run of another snapshot need three reports. The
ledger needs a rematch (same teams, two starts), two ratings for a changed
`prediction_id`, and instants before, at and after each start and horizon. The bounds
are named: `MaxAttempts` is the code's own; `MaxReports`, `MaxManifests` and `MaxTime`
bound what grows for ever. Beyond the bounds the theorems of section 5 take over.

**The run `shadow`.** The cohort, the ratings, the bets and the holdout share no file, so the
initial state chooses a `subject` and only that one moves. With all their processes the
cohort and the ratings are too large for one exploration, so each is explored with one
combination of processes at a time:

| Subject | Processes | Restrictions |
|---|---|---|
| `weekly` | collector, weekly refresh, evaluation, humans | the job does not settle; no match is listed or fetched once both began (`now >= 3`) |
| `settlements` | collector, weekly refresh, job `lol-settlement` | until the first match begins (`now <= 2`), no settlement before that instant, no listing at it, no damaged record; no match is mature, so nothing is evaluated |
| `sessions` | two sessions with two updates, job `backtest` | no refresh, one version of the games |
| `refresh` | weekly refresh, job `backtest`, one session with one update | one version of the games; no update fails in the middle |
| `versions` | weekly refresh, one session with one update | two versions of the games, no `backtest` |
| `bets` | two settlers, two bets | three lines (`MaxRows`) |
| `holdout` | two runs, two fixtures | three hours (`LastHour`), `MaxCaptures` captures |

What a subject leaves out is left to the theorems, which know no such restriction.
`Sides`, `Sessions`, `Settlers` and `Runs` are the same two model values, each in a component
of its own, which lets one permutation serve as symmetry for all of them.

*The H4 cohort.* Two matches of the same teams an hour apart, of two competitions; at most
`MaxCaptured` signals and `MaxGames` games, which may be corrected, and `LastInstant`. A human
decides only before `MaxUndecided` signals, and the record is damaged only before the first
and while no collection runs. A match listed twice, a rematch inside the window of
`series_result`, a second week, and two settlements that hold different results and rows all
occur. What the properties say and leave out:

* `LostOnlyToSettlement`: a signal that was appended is still there, unless it was appended
  while a settlement already held the rows it would write back. The code does lose those,
  although `docs/H4_COHORT_CONTRACT.md:38-39` says that what was captured is never altered;
  the property shows that no others are lost, also with two settlements.
* `NoResultBeforeStart`: `series_result` happily gives a match that has not begun the games of
  an earlier series; the date check of `settle` is all that keeps it out of the cohort, at the
  price of failing the whole settlement until the match begins. Once the match has begun, and
  while only the earlier series is in the window, its winner is taken for an official
  result; no property excludes that, because the code does it.
* `ResultFollowsSelection`: the official result of a match observed once says whether its
  side is the winner that was built. For a match observed twice with opposite sides the results
  file, keyed by match, gives both the result of the last; such a cohort is DATA_QUALITY_BLOCKED.
* `GateCountsEnough`: the gate has enough matches and competitions, all settled, although it is
  computed from a second reading, as long as no settlement put an official row back
  (`undone`). A single settlement never does (theorem `OneSettlementUndoesNothing`); two may.
* `DecisionIsHonoured`: a damaged or deleted record opens nothing.

*The ratings.* Two teams, one of which has no game in the first version of `lol.db` and lives
on in the file only; versions (`Versions`) are published by the refresh or by the job `ingest`.
A write of an update fails once, and only before any other call failed.

* `EachUpdateCountsOnce`: an update written since the file was regenerated is in both teams'
  ratings exactly once, unless a call for it ended without returning after it had changed the
  session (`model.py:275`, the write raises) or the file (`model.py:96`, the process ends).
  Repeated, such an update is counted twice: nothing identifies a match.
* `SuccessMeansRefreshed`: exit code 0 or 10 means that the manifest's ratings come from the
  manifest's database, unless another writer displaced them between the walk-forward and
  their hash (`displaced`): `backtest` opened or wrote the file, or an update put back what it
  had read before. A writer that comes earlier is no excuse, nor is an update that builds
  upon the new file.

*The bets and the holdout.* Three lines are the fewest in which a bet, its settlement and
another line meet.

* `SettledTwiceOnlyByOverlap`: a second settlement of a bet comes only from a call that read
  the log before the first was in it. Calls that overlap do record both.
* `LatestIsComplete`: the pointer names a capture and a payload that are there and says
  COLLECTED only if every listed match has a quote. It may go back to an older capture
  through a run that was overtaken; nothing reads it to decide anything.

The runs of order execution set `GoGate = "GO"`: `go_gate` says NO-GO on every path
today, which makes the module inert (theorem `InertBehindTheGate`), and what is
worth checking is what happens once it opens.

Deadlock is checked in every run but `shadow`, where the clocks, the signals, the updates, the
log of bets and the captures end at their bounds.

**Fairness.** Only `LockIsReleased` needs it, and the only assumption is weak fairness
of the steps of a call that is running (`CallStep`): a call of the exchange library
returns or raises in the end, and a process that is not dead goes on. Nothing is
assumed of the network, the exchange or the start of new calls. The other properties
are safety properties, checked without fairness.

**What holds only without overlap.** `jobs.json` gives no two jobs a common lock, so
that `pipeline_serial` describes a discipline of the operator. If an ingest falls between two
looks at the pointer, `publish-snapshot` files the games of one snapshot under
another, and `backtest` seals the metadata of another snapshot than its payload; if
anything rewrites an artifact between verification and copy, a freeze is published
that never loads, and cannot be repaired because copies are immutable.
`EnvelopesNameTheirSource`, `MetadataBelongToPayload`, `SealedRunIsOfTheSnapshot` and
`PublishedFreezeLoads` are therefore checked in the serial run only; the properties of
what is actually served hold with overlap as well, as long as neither the weekly refresh nor
a session of `update_ratings` writes the ratings beside `backtest`. An ingest cannot fall
between two looks in a serial run: `EnvelopesNameTheirSource` and `MetadataBelongToPayload`
say nothing about those two hazards, which `PROJECT.json` lists without a property.

`SkippedIsAsSealed` (a backtest that skips leaves files that `publish-freeze` accepts) needs
more: it holds with overlap and failures anywhere, but only as long as the weekly refresh is
not one of the jobs, be it in sequence. `backtest` skips when its input is the one it has
processed and its outputs merely exist (`operations.py:178`). A refresh that rewrote
`ratings.json` since then leaves it skipping, while `publish-freeze` compares the file with
the manifest and raises, until the next run of `publish-snapshot` writes another report.
TLC shows this when `"weekly"` is added to `Scheduled`. Nothing wrong is served
meanwhile; it is freshness that suffers.

## 4. Findings

1. `reconcile_order` and `cancel_order` test for a terminal state, talk to the exchange
   without a lock, and then append: a CANCELLED order becomes ACCEPTED again, where the
   documentation promises a no-op (`orders_terminal_race`).
2. An order resumed from CREATED with other approved terms keeps the size of its first
   row; a partial fill of the larger order is read as complete and recorded RECONCILED
   while the order is still open (`orders_resumed_terms`).
3. `publish-snapshot` repeated on one snapshot leaves a report with nothing accepted, and
   `backtest` refuses an archive that the documentation calls acceptable
   (`pipeline_rerun`).
4. The weekly refresh rewrites `ratings.json` while `backtest` is about to seal it; ratings
   that have seen the reserved day are served (`pipeline_weekly`).
5. The second loop of the registration uses the `scheduled_at` the first loop left behind,
   and refuses fixtures with matches on different days (`ledger_horizon`).

Four more behaviours of the code are in the models but are not refuted by a run: the
properties leave them out by name, and `PROJECT.json` lists them as hazards with a note.

* `cancel_order` records CANCELLED whatever the exchange answered
  (`execution_polymarket.py:559-570`). An order that the exchange did not cancel stays open,
  and as CANCELLED is terminal neither a reconciliation nor another cancellation asks again.
  `ReadAsClosedMeansClosed` is about the other terminal states.
* The job `lol-settlement` (`jobs.json:39-45`, `operations.py:248`) and the weekly refresh settle
  the same file without a lock. The one that read older rows and results puts a row that the
  other made official back to PENDING, and a later week may settle it otherwise, although
  `settle_h4_signals.py:43` says "correção de resultado exige nova coorte".
* `evaluate` judges the cohort on one reading (`h4_gate.py:404`) and computes the gate from
  another (`:407`). When two settlements undo each other in between, the gate is published with
  the status READY_FOR_EVALUATION and fewer matches or competitions than that requires.
* The weekly refresh takes a recent `ratings.json` for its own (`atualiza_semanal_payload.py:164`)
  and hashes it later. `backtest` (`backtest_walkforward.py:259`), or an update that was under
  way, may write the file in between, and the refresh reports success with a manifest of
  ratings that are not those of its database.

## 5. Proofs

All theorems are of the form `Spec => ...` for arbitrary constants that satisfy the named
assumptions (numbers are naturals, `None` is none of the values it stands beside, the
sets of games and matches are finite, a fixture lists a match once). Four groups have a
hypothesis besides, stated in the theorem and explained below, because the code keeps
the property in no other case. In each module an inductive invariant carries them:
`Init => IInv`, every action keeps it (one lemma for an action or a small group), and the
properties follow. The invariants stand at the end of the module of their component, where
TLC can check them too. Every safety and action property of the passing runs is proved but two of the serial
pipeline, which follow at once from the invariant proved there; the `TypeOK` of the run
`shadow` is the conjunction of four type theorems.

* **`OrderExecutionProofs`**, about the functions that read the ledger: `RowFoldsIntoView`,
  `OtherViewsUnchanged`, `FirstView`. By them a ledger can be kept as views.

  About the calls: `TypeCorrect`, `PlacedAtMostOnce`, `IdsAreTheirOwn`,
  `WrittenAhead`, `InertBehindTheGate`. "No bet is sent twice" is not inductive: one must
  know that whoever is past the idempotency check holds the lock (`LockProtects`), that a
  bet has one local order (`OneOrderPerBet`), that a caller about to transmit speaks of
  the order of its own bet, which is out of CREATED while nothing of it is under way
  (`SubmissionLocals`), and that everything on its way or on the exchange belongs to an
  order that left CREATED (`SentIsCommitted`), so that no later call resumes it.
  `InquiryLocals` keeps the unlocked calls from writing CREATED back.

  About fills: `FillsAreNotOverstated`, `TerminalIsClosed`, by a second invariant `FillIInv` on
  top of the first. Knowledge of the exchange passes through three hands, and what it says
  must still be true in the last: the order on the exchange (`ExchangeFits`), the
  reply or the answer that a call has not recorded yet (`ReplyFits`, `AnswerFits`), the view.
  It stays true because fills only grow and what is closed stays closed. Both properties
  speak of orders whose view has the size that was sent; finding 2 is about the others.
  `TerminalIsClosed` is about the terminal states that an answer of the exchange gave
  (`ReadAsClosed`); the CANCELLED of `cancel_order` is not one of them (section 4).
* **`OrderPlacementProofs`**: `PlacementImplemented`. Each step claims, commits, sends or
  loses one bet, or leaves all stages alone.
* **`SnapshotStoreProofs`**: `StoreTypes`, `PointerAlwaysComplete`, `TagsAlwaysCovered`,
  `CompleteStaysImmutable`, `HistoryImplemented`. A process that is publishing holds the
  lock (`OneHolder`); what it has in hand still fits what is published, and its directory
  is as far as its program counter says (`FetchLocals`); nothing is dated in the future
  (`PublishedInThePast`), which is why a directory of the present second is never that of
  the published snapshot.
* **`PredictionLedgerProofs`**: `TypeCorrect`, `RegisteredOnce`, `NeverAfterTheStart`,
  `ResultsKeepPredictions`, `RecordedOnce`. What is still to be appended has no row and
  had not begun (`RegistrationLocals`), and who matures knows all results
  (`MaturationLocals`), because nobody else holds the lock (`OneHolder`).
* **`FreezePipelineProofs`**, with overlap and failures anywhere: `Typing`,
  `SealedIsCanonical`, `Immutability`, `NoGoingBack`. A run that accepted a game has an envelope
  (`RunsAreBacked`, which also bounds the count of accepted games by the games left), a
  backtest past its check and every manifest have an archive with a game of their own
  payload that is still part of the growing archive (`BacktestIsBacked`, `Fits`);
  freezes of later manifests are empty, seals state the payload of their manifest, and
  payloads are ordered: served, being published, last manifest, running backtest,
  published snapshot (`ManifestsFit`). The last chain gives `NoGoingBack`: a slow
  publication still holds a manifest that ends no earlier than what is served.

  If the weekly refresh is not scheduled or no jobs overlap, and no session updates ratings
  (this module has none): `ServedIsOutOfSample`. A manifest
  takes its ratings from the disk, so that one must know that between the walk-forward and
  the seal the file is what this backtest wrote (`SampleIInv`). The run `pipeline_overlap` shows
  the first case, the theorem both; finding 4 is the remaining one.

  If no jobs overlap: `ServedLoads`, `SealedRunIsAccepted`. What is read twice was not replaced in between (`RunReadsOnce`,
  `BacktestReadsOnce`), and a publication finds the files as its manifest states them at each
  copy (`CopiesFit`). The delicate part is the freeze of a failed publication, which
  keeps the files it has: a repetition accepts them only if they are those of its own
  manifest, and a sealed one stays as it is (`SealsFit`).

  If the weekly refresh is not scheduled: `SkippedStaysPublishable`. Inputs come in an order, as
  reports are replaced by later ones and the archive grows (`Precedes`), so that an input that
  is found again was there all the time, and no other run has sealed since (`SkipIInv`).
* **`H4CohortProofs`**, with one settlement or two: `CohortTypeCorrect`, `SignalsAreKept`,
  `ResultsFollowTheStart`, `ResultsAreOfTheSelection`, `DecisionsAreHonoured`.
  `SettlementHolds` is the heart: a settlement that is about to rewrite the file has all that
  was captured but what was exposed to one. `RowsFit` and `ResultsFit` follow a result from the
  games through the file and the hands of both settlements to the rows of two weeks.

  `GateIsFounded`: `EvaluationStands` bridges the two readings of `evaluate`; while nothing was
  undone, whatever the first counts as official is still there in the second.

  If the weekly refresh alone settles (`"job" \notin SettlementJobs`):
  `OneSettlementUndoesNothing`, because its settlement holds everything that is official
  (`OfficialIsHeld`). Section 4 says what happens otherwise.
* **`ShadowProofs`**, for the other three components. Ratings, with sessions, refresh and
  `backtest`: `RatingsTypeCorrect`, `UpdatesCountOnce`, `SuccessIsRefreshed`. A session that
  holds the lock has every update that the file must not lose (`LockedHasRecent`), and an update
  that changed nothing yet is in no rating (`NewIsUnapplied`), so that it is not counted twice; a
  refresh without a failed step has the ratings of its database until the hash, unless they were
  displaced (`RefreshGoesWell`), and what it writes into a file that was replaced counts as
  such. Bets: `BetsTypeCorrect`, `OnlyOverlapSettlesTwice`, by what a call that is about to
  append has read (`ReadIsUnsettled`). Holdout: `HoldoutTypeCorrect`, `PointerIsComplete`, with the
  partition of the matches listed into quotes, errors and those left (`RunLocals`).

Only model-checked: `LockIsReleased`, which is a liveness property, and the five violations,
which are counterexamples. Liveness, ENABLED, induction over data and RECURSIVE operators are
out of the reach of the installed prover; no module needs a recursive operator.

## 6. Not modelled, and the plan

Not modelled on purpose: floating-point arithmetic of the Elo model and of calibration,
stakes and profits, parsing of CSV, HTTP and JSON, SQL, wording of reports and messages, torn
writes within one file other than `bets.jsonl`, `ratings.json` and `h4_results.json`, and the
scripts that analyse once and keep nothing.

Not modelled, for lack of behaviour that a model could tell apart: `manual_approval.py` (behind
a gate that is always NO-GO), `health` of `operations.py` (reads and reports),
`collection_only.py` (one call normalizes events into a file of its own), the archive of raw
observations and `attach_model_snapshot` (which hashes the ratings after it has read them, a
label that nothing compares), `draft_shadow.py` and `draft_coverage.py` (pure validation),
the providers of PandaScore and Riot, and `_download_csv_legacy`, which nothing calls.

Planned, in this order:

1. An abstract specification of the cohort (a signal is observed once, settled once, and stays)
   that `H4Cohort` implements when settlements and collections do not overlap.
2. A liveness statement for the scheduled jobs: new games are served in the end, if the jobs
   run again and again and, from some time on, do not fail.

To check: `tlc -config <run>.cfg <Module>` for a run, `tlapm <Module>.tla` for the proofs.
