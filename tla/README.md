# Eiswein: a verification project

TLA+ models of Eiswein (FastAPI backend, SQLite, APScheduler, yfinance and Schwab
clients, React frontend), checked with TLC on small instances and, for the safety
properties that matter most, proved with TLAPS for every instance. Paths below are
relative to `src/backend/app/` unless they start with `src/`.

The models cover what is hard to test in this program: several threads and
coroutines that share one database, one mutex and a few module-level
dictionaries; a process that may die between two transactions; wall-clock and
market-calendar boundaries; a third party that rotates the token it is sent; and
judgements (indicators, verdicts, grades, a simulated account) that several pieces
of code compute separately from the same tables.

## 1. The system

One Python process serves everything. Its asyncio event loop runs the `async def`
handlers, the scheduled jobs and the daily update; `def` handlers run on a thread
pool; onboarding and revalidation runners are `threading.Thread`s, each with an
event loop of its own where it downloads. SQLite is the only durable store. Once a day
the update downloads bars, computes 22 indicators with a tone, composes the tones into verdicts
of two horizons per ticker and for the market, extends the posture streak, syncs the
catalyst calendar and mails a digest; read routes chart, grade and simulate what is stored.

| Component | State it keeps | Operations | Interacts with | Modules |
|---|---|---|---|---|
| watchlist routes (`api/v1/watchlist_routes.py`) | `watchlist.data_status`; per-user locks | POST inserts `pending` and starts an onboarding, DELETE cancels and removes | onboarding, job board | SnapshotJobs |
| ticker onboarding (`services/symbol_onboarding_service.py`, `ingestion/backfill.py`) | a runner thread per ticker | `start`, `_run_with_lock`: cold start, gap scan, one transaction per day, cancel check between days | mutex, job board, price rows | SnapshotJobs, PriceBars |
| revalidation (`services/backfill_service.py`) | a runner thread | `revalidate_all_snapshots`, per-day delete and recompute, streak rebuild | mutex, job board, snapshots, streaks | SnapshotJobs, PostureStreak, IndicatorRows |
| job board (`db/repositories/backfill_job_repository.py`, `api/v1/admin_routes.py`) | `backfill_job` rows | create, `update_state`, `increment_progress`, `request_cancel`; polled by the frontend | both services, startup sweep | JobBoard, SnapshotJobs |
| snapshot write mutex (`services/snapshot_write_mutex.py`) | one `threading.Lock` | acquired by every writer of snapshot rows | all of the above, daily update | SnapshotJobs |
| daily update (`ingestion/daily_ingestion.py`, `jobs/daily_update.py`) | locals of one coroutine: session day, tickers, gaps | read gaps, download, upsert per ticker, compose under the mutex, sync, mail | data sources, mutex, streaks, digest | one phase in each module of what it writes |
| price bars (`db/repositories/daily_price_repository.py`, `datasources/yfinance_source.py`, `ingestion/persist.py`) | `daily_price` rows with `updated_at`; parquet files per UTC day | gap and partial-bar detection, bulk download with cache, running bar, upsert | daily update, cold start | PriceBars |
| posture streak (`db/repositories/market_posture_streak_repository.py`, `ingestion/streak_rebuild.py`) | `market_posture_streak` rows | `record_posture`, `rebuild_streak_table` | daily update, revalidation | PostureStreak |
| process lifespan (`main.py`) | - | orphan sweep, seed of the users table, startup catch-up, scheduler start and stop | job board, scheduler | SnapshotJobs, Digest, Credentials |
| Schwab session (`services/schwab_session.py`, `jobs/schwab_token_refresh.py`) | `_token_cache`, `_user_locks` | `get_or_refresh_access_token`, clear on disconnect; a job every 20 minutes | token endpoint, credential store | SchwabSession |
| Schwab routes and store (`api/v1/broker_routes.py`, `datasources/schwab_oauth.py`, `db/repositories/broker_credential_repository.py`) | `broker_credentials` row | start, callback, test, disconnect; token endpoint with three attempts | Schwab | SchwabSession, Credentials |
| scheduler (`jobs/scheduler.py`) | cron triggers, an inter-process `flock` | start, stop, run jobs | every job | Digest |
| maintenance jobs (`jobs/backup.py`, `vacuum.py`, `token_reminder.py`, `intraday_vix_refresh.py`) | files, metadata markers | nightly backup with retention, vacuum, expiry mail, VIX refresh | database, SMTP, FRED | Backups |
| email digest (`jobs/email_dispatcher.py`, `ingestion/daily_ingestion.py`) | a once-a-day marker | render and send | daily update, SMTP | Digest |
| login and throttling (`security/login_throttle.py`, `api/v1/auth_routes.py`) | audit rows | count failures in a window, lock out | - | LoginThrottle |
| signals (`signals/`) | snapshots | decision tables over tones | compose, pages | Votes, Verdicts |
| indicators (`indicators/`, `ingestion/indicators.py`) | daily signal rows | arithmetic over frames cut at a day | signals, revalidation | Indicators, IndicatorRows |
| catalyst calendar (`ingestion/calendar_sync.py`) | calendar event rows | merge three sources, purge, operator's paste | daily update, watchlist | Catalysts |
| groups and tags (`api/v1/watchlist_group_routes.py`, `watchlist_tag_routes.py`) | group, tag and label rows, `group_id` | create, rename, reorder, delete, file, attach, detach | watchlist | Shelves |
| chart pages (`api/v1/_indicator_series.py`, `_market_series.py`) | none | window, headline and "current" block per indicator | price and macro rows | Charts |
| grading and simulation pages (`api/v1/history_routes.py`) | none | accuracy, baseline, event study, split, P&L with robustness grid | snapshots, price rows | Accuracy, Backtest |
| credentials (`main.py`, `src/scripts/bootstrap.py`, `set_password.py`, `uninstall.sh`, `rotate_secrets.py`, `reset_password_offline.py`) | `.env`, `users`, ciphertexts | wipe, install, edit, uninstall, seed, change, reset, rotate | Schwab row | Credentials |
| other read routes, middleware, migrations, frontend | - | queries, request checks, schema, views | - | none |

### What makes each part correct

* *Snapshot writers.* One at a time; a revalidation never beside another job; a job
  row active exactly while a thread works for it; a finished job stays finished;
  progress adds up; every job ends; an onboarding that reports success left no
  hole, although the daily update adds dates while it waits and runs.
* *Job board.* Whatever the threads do, a polling client sees one life cycle.
* *Posture streaks.* A streak row for each snapshot, of the same posture, with the
  right length, after re-runs, late updates, interrupted and finished
  revalidations, across days without a session.
* *Price bars.* A bar written during its session is recognised and replaced; a bar
  the freshness check trusts is final; an update leaves no settled hole behind.
* *Schwab session.* One refresh per user at a time; a rotated token is never lost
  except to a failure; a dead credential is dropped; a disconnected one stays
  away; callers always return.
* *Indicators and charts.* A day judged again gives what was judged then; the chart of
  a day never contradicts the stored tone of the same bars.
* *Verdicts.* A worse vote never makes a better verdict; the horizons of a ticker never
  advise the opposite of each other; a page adds up to the verdict beside it.
* *Grading and simulation.* A grade once given stays; samples compared with each other
  are of the same days; the simulated account balances to the last unit, through partial
  sales and re-entries, and stops hold.
* *Digest.* Mailed once a day, whoever runs the update and however often.
* *Backups.* Of the backups that passed their check the newest survive.
* *Login.* No more bad guesses in a window than the threshold allows.
* *Credentials.* The password that works is the one last set in the database the server
  works on, which is not always the one last written to `.env`; a rotated key covers what the old one covered.
* *Calendar sync, groups, tags.* A source that fails loses nothing; no row refers to a
  group or tag that is gone.

### Hard behaviours

Interleavings of threads and coroutines around awaits; exceptions under the mutex and
in the recording of that exception; a crash between any two transactions and the
sweep at the next start; a cancel that arrives late; DELETE between two steps of a
running job; a lost reply whose request was processed; a failed database write after
an irrevocable rotation; a lock dropped from its registry while held; session days
read before and used after a download; New York days against UTC days; a mail sent
before the commit that marks it; checks of overlapping requests that each pass; data
that arrives after the day it is dated; the same rule written out twice.
`PROJECT.json` lists each at its line under `hazards`, with the property that
would catch it or the reason why none does.

## 2. The modules

```
JobBoard <--(refinement)-- SnapshotJobs <-- MCSnapshotJobs   (jobs live)
SchwabSession  <-- MCSchwabSession (session returns resurrect)
PriceBars      <-- MCPriceBars     (bars short)
Calendar <-- PostureStreak <-- MCPostureStreak (cancelled)

Selection <-- Indicators <-- Charts <-- IndicatorRows \
Selection <-- Accuracy                                 MCSignals  (signals lookahead)
Votes <-- Verdicts -----------------------------------/

Backtest  Accuracy  PostureStreak  Digest  Backups  LoginThrottle  Credentials
Catalysts  Shelves  <-- MCPlatform (platform rotation)

proofs, on NumberLemmas:
  SnapshotJobs_proofs  SchwabSession_proofs  PriceBars_proofs
  Signals_proofs   of Verdicts and IndicatorRows, and of MCSignals
  History_proofs   of Backtest, Accuracy and PostureStreak
  Jobs_proofs      of Digest and Backups
  Tables_proofs    of Credentials, Catalysts, Shelves and LoginThrottle, and,
                   with the two before it, of MCPlatform
```

Each component module has its state, `Init`, one action per handler or per stretch
between two commits (threads) or two awaits (coroutines), `Next` and `Spec`, and
its properties at the end. Operators that only a mutant uses are marked
"Mutant:" and stand before the definition they are a variant of. `map` in
`PROJECT.json` gives the lines behind each definition.

`MCSignals` and `MCPlatform` extend several components that share no state: each behaviour is the
behaviour of one of them (`part`), and the variables of the others stay as they start. The properties checked
are the components' own. That nothing is lost by it is a theorem: `PartsBehaveAsAlone` and `SignalsBehaveAsAlone` show
that the composed specification implies each component's, so what is proved of a component holds of the whole.
The components extended there carry their name in `DigestInit`, `VerdictNext`, `RowsTypeOK` and the like.

`Selection` has the rows a query or a filter keeps, in order (`Selected`), written by their ranks: row `k` is at the position
with `k` kept positions up to it. The standard `SelectSeq` says the same by recursion, which the provers cannot follow.

### SnapshotJobs

The onboarding threads, the revalidation thread, the daily update, the handlers that
create, cancel and outlive jobs, the crash of the process and its restart.

| Variable | In the program |
|---|---|
| `jobs`, `nextJob` | the `backfill_job` table and its primary key |
| `status` | `watchlist.data_status`, `absent` without a row |
| `market`, `ticker` | dates that have a `market_snapshot` / `ticker_snapshot` row |
| `up`, `mutex` | the process serves; holder of `snapshot_write_mutex` |
| `pc`, `todo`, `target` | a runner thread's location and its locals (forgotten when it leaves) |
| `adding` | POST /watchlist between its commit and `SymbolOnboardingService.start` |
| `removal` | the DELETE request between its read and its commit |
| `daily` | the daily update: phase, session day, ticker list read at its start |
| `today`, `used` | the last trading day; how much of each bound is spent |

`LoopFree` is the event loop: a handler on it runs to its next await alone, and
none runs while the daily update, itself on the loop, blocks on the mutex
(`waiting`) or computes under it. Runner threads and the pool thread of DELETE
interleave freely. An exception releases the mutex and takes the thread to
`unhandled`, where the failure is recorded in a new session; if that raises too, the
code suppresses it and the thread is `lost`: the job stays active until the next
start.

Abstractions: what a day computes is reduced to which rows it writes; the check
for an existing day and its compose are one transaction; system symbols (SPY) carry
no job and no property; one daily update and one DELETE at a time; the inline
(test) path of both services is left out; `skipped_existing_days` is dead code
because every caller forces. `OnboardingBegin` keeps the code's early return for a
terminal job although no path reaches it today.

### JobBoard

The abstract specification: a job's state, kind and cancel flag. A job is created
only if the exclusion rule lets it, starts once, is cancelled only on request,
ends in one terminal state and keeps it; a restart fails all live jobs in one step.
`ImplementsJobBoard` is `SnapshotJobs` under the mapping that reads the three
columns of each row. Two independent services, each with its own check before it
creates a job, must together implement one rule.

### SchwabSession

One user stands for all: cache, locks and rows are per user. A step is what one
coroutine does between two awaits.

| Variable | In the program |
|---|---|
| `row` | `broker_credentials`: the refresh token, and whether the callback's metadata is there |
| `cache` | `_token_cache[user]`: none, fresh, stale |
| `registry`, `nextLock`, `holder`, `mine` | `_user_locks[user]`, the `asyncio.Lock` objects, who is inside, which one a caller holds a reference to |
| `at`, `asked`, `tries`, `answer` | each caller: location, token sent, attempt, reply |
| `connecting`, `deleting` | an OAuth callback awaiting the preferences; a flushed, uncommitted DELETE |
| `valid`, `expired`, `issued` | Schwab: tokens honoured, expired, issued |

Schwab may rotate the token on every use or not, process a request whose reply is
lost, end the old grant when a new one is made, and let a token expire. Not
modelled: the fast path (it changes no state), `last_test_*` and
`last_refreshed` columns, audit rows, the signed OAuth state, encryption.

### PostureStreak

`market` maps days to a posture or `none`, `streak` days to rows; `update` holds the
session day each running daily update has read, `reval` the revalidation. `Record`
is `record_posture` with its look-back to the row before, `Replayed` and
`Rebuilt` are `rebuild_streak_table` with its seed. Snapshot and streak of a day are
one savepoint. The mutex is taken for granted here because it is proved of
`SnapshotJobs`. A machine that sleeps during a download explains `Late`: a session
day composed after a newer one. A failing day is rolled back to what it was.

### PriceBars

The clock runs through the phases of the New York day: before the open, open,
the provider's lag after the close, the rest of the 30-minute buffer, settled,
past midnight UTC (`Night`). A price is `none`, `partial` or `final`; a row also has
`late`: whether `updated_at` lies past the buffer, the one thing
`_find_partial_session_dates` reads from it.

| Variable | In the program |
|---|---|
| `now` | `now_et()`, as a day and a phase |
| `row` | `daily_price` |
| `status`, `queued` | `watchlist.data_status`; tickers whose onboarding thread waits for the mutex |
| `cache` | the parquet files of this UTC day: period, tickers, bars |
| `run` | an update or cold start: what it may write, the frame it holds |

`Begin` is the gap query, the period computed from the oldest gap and the cache
lookup that follows at once; `FetchRunning`/`MissRunning` the best-effort running
bar; `Persist` the upsert, one write transaction, which waits for the symbol lock
of a cold start. All three triggers (scheduled, manual, startup) have their own
guard. Timing assumptions, in `Rested` and `Tick`: the provider's last bar is
final within 15 minutes of the close, a single wait takes less than that, and all
waits of a run less than hours; a wait that outlasts a phase is a "sleep" and spends
`MaxSleeps`. `DELETE` and the onboarding's days are left to `SnapshotJobs`; so a ticker has one cold start here that downloads. One that is deleted
and added again within a UTC day finds the file of its first (`yfinance_source.py:121`), which this model does not show.

### Indicators and Charts

`Indicators` has one operator per indicator that has a tone: from one or two frames,
sequences of dated observations, to a tone, whether there was enough data, and an as-of
day. Averages, returns, ratios and streaks are exact (compared by cross-multiplication); where the
code first smooths a series, the smoothed reading of a day is an input and the
decision on it is modelled. `Compute` is the registry the two orchestrators walk. `Charts` is
the code of the chart pages, which derives its own headline from the same frames: which rows a page
insists on (`Drawn`), what it says (`...Says`), and what that has to do with the stored
tone (`SameVerdict`).

### IndicatorRows

One indicator over the days of a behaviour. `left` and `right` are the price or macro table by date,
where a value may be missing and `Arrive` later; `DailyUpdate` writes the row of the watched day from the frame cut at
that day; `Revalidate` judges the day again from the table as it has become.

### Votes and Verdicts

`Votes` has the tables of `signals/`: who votes on what, actions and postures of both
horizons, the timing badge, the pros and cons. `Verdicts` runs them: `Update` overwrites the rows and
the snapshot of the day; `UpdateWithoutSnapshot` is the compose whose savepoint is
rolled back while the rows stay; `Shown` is what the two pages list beside the snapshot.

### Backtest and Accuracy

`Backtest` walks `_simulate_pnl` day by day for the page's parameters and for the whole robustness grid at
once: discipline first, then the rebalancing towards the action's target, on days with and without a signal, and days without a
close. Money is in integer units and divisions round down; `Capital` is large
enough for every price to buy and to drift. `Accuracy` has
the tables growing a day at a time, bars arriving late, and the pages as functions
of them: grading, baseline, posture accuracy, event study, split and rolling average.

### Digest

| Variable | In the program |
|---|---|
| `proc`, `date`, `cronDue` | processes and the scheduler's `flock` (`scheduling`); today; whether the 06:30 point is ahead |
| `updating` | per process and way of asking (cron, catch-up, the two routes) the session day it works for |
| `writer`, `unsaved` | who is in the last transaction, and the marker it has written |
| `marker`, `lastRun` | `catalyst_digest_last_sent_date`, `last_daily_update_at` |
| `sent`, `lost`, `late` | history: mails per day; transactions lost after their mail; mails of an update that outlasted its day |

The upsert of the calendar takes SQLite's write lock, so from there to the commit one update is
alone; that is what makes the read of the marker safe, and why the loss of exactly that
transaction is what breaks it.

### Backups, LoginThrottle, Credentials

`Backups` follows `run` step by step (copy, rename, verify, rotate, note) with crashes between them,
disk failures, files that cannot be unlinked and copies of a broken database. `LoginThrottle` has the
audit rows as a sequence (a deleted row keeps its place under no address), the window and the hour of rows that is read, and handlers that
have passed their check but not yet logged (`asking`).

`Credentials`:

| Variable | In the code |
|---|---|
| `env`, `incoming` | `.env`: password hash and encryption key; a rotated key not yet written there |
| `server` | the key the running server took from `.env` when it started, 0 when it is down |
| `database` | the `users` hash and the two halves of the Schwab row with the key each is under, of the file in `data/` and of a deleted one that a server still has open |
| `opened` | which of the two the server works on |
| `wizard` | whether `src/scripts/bootstrap.py` is between its offer to wipe `data/` and its writing of `.env` |
| `chosen` | history: the password last set in each database, or waiting in `.env` for its first start |

Nothing in `bootstrap.py` or the `Makefile` checks whether a server is up, so the wizard, a wipe by hand and an edit of `.env` are
enabled at any time. The wizard wipes as soon as the operator agrees but writes `.env` after its last question, so these
are two steps, and a start, an abort or any script may come between them. A server whose `data/` is deleted goes on with the
file its connection pool has open until it stops; its requests may also fail then, which changes no hash. Scripts open the
file by its path and find nothing.

### Catalysts and Shelves

`Catalysts`: a sync reads the watchlist, awaits, and then upserts what its sources gave
and purges by the list it had read, while the watchlist changes, earnings move and another sync runs.
`Shelves`: a handler's reads with their checks are one step, its flush another (create, rename and delete of groups and of tags,
reorder, file, attach); the database's unique
index and foreign keys may refuse the flush, as `PRAGMA foreign_keys=ON` makes them.

## 3. The runs

Every run finishes in at most four minutes on two cores. Deadlock is not checked: each
model stops when its bounds are spent or its calendar ends, as the program would with
no more requests.

| Run | Expect | Properties | Instance, and why it is enough |
|---|---|---|---|
| `jobs` | pass | TypeOK, JobsMatchThreads, OneSnapshotWriter, RevalidationRunsAlone, ProgressAddsUp, CompletedOnboardingLeavesNoHole, FinishedJobsStayFinished, ImplementsJobBoard | one ticker, two jobs, one daily update, two trading days, one restart: two jobs are every pair of kinds in either order, a re-add after a delete included; the second day is the one the update adds while a job waits; the restart meets every stage. With an exception as well (`MaxFaults = 1`, five minutes) the same properties hold; the run leaves it to `live` and to the theorems |
| `live` | pass | JobsEnd, LoopUnblocks | two jobs, a daily update and an exception anywhere, under `FairSpec` |
| `session` | pass | OneRefreshUntilDisconnect, RowsStayComplete, CredentialKept | the job and a probe, three tokens, two connections, one of each failure: a second caller meets every stage of the first |
| `returns` | pass | TypeOK, CallsReturn, DeadCredentialDropped | two callers, three lost replies (all the attempts of a call), one disconnect, under `FairSpec` |
| `resurrect` | violation | OnlyCallbackCreatesRow | one caller, one disconnect |
| `cancelled` | violation | StreakFollowsPostures | five days, one interrupted revalidation |
| `bars` | pass | TypeOK, UnflaggedBarsAreFinal, UpdatesCatchUp | a system symbol and a ticker, four days (day 2 has no session), a window of two sessions, two runs side by side, one missing running bar, one failed download |
| `short` | violation | ReadyTickersHaveHistory | the same without failures |
| `signals` | pass | TypeOK, ChartAgrees, PageAddsUp, NeverOpposed, Reproduces, WorseNeverBetter | rows: every indicator but `rsp_spy`, whose rule is that of `hyg_ief` (the theorem `PageNeverContradicts` is of all), five days, windows scaled down to two and three bars so that full frames, crosses, releases and slopes all occur within them; thresholds are the code's and the values lie on both sides of each; one value arrives late. Verdicts: every voter through all its tones, two days |
| `lookahead` | violation | NoLookAhead | the unemployment rate, six days, one late value |
| `platform` | pass | TypeOK, Ledger, Disciplines, GradesFinal, PostureOnBaseline, StudySamples, SnapshotsAndStreaksPair, StreaksAddUp, RebuildRestoresTruth, DigestAtMostOnce, RestorableBackup, LockoutHolds, PasswordIsLastSet, SyncKeepsWhatItCouldNotFetch, NoDanglingShelf | see below |
| `rotation` | violation | RotationCoversRow | the key part of `platform` |

The parts of `platform`:

* *walk*: four days, closes 90, 95 and 120, every action: a position is opened, added to,
  reduced and closed by each of stop, target and signal, and opened again.
* *grades*: three days, horizons of one and two, SPY closes that are flat or up, one bar filled in late; of the ticker's bars only
  whether they are there matters to the properties.
* *streaks*: five days with a holiday inside, two postures, two updates, an interrupted revalidation, a late update:
  streaks that continue, flip, and cross the holiday.
* *digest*: three days, one without a session, two processes, three starts, two updates of any kind: enough for an overlap, and for a crash
  after the mail with a further update on the same day.
* *backups*: five nights, three kept, two mishaps: the mishaps together could take all but one good file.
* *login*: two addresses, two overlapping requests, a threshold of two, four attempts.
* *keys*: two passwords, and four keys, one for each finished wizard run or rotation: enough for a second installation with any wipe, edit, start and change between and after, and for rotations. *events*: two tickers, two syncs, two days.
* *shelves*: two overlapping requests, a ticker, two names, two ids.

Symmetry is used for the postures, for the runs of `PriceBars` and, in `platform`, for the updates, processes, logins,
syncs and requests, whose members are interchangeable; these five share two model values, since each
part of the run has one of them only; no liveness property is checked there.

### Fairness

`SnapshotJobs!FairSpec`: runner threads and the coroutine of the daily update
proceed, a request in flight is answered, a dead process is restarted (docker
restart policy, launchd). No fairness for users, crashes, exceptions or the calendar. Weak
fairness is enough: a thread waiting for the mutex is not promised it against
an endless stream of newcomers, but jobs and updates are bounded here as
they are in practice by the exclusion rules.

`SchwabSession!FairSpec`: weak fairness for replies (httpx timeout), for resuming a
coroutine, for the commit of a session, for access tokens to age, and for the
20-minute job to fire; strong fairness for entering the lock, because
`asyncio.Lock` wakes its waiters first come, first served, so a waiter is not
overtaken forever. `DeadCredentialDropped` relies on the job and on losses being
bounded. Failed writes are left to `session`: one after the last
refusal would only postpone the drop to the next run of the job.

### What the violations show

* `resurrect`: the refresh in flight stores its rotated token after the
  disconnect, and `store_refresh_token` creates the missing row, without metadata,
  against `services/schwab_session.py:96`. This is why the safety
  properties of the session speak of the time before a disconnect.
* `cancelled`: a revalidation that ends after some of its days, before the rebuild,
  leaves streak rows that contradict the postures (`db/models.py:534`). The
  next one that finishes repairs them: `RebuildRestoresTruth`.
* `short`: the daily update marks a pending ticker `ready` before its queued cold
  start has run; the cold start then sees `ready` and returns without its two years of
  history, against `services/symbol_onboarding_service.py:5`.
* `lookahead`: a macro series is cut by the date an observation is about, not by the day it
  came out, so a day judged again reads a value it could not have had, against the comments at
  `ingestion/indicators.py:179`. `Reproduces` therefore speaks of days for which nothing came in since.
* `rotation`: `src/scripts/rotate_secrets.py` re-encrypts the refresh token but not the account
  metadata of the same row, against its own first lines.

### Divergences observed, without a run

Found by reading while modelling; each needs more than the models contain, or is
one step wide.

Jobs and data:

* `api/v1/watchlist_routes.py:370` looks up the onboarding job only while the row is still `pending`. The job's own
  cold start makes it `ready`; from then on DELETE removes the row and leaves the job uncancelled, against the comment at line 15.
* `services/schwab_session.py:162`: the `invalid_grant` of an old token deletes the
  row even if the callback has stored a new token meanwhile. `CredentialKept`
  therefore speaks of a single connection.
* `services/schwab_session.py:100`: disconnect pops the lock of a caller inside it,
  so the next caller makes a second lock ("one in-flight refresh per user", line 14,
  holds until then).
* `ingestion/streak_rebuild.py:72`: the seed is the row of the calendar day before
  the range, so a range that starts on a Monday misses Friday's row, although line 64
  wants a running streak picked up. A revalidation starts at the oldest snapshot, so
  this takes an older day that is composed late, after the job was created; it is the
  reason for the guard in `RebuildRestoresTruth`.
* `services/symbol_onboarding_service.py:179` holds the mutex across the cold
  start's download, although `services/snapshot_write_mutex.py:42` speaks of short
  sections; the daily update then blocks the event loop for as long. `LoopUnblocks`
  shows that it is let go in the end.
* `ingestion/daily_ingestion.py:178` fixes the ticker list before the download. A ticker
  added meanwhile whose onboarding ends before the compose has no row for the new
  date, against `services/symbol_onboarding_service.py:8`. One whose onboarding ends after it has:
  `CompletedOnboardingLeavesNoHole`.
* `api/v1/data_routes.py:122`, "Manually trigger", calls the update with the default
  trigger `scheduled`, so it ends early on a day without a session or without gaps
  (`ingestion/daily_ingestion.py:151`) and may mail the digest; `api/v1/settings_routes.py:388` passes `manual`.
* `ingestion/daily_ingestion.py:249`: a failed bulk download counts as an empty
  answer and every ticker is marked delisted until the next update.
* A machine asleep between the running bar and its write stamps a partial bar as
  late; `db/models.py:373` calls the stamp the means to tell the two apart.
* The history cache is keyed by the UTC day but cut at the New York day: a file
  written in the New York evening lacks that day, and with a missed running bar an
  update of the next UTC morning that uses it leaves the gap open.
* `services/symbol_onboarding_service.py:25` says that a start refuses beside any other active job; line 136, and the model, refuse
  beside a revalidation only.
* `ingestion/locks.py` hands the same `asyncio.Lock` to coroutines of
  different event loops; contended across loops it raises instead of waiting.
* A calendar upsert that waits longer than the busy timeout is swallowed with the digest; a rescheduled
  earnings date leaves the old event in the table, which `next_for_ticker` may return.
* `.tmp` files of crashed backups of earlier days stay; after a reinstall that keeps the database the stored token is unreadable.

Indicators and charts:

* Charts of `volume_anomaly`, `adx`, `atr`, `ttm_squeeze` and `cho` insist on the full window asked for: a
  long one answers 404 although the indicator has a tone.
* `relative_strength` and `vix_term` take each frame's own last rows, their charts the shared dates; `SameVerdict`
  compares them where the dates agree. The weekly RSI of the chart is of the last completed week.
* `cho` is near zero within 5 % of the average volume for the tone, within a fixed amount on the page; `ad_day`
  needs three net days for the tone, two on the page; a yield spread of exactly zero is red and charted as not inverted;
  a directional index of equal parts is "down" in the tone and "up" on the page. `SameVerdict` is what holds nevertheless.

Pages:

* `_REGIME_INDICATOR_NAMES` (`api/v1/history_routes.py:76`, "Mirror of") lists four of the six voters.
* `_eval_accuracy` counts calls of days SPY has no bar for with a SPY return of zero, against its docstring.
* A simulation whose first snapshot's day has no close raises `KeyError`; when SPY lacks the last priced day, its comparison says
  -100 % beside a chart that shows the starting capital.
* `signals/stop_loss.py` may place a stop above the close.

Accounts:

* `security/login_throttle.py:78`: the lockout follows the oldest failure in the
  window rather than the last, and a lockout longer than an hour is cut to the hour of rows read.
* `README.md:163` and `README_zhTW.md:149` advise to "edit `ADMIN_PASSWORD_HASH` in `.env` directly" when the login form rejects the
  password. `main.py:72` takes that hash only while the users table is empty, so the edit does nothing once a server has started on this
  database. `EditEnv` is that edit; `PasswordIsLastSet` says what is accepted instead: the password in the database.
* "Wipe data/ now so the new password takes effect?" (`src/scripts/bootstrap.py:741`) holds only if no server starts before the
  wizard has asked its last question and written `.env`: such a start seeds the old hash, and the new one is ignored from then on. Beside a running server
  the new password takes effect at the next restart; until then the server accepts the old one, or what is changed in its settings
  page, and that change is lost with the deleted file. In the model all of these happen.
* `src/scripts/reset_password_offline.py` resets counters no lockout reads; the lockout comes from the audit log.
* PATCH of a tag with a valid name and a bad colour answers 422 and still renames: the session commits on domain errors.
* `attach` swallows the refusal also when the tag was deleted meanwhile; groups created together may share a position.

## 4. The proofs

TLAPS checks every leaf; nothing is assumed but facts about the constants, the named assumptions of the modules,
which TLC evaluates in the runs: `ConstantsAssumption`, `SessionAssumption`, `BarsAssumption`, `CalendarAssumption`,
`BacktestAssumption` (closes and percentages are positive), `AccuracyAssumption` (horizons and closes are numbers, a split is in
percent and of at least two snapshots, where the code has 30, an average is of at least one bar), `IndicatorAssumption` (windows have a length; an indicator asks
for the rows its rule looks back over: 200 for `price_vs_ma`, one more than the window for `relative_strength`, average and streak for `dxy`),
`RowsAssumption` (what is read has the form its indicator expects; a chart's window, at least 21 bars in `api/v1/ticker_routes.py:483`, is longer than a
MACD cross is fresh), `StreakAssumption`, `DigestAssumption` (the first day is a session),
`BackupAssumption`, `LoginAssumption` (a threshold of at least one, finitely many requests), `CredentialsAssumption`,
`CatalystAssumption` (the sources give events of the calendar), `ShelfAssumption` (a limit of at least one) and `VotersHaveTones`.

Every invariant and action property of every passing run is a theorem for every value of the constants; what is left to TLC is
liveness. Where a property is not inductive, this is what it takes.

**`SnapshotJobs_proofs`**, for any tickers, jobs, days and failures.

1. Type correctness is inductive on its own (`NumberLemmas` supplies that `Min` and
   `Max` of a non-empty set of numbers belong to it).
2. *One writer* is not inductive: that two threads are not both inside says nothing of
   what the lock variable holds. The strengthening says that a process is inside
   exactly if the mutex names it (`LockHeld`).
3. *Job rows and threads* (`JobInv`): rows are numbered in the order they are inserted,
   active jobs are those with a thread, a thread past its first transaction works
   for a running job, a DELETE in flight names an existing job, no thread outlives the
   process. The steps touch rows and threads in only seven ways (`Effect`: not at
   all, a cancel request, a start, an end, a new job, a crash, the sweep); each action is
   shown to have one of these effects, and each effect once to preserve the invariant. The same effects are the steps of
   `JobBoard`, so refinement (`JobsImplementBoard`) follows from them: initial states map to
   initial states, each effect to a board step or a stutter.
4. *Progress and holes* (`Books`): `ProgressIsAccounted` needs that what a runner has counted
   and what it still has before it make up the total. `OnboardingLeavesNoHole` needs that an onboarding
   without a failed day still has every hole of its ticker before it, which only
   holds because nobody else writes meanwhile: it rests on the mutex of 2.

**`SchwabSession_proofs`**, for any number of callers, tokens, disconnects and crashes. The lock again needs more than the
property: locks are handed out in order (`LocksNumbered`), a caller in flight is the
holder of its lock (`InsideHolds`), and until the first disconnect there is only one
(`OneLock`). `RowsHold` adds that a refresh in flight means that the row it started
from is still there and complete, which is where a disconnect breaks it. `CredentialSurvives`: that the row's token is one
Schwab honours is false from Schwab's answer to the commit that stores it; `CredentialSafe` says that the only answer under way then
carries the token.

**`PriceBars_proofs`**, for any calendar, window, tickers and number of overlapping runs. For `LateBarsAreFinal` the invariant
follows a bar from the provider to the table: a partial bar in a run's frame is of today and was taken no more than a
phase ago (`PartialsAreRecent`), only a day with a session has trading hours
(`HoursAreOfSessions`), and cached files hold closed bars (`CacheIsClosed`); so what is written after the
buffer is final. `UpdatesFillTheirWindow` speaks of the moment an update writes, and `CatchUpInv` of what it relies on
until then: each session it owes is in the table, in its frame, or in the running bar it waits for (`RunsFill`). The
file cache is the hard part. A file written at night lacks that day's session, and an update that reads it after the next
open gets that bar from nowhere; what saves it is that the run which wrote the file is bringing the bar itself and is done before the
session opens (`Helped`, `FreshFill`, `FilesFill`), as long as no machine sleeps through a phase. `WhatIsTrustedStays` is the lemma the others
lean on, said of every step: a bar the freshness check trusts is never written over by a run that fetched its bars earlier (`FilledStays`).

`ColdStartsBringHistory` says what onboarding does achieve, where the run `short` shows what it does not: a cold start that writes fills every
session that was settled when it began, not only those of the window. `ColdInv` has the same shape with a simpler reason. A cold start reads no
file, because a file of its ticker and period says that the ticker has left the queue (`FilesAreSpent`, `UpdateSpan`); so it holds every
session before today (`SettledIsServed`), and if one that waits loses the running bar to the open, it began before the open and has that session already (`ColdFresh`).
A download that fails needs no hypothesis here: such a cold start never writes.

**`Signals_proofs`**, whatever tones the voters may take, for any number of days. `HorizonsNeverOppose` and
`WorseRowsNeverBetterVerdict` rest on a snapshot being composed from some rows (`SnapshotIsComposed`) and on the tables: a voter counts on
one side only (`CountsFit`), two of the five long-horizon voters sit on the short one too, so
that five greens there leave at most three reds here (`TwoCount`), the ordered rows
name every count (`TableHasNoGap`) and are monotone in both (`TableIsMonotone`, `PosturesAreMonotone`). `PagesAddUp` needs
the moment rows and snapshot were last written together (`CountsAreOfRows`). `RowsReproduce` holds for every indicator
without looking into one: `RowIsCurrent` ties a row to the frames cut at its day, and later days are not in them (`FrameIsCut`).

`PageNeverContradicts` (`ChartAgrees`) is the opposite: it holds for each of the indicators for a reason of its own, so each has its lemma and
`PageAgrees` takes them by name. All rest on what a frame is (`IsFrame`): rows with a value, in the order of their days, none later than the day judged;
the tables cut at a day give one (`TablesAreFrames`), and selection keeps it one (`KeptFrame`). With one threshold on each side the reasons are arithmetic (`LevelsAgree`, `RsiAgrees`,
`RatiosAgree`, `AdxAgrees`, `ChoAgrees`). Where the two sides look differently at the same rows it takes more:

* `macd`: the tone takes the newest cross of a few bars, the page lists the crosses of its whole window; the newest of a window that reaches
  further back is the same one (`LatestIsRecent`), which is where `RowsAssumption` is needed.
* `dxy`: the tone asks for a streak of so many days of a rising average; the page counts the length of the present run. A run that long is the streak, and one on the
  other side excludes it (`LongRun`).
* `fed_rate`: the tone takes the newest row of so many days ago or earlier, the page a series filled forward to every day: both find the same
  rate if the page's window reaches that far (`FedAgrees`).
* `relative_strength`, `vix_term`: the tone takes each frame's own last row, the page the rows of shared dates; they are the
  same rows where the dates of the two frames agree (`SharedRows`).

`EveryNameIsJudged` says that each indicator returns a verdict of the right type over any frames, insufficient ones included; with it the rows keep their types.

**`History_proofs`**, for any capital, closes, grid, calls, calendar and length of the window. *Backtest* (`BooksBalance`, `DisciplineHolds`):
each of the moves (close out, buy, sell, mark) is shown to keep a book balanced and solvent; the
discipline survives the rebalancing of the same day because a purchase pulls the cost basis
towards the close and never past it, and a sale leaves it where it is. *Accuracy* (`GradesAreFinal`, `PosturesAreOnBaseline`,
`SamplesAreSound`): a call is graded at the first priced day its horizon reaches (`GradedIsFirst`), so a day added at the end
changes no grade; a finite set of days has a day of every rank (`RankIsReached`), so a split has two halves. The average the code carries
from bar to bar, adding the new close and dropping the oldest, is that of its window by induction over the bars (`RollingHolds`); that the window's sum, which the community modules add up in an order nobody
chose, takes a new close like a sum does is `SumAnyOrder` of `NumberLemmas`. *PostureStreak*
(`PairsStayTogether`, `RowsAddUp`, `RebuildIsTruth`): a rebuild replays only its own range, so that its result is
the truth needs that nothing older was composed (`FirstIsFirst`), that is, that its range covers every snapshot (`Restored`); what
all steps share is that a day's row follows from the row before it (`TruthExtends`).

**`Jobs_proofs`**, for any number of processes, starts, updates, nights and mishaps. `DigestIsMailedOnce`: that
a day is mailed at most `1 + lost + late` times is not inductive: one must know that a day not yet over and marked neither in the table nor in the
open transaction has had no mail but the mishaps (`Unsent`), that the marker only falls back past an update that was late (`SetBack`), and that
markers are of days mailed (`MarkersAreOfMails`). `BackupsAreRestorable`: a rotation looks at names only, so what it leaves
is known by counting: enough files (`EnoughAreKept`), the newest among them (`NewestIsKept`), and bad ones only from
mishaps (`MishapsAreCounted`).

**`Tables_proofs`**, for any number of requests, syncs and installations. `LoginIsLastSet`: while the server is down nobody can log in, and a server may
go on with a deleted file, so the invariant says what waits for the next start, the row in `data/` if there is one, or else the hash in `.env`, and that whatever
file a server has open was seeded (`PasswordIsKept`). No order of wizard, wipe, edit and start is excluded; an `.env` hash that a row outlives is not what the theorem
calls set.
`UnfetchedEventsSurvive`: a ticker watched since a sync read its list is on that list (`ListsCoverWatched`).
`ShelvesStayConsistent`: what a request decided before its flush may still rely on when others have committed
(`Wish`), and existing groups together with those about to be created within the limit of what is counted (`GroupsCounted`).
`GuessesAreLimited`: a check and the failure it lets through are two commits, so the count is of the failures an address's next check
would see together with the requests past theirs (`GuessesAreBounded`). *The platform* (`PartsBehaveAsAlone`): a step of one part leaves the tables of
the others as they are (`StepsAreOfParts`), so the composition implies the nine specifications and inherits their theorems (`PlatformTypeCorrect`,
`PlatformKeepsItsPromises`).

**Only model-checked.** Liveness (`JobsEnd`, `LoopUnblocks`, `CallsReturn`, `DeadCredentialDropped`): fairness and ENABLED are out of this
prover's reach. What a fold computes for every input is not proved in general either, since that is an induction over data which takes an operator as a
parameter; the facts about sums and frames above are instances, each by an induction over numbers written out (`NumberLemmas`).

## 5. What is not modelled, and why

* Frontend: views over the API; what its polling relies on is `JobBoard`.
* Smoothing inside indicators (RSI, MACD, bands, ADX, ATR, squeeze momentum, Chaikin): floating-point recursions, outside what TLC
  represents; their readings are inputs. `timeframes` and `earnings_proximity` have no tone. Wording and layout of headlines.
* Entry and stop prices of `signals/`: numbers shown, nothing decides by them.
* The expiry reminder and the intraday VIX refresh: single writes nothing else reads in an order that matters.
* Other read routes, middleware, CSRF, headers, token encoding, AES-GCM, migrations: no interleaved state.
* The Schwab start route, the signed state, test columns and audit rows.
* HTTP to FRED, Polygon and Gemini, SMTP: pure I/O; their outcomes are
  nondeterministic choices where a model calls them.
* Two event loops in one lock registry, and the unit of work's dirty attributes: they need models of asyncio and of the ORM.

## 6. Plan

Done: the snapshot writers with the job board, the Schwab session, streaks, bars; signals with indicators and
charts; the simulation and grading pages; digest with the scheduler lock; backups; throttle; credentials; calendar sync; groups and tags. Next:

1. A composition of `PriceBars`, `IndicatorRows` and `SnapshotJobs`: a day's snapshot is computed from
   final bars of that day.
2. Liveness of the digest under the scheduler's fairness: a day with events whose relay works is mailed, unless no
   process schedules.
3. Abstract specifications, with refinement proved step by step as it is for `JobBoard`: a mutual exclusion for the mutex and the Schwab
   lock, an at-most-once mailer that `Digest` implements, a bank account that `Backtest` implements.
4. A second user: watchlist locks and groups are per user.

Bounds stay at two actors of each kind and at two to five days: each hazard listed is
between two actors, and further days are needed only where a window or a day without a session matters.
