----------------------------- MODULE SnapshotJobs -----------------------------
(***************************************************************************)
(* The writers of Eiswein's snapshot tables and the jobs that run them.    *)
(*                                                                         *)
(* Three kinds of process write market_snapshot and ticker_snapshot rows:  *)
(* an onboarding thread per added ticker (SymbolOnboardingService), a      *)
(* revalidation thread (BackfillService) and the daily update, which runs  *)
(* on the single asyncio event loop of the process.  They share one        *)
(* threading.Lock, snapshot_write_mutex.  The HTTP handlers that create,   *)
(* cancel and outlive jobs interleave with them: async handlers and the    *)
(* daily update take turns on the event loop, DELETE runs on a pool        *)
(* thread, the runners are threads of their own.                           *)
(*                                                                         *)
(* A step is one committed database transaction, or one lock operation,    *)
(* of one of these processes.                                              *)
(***************************************************************************)
EXTENDS Naturals, FiniteSetsExt

CONSTANTS
    Symbols,       \* the tickers a user can add and remove (SPY is neither)
    MaxJobs,       \* bound: backfill_job rows ever created
    MaxDay,        \* bound: trading days, numbered 1 .. MaxDay
    FirstPriced,   \* [Symbols -> Days]: first trading day the ticker has prices
    WatchlistMax,  \* settings.watchlist_max_size
    MaxDailies,    \* bound: daily updates started
    MaxRestarts,   \* bound: crashes of the process
    MaxFaults,     \* bound: unexpected exceptions (a locked database, say)
    NoOne,         \* the free mutex, the absent ticker
    Daily          \* the daily update, as a holder of the mutex

JobIds == 1 .. MaxJobs
Days   == 1 .. MaxDay

ASSUME ConstantsAssumption ==
    /\ MaxJobs \in Nat /\ MaxDay \in Nat \ {0}
    /\ MaxDailies \in Nat /\ MaxRestarts \in Nat /\ MaxFaults \in Nat
    /\ WatchlistMax \in Nat
    /\ FirstPriced \in [Symbols -> Days]
    /\ NoOne \notin Symbols
    /\ NoOne \notin JobIds /\ Daily \notin JobIds /\ NoOne # Daily

VARIABLES
    \* The database.
    jobs,      \* backfill_job: [JobIds -> JobRow]
    nextJob,   \* the next primary key
    status,    \* watchlist.data_status per ticker, "absent" when not watched
    market,    \* the dates that have a market_snapshot row
    ticker,    \* [Symbols -> dates that have a ticker_snapshot row]
    \* The process.
    up,        \* the process is serving
    mutex,     \* holder of snapshot_write_mutex
    pc,        \* [JobIds -> location of the job's runner thread]
    todo,      \* [JobIds -> dates the runner still has to visit]
    target,    \* [JobIds -> tickers a revalidation recomputes]
    adding,    \* ticker between its INSERT and the start of its onboarding
    removal,   \* the DELETE request in flight
    daily,     \* the daily update in flight
    \* The environment.
    today,     \* last_trading_day_et()
    used       \* how much of each bound is spent

db      == <<jobs, nextJob, status, market, ticker>>
process == <<up, mutex, pc, todo, target, adding, removal, daily>>
vars    == <<db, process, today, used>>

-----------------------------------------------------------------------------
States         == {"none", "pending", "running", "completed", "cancelled", "failed"}
ActiveStates   == {"pending", "running"}
TerminalStates == {"completed", "cancelled", "failed"}
Statuses       == {"absent", "pending", "ready", "delisted", "failed"}

JobRow == [state : States, kind : {"onboarding", "revalidation"},
           symbol : Symbols \cup {NoOne}, cancel : BOOLEAN, range : SUBSET Days,
           total : Nat, processed : Nat, failed : Nat]

\* Where a runner thread is.  "idle": no thread.  "lost": the thread died
\* without being able to record its failure.
Holding   == {"entered", "cold", "fetch", "abort", "gaps", "day", "dayok", "daybad",
              "symbols", "recompute", "recomputed", "finish"}
Locations == Holding \cup {"idle", "queued", "unhandled", "lost"}

NoRemoval == [sym |-> NoOne, job |-> 0]
NoDaily   == [at |-> "idle", day |-> 1, syms |-> {}]

Active(j)     == jobs[j].state \in ActiveStates
Watched       == {s \in Symbols : status[s] # "absent"}
ActiveOf(s)   == {j \in JobIds : Active(j) /\ jobs[j].kind = "onboarding" /\ jobs[j].symbol = s}
Priced(s)     == {d \in Days : d >= FirstPriced[s]}

\* The event loop runs one handler at a time, and none while the daily
\* update, itself on the loop, blocks on the mutex or computes under it.
LoopFree == up /\ adding = NoOne /\ daily.at \notin {"waiting", "composing"}

UpdateState(j, s)         == [jobs EXCEPT ![j].state = s]
RequestCancel(j)          == [jobs EXCEPT ![j].cancel = TRUE]
\* Mutant: the failed days are never counted.
CountProcessedOnly(j, p, f) == [jobs EXCEPT ![j].processed = @ + p]
IncrementProgress(j, p, f) == [jobs EXCEPT ![j].processed = @ + p, ![j].failed = @ + f]

NewJob(kind, s, range) ==
    [jobs EXCEPT ![nextJob] =
        [state |-> "pending", kind |-> kind, symbol |-> s, cancel |-> FALSE,
         range |-> range, total |-> 0, processed |-> 0, failed |-> 0]]

Goto(j, l) == pc' = [pc EXCEPT ![j] = l]

\* The runner's locals go with its stack frame.
Forget(j) == todo' = [todo EXCEPT ![j] = {}] /\ target' = [target EXCEPT ![j] = {}]

\* Mutant: the lock is taken by hand and not given back.
LeaveLocked(j) == UNCHANGED mutex /\ Goto(j, "idle") /\ Forget(j)

\* The runner leaves `with snapshot_write_mutex()` and its thread ends.
Leave(j) == mutex' = NoOne /\ Goto(j, "idle") /\ Forget(j)

\* Mutant: the section runs without the mutex.
MutexIgnored == TRUE
MutexFree == mutex = NoOne

Spend(bound) == used' = [used EXCEPT ![bound] = @ + 1]

Init ==
    /\ jobs = [j \in JobIds |->
                 [state |-> "none", kind |-> "onboarding", symbol |-> NoOne, cancel |-> FALSE,
                  range |-> {}, total |-> 0, processed |-> 0, failed |-> 0]]
    /\ nextJob = 1
    /\ status = [s \in Symbols |-> "absent"]
    /\ market \in {{}, {1}}
    /\ ticker = [s \in Symbols |-> {}]
    /\ up = TRUE
    /\ mutex = NoOne
    /\ pc = [j \in JobIds |-> "idle"]
    /\ todo = [j \in JobIds |-> {}]
    /\ target = [j \in JobIds |-> {}]
    /\ adding = NoOne
    /\ removal = NoRemoval
    /\ daily = NoDaily
    /\ today = 1
    /\ used = [dailies |-> 0, restarts |-> 0, faults |-> 0]

-----------------------------------------------------------------------------
(* HTTP handlers *)

\* POST /watchlist, first half: the preflight succeeded; under the user lock
\* the row is inserted as pending, unless it is a duplicate or past the cap.
AddToWatchlist(s) ==
    /\ LoopFree
    /\ nextJob <= MaxJobs
    /\ status[s] = "absent"
    /\ Cardinality(Watched) < WatchlistMax
    /\ status' = [status EXCEPT ![s] = "pending"]
    /\ adding' = s
    /\ UNCHANGED <<jobs, nextJob, market, ticker, up, mutex, pc, todo, target, removal,
                   daily, today, used>>

\* Mutant: an onboarding never defers to a revalidation.
NeverDeferred == FALSE
RevalidationActive == \E j \in JobIds : Active(j) /\ jobs[j].kind = "revalidation"

\* POST /watchlist, second half, SymbolOnboardingService.start: refused while
\* a revalidation is active (the pending row stays), else a job and a thread.
OnboardingDeferred ==
    /\ up /\ adding # NoOne
    /\ RevalidationActive
    /\ adding' = NoOne
    /\ UNCHANGED <<db, up, mutex, pc, todo, target, removal, daily, today, used>>

StartOnboarding ==
    /\ up /\ adding # NoOne
    /\ ~RevalidationActive
    /\ jobs' = NewJob("onboarding", adding, {})
    /\ nextJob' = nextJob + 1
    /\ Goto(nextJob, "queued")
    /\ adding' = NoOne
    /\ UNCHANGED <<status, market, ticker, up, mutex, todo, target, removal, daily, today, used>>

\* The trading days from the oldest market_snapshot to today.  On a fresh
\* install the range is today alone, which need not be a trading day.
RevalidationRanges == IF market = {} THEN {{today}, {}} ELSE {Min(market) .. today}

\* Mutant: a revalidation defers to other revalidations only.
NoOtherRevalidation == ~RevalidationActive
NoActiveJob == \A j \in JobIds : ~Active(j)

\* POST /indicators/revalidate: refused while any job is active.
RevalidateAllSnapshots ==
    /\ LoopFree
    /\ nextJob <= MaxJobs
    /\ NoActiveJob
    /\ \E range \in RevalidationRanges : jobs' = NewJob("revalidation", NoOne, range)
    /\ nextJob' = nextJob + 1
    /\ Goto(nextJob, "queued")
    /\ UNCHANGED <<status, market, ticker, up, mutex, todo, target, adding, removal, daily,
                   today, used>>

\* POST /jobs/{id}/cancel: on a terminal job it changes nothing.
CancelJob(j) ==
    /\ LoopFree
    /\ Active(j)
    /\ jobs' = RequestCancel(j)
    /\ UNCHANGED <<nextJob, status, market, ticker, process, today, used>>

\* DELETE /watchlist/{symbol}, on a pool thread: reads the row and, when it is
\* still pending, looks up the onboarding job to cancel ...
RemoveRead(s) ==
    /\ LoopFree
    /\ removal = NoRemoval
    /\ status[s] # "absent"
    /\ removal' = [sym |-> s,
                   job |-> IF status[s] = "pending" /\ ActiveOf(s) # {}
                           THEN Max(ActiveOf(s)) ELSE 0]
    /\ UNCHANGED <<db, up, mutex, pc, todo, target, adding, daily, today, used>>

\* ... then flips the cancel flag and deletes the row in one transaction.
RemoveCommit ==
    /\ up /\ removal # NoRemoval
    /\ jobs' = IF removal.job = 0 THEN jobs ELSE RequestCancel(removal.job)
    /\ status' = [status EXCEPT ![removal.sym] = "absent"]
    /\ removal' = NoRemoval
    /\ UNCHANGED <<nextJob, market, ticker, up, mutex, pc, todo, target, adding, daily, today, used>>

-----------------------------------------------------------------------------
(* Runner threads, common part *)

Acquire(j) ==
    /\ up /\ pc[j] = "queued"
    /\ MutexFree
    /\ mutex' = j
    /\ Goto(j, "entered")
    /\ UNCHANGED <<db, up, todo, target, adding, removal, daily, today, used>>

\* An exception nobody handles inside the locked section: the mutex is
\* released on the way out ...
RunnerRaises(j) ==
    /\ up /\ pc[j] \in Holding
    /\ used.faults < MaxFaults
    /\ Spend("faults")
    /\ mutex' = NoOne
    /\ Goto(j, "unhandled")
    /\ Forget(j)
    /\ UNCHANGED <<db, up, adding, removal, daily, today>>

\* ... and the job is marked failed in a fresh session; a second exception
\* there is suppressed.
RecordFailure(j) ==
    /\ up /\ pc[j] = "unhandled"
    /\ \/ /\ jobs' = UpdateState(j, "failed")
          /\ Goto(j, "idle")
          /\ UNCHANGED used
       \/ /\ used.faults < MaxFaults
          /\ Spend("faults")
          /\ Goto(j, "lost")
          /\ UNCHANGED jobs
    /\ UNCHANGED <<nextJob, status, market, ticker, up, mutex, todo, target, adding, removal,
                   daily, today>>

\* The last transaction of a run that ends well.
Complete(j) ==
    /\ up /\ pc[j] = "finish"
    /\ jobs' = UpdateState(j, "completed")
    /\ Leave(j)
    /\ UNCHANGED <<nextJob, status, market, ticker, up, adding, removal, daily,
                   today, used>>

-----------------------------------------------------------------------------
(* SymbolOnboardingService._run_with_lock *)

Sym(j) == jobs[j].symbol

OnboardingBegin(j) ==
    /\ up /\ pc[j] = "entered" /\ jobs[j].kind = "onboarding"
    /\ IF jobs[j].state \in TerminalStates
       THEN Leave(j) /\ UNCHANGED jobs
       ELSE jobs' = UpdateState(j, "running") /\ Goto(j, "cold")
            /\ UNCHANGED <<mutex, todo, target>>
    /\ UNCHANGED <<nextJob, status, market, ticker, up, adding, removal, daily,
                   today, used>>

\* backfill_ticker up to its await: no row is an error, a ready row needs no fetch.
ColdStartRead(j) ==
    /\ up /\ pc[j] = "cold"
    /\ Goto(j, CASE status[Sym(j)] = "absent" -> "abort"
                 [] status[Sym(j)] = "ready"  -> "gaps"
                 [] OTHER                     -> "fetch")
    /\ UNCHANGED <<db, up, mutex, todo, target, adding, removal, daily, today, used>>

\* backfill_ticker after the download.  A row deleted meanwhile makes
\* set_status raise, and the prices are rolled back.
ColdStartFetched(j) ==
    /\ up /\ pc[j] = "fetch"
    /\ \E new \in {"ready", "delisted", "failed"} :
         IF status[Sym(j)] = "absent"
         THEN Goto(j, "abort") /\ UNCHANGED status
         ELSE /\ status' = [status EXCEPT ![Sym(j)] = new]
              /\ Goto(j, IF new = "ready" THEN "gaps" ELSE "abort")
    /\ UNCHANGED <<jobs, nextJob, market, ticker, up, mutex, todo, target, adding, removal,
                   daily, today, used>>

ColdStartAbort(j) ==
    /\ up /\ pc[j] = "abort"
    /\ jobs' = UpdateState(j, "failed")
    /\ Leave(j)
    /\ UNCHANGED <<nextJob, status, market, ticker, up, adding, removal, daily,
                   today, used>>

\* The market_snapshot dates the ticker has no snapshot for.
FindGaps(j) ==
    /\ up /\ pc[j] = "gaps"
    /\ todo' = [todo EXCEPT ![j] = market \ ticker[Sym(j)]]
    /\ jobs' = [jobs EXCEPT ![j].total = Cardinality(market \ ticker[Sym(j)])]
    /\ Goto(j, "day")
    /\ UNCHANGED <<nextJob, status, market, ticker, up, mutex, target, adding, removal, daily,
                   today, used>>

\* The cooperative cancel check before each day.
OnboardingCancelled(j) ==
    /\ up /\ pc[j] = "day" /\ todo[j] # {}
    /\ jobs[j].cancel
    /\ jobs' = UpdateState(j, "cancelled")
    /\ Leave(j)
    /\ UNCHANGED <<nextJob, status, market, ticker, up, adding, removal, daily,
                   today, used>>

\* One day, oldest first: without prices up to that day nothing is written
\* and the day still counts as filled; any failure is rolled back.
OnboardingDay(j) ==
    /\ up /\ pc[j] = "day" /\ todo[j] # {}
    /\ ~jobs[j].cancel
    /\ LET d == Min(todo[j])
       IN  /\ todo' = [todo EXCEPT ![j] = @ \ {d}]
           /\ \/ /\ d \in market
                 /\ ticker' = [ticker EXCEPT ![Sym(j)] = @ \cup ({d} \cap Priced(Sym(j)))]
                 /\ Goto(j, "dayok")
              \/ /\ Goto(j, "daybad")
                 /\ UNCHANGED ticker
    /\ UNCHANGED <<jobs, nextJob, status, market, up, mutex, target, adding, removal, daily,
                   today, used>>

CountDay(j) ==
    /\ up /\ pc[j] \in {"dayok", "daybad"}
    /\ jobs' = IF pc[j] = "dayok" THEN IncrementProgress(j, 1, 0) ELSE IncrementProgress(j, 0, 1)
    /\ Goto(j, "day")
    /\ UNCHANGED <<nextJob, status, market, ticker, up, mutex, todo, target, adding, removal,
                   daily, today, used>>

\* After the last day a row still pending becomes ready; errors are suppressed.
MarkWatchlistReady(j) ==
    /\ up /\ pc[j] = "day" /\ todo[j] = {}
    /\ Goto(j, "finish")
    /\ \/ status' = [status EXCEPT ![Sym(j)] = IF @ = "pending" THEN "ready" ELSE @]
       \/ UNCHANGED status
    /\ UNCHANGED <<jobs, nextJob, market, ticker, up, mutex, todo, target, adding, removal,
                   daily, today, used>>

-----------------------------------------------------------------------------
(* BackfillService._run_with_lock *)

RevalidationBegin(j) ==
    /\ up /\ pc[j] = "entered" /\ jobs[j].kind = "revalidation"
    /\ IF jobs[j].state \in TerminalStates
       THEN Leave(j) /\ UNCHANGED jobs
       ELSE /\ jobs' = [UpdateState(j, "running") EXCEPT ![j].total = Cardinality(jobs[j].range)]
            /\ todo' = [todo EXCEPT ![j] = jobs[j].range]
            /\ Goto(j, "symbols")
            /\ UNCHANGED <<mutex, target>>
    /\ UNCHANGED <<nextJob, status, market, ticker, up, adding, removal, daily, today, used>>

\* The watchlist is read once, before the loop.
RevalidationSymbols(j) ==
    /\ up /\ pc[j] = "symbols"
    /\ target' = [target EXCEPT ![j] = Watched]
    /\ Goto(j, IF todo[j] = {} THEN "finish" ELSE "recompute")
    /\ UNCHANGED <<db, up, mutex, todo, adding, removal, daily, today, used>>

RevalidationCancelled(j) ==
    /\ up /\ pc[j] = "recompute" /\ todo[j] # {}
    /\ jobs[j].cancel
    /\ jobs' = UpdateState(j, "cancelled")
    /\ Leave(j)
    /\ UNCHANGED <<nextJob, status, market, ticker, up, adding, removal, daily,
                   today, used>>

\* A day whose context or market row cannot be computed is rolled back.
RevalidationDayFails(j) ==
    /\ up /\ pc[j] = "recompute" /\ todo[j] # {}
    /\ ~jobs[j].cancel
    /\ todo' = [todo EXCEPT ![j] = @ \ {Min(@)}]
    /\ jobs' = IncrementProgress(j, 0, 1)
    /\ UNCHANGED <<nextJob, status, market, ticker, up, mutex, pc, target, adding, removal,
                   daily, today, used>>

\* A day recomputed: its rows are deleted first, so a ticker whose compute
\* raises (not in kept) ends the transaction without its old row.
RevalidationDay(j) ==
    /\ up /\ pc[j] = "recompute" /\ todo[j] # {}
    /\ ~jobs[j].cancel
    /\ LET d == Min(todo[j])
       IN  /\ todo' = [todo EXCEPT ![j] = @ \ {d}]
           /\ market' = market \cup {d}
           /\ \E kept \in SUBSET target[j] :
                ticker' = [s \in Symbols |->
                    CASE s \in kept /\ d \in Priced(s) -> ticker[s] \cup {d}
                      [] s \in target[j] /\ ~(s \in kept /\ d \in Priced(s)) -> ticker[s] \ {d}
                      [] OTHER -> ticker[s]]
    /\ Goto(j, "recomputed")
    /\ UNCHANGED <<jobs, nextJob, status, up, mutex, target, adding, removal, daily, today, used>>

RevalidationCount(j) ==
    /\ up /\ pc[j] = "recomputed"
    /\ jobs' = IncrementProgress(j, 1, 0)
    /\ Goto(j, "recompute")
    /\ UNCHANGED <<nextJob, status, market, ticker, up, mutex, todo, target, adding, removal,
                   daily, today, used>>

\* The streak rebuild; it either commits or is rolled back, the job goes on.
RevalidationRebuild(j) ==
    /\ up /\ pc[j] = "recompute" /\ todo[j] = {}
    /\ Goto(j, "finish")
    /\ UNCHANGED <<db, up, mutex, todo, target, adding, removal, daily, today, used>>

-----------------------------------------------------------------------------
(* run_daily_update, on the event loop *)

\* The tickers are read here and used until the end of the run.
DailyStart ==
    /\ LoopFree
    /\ daily.at = "idle"
    /\ used.dailies < MaxDailies
    /\ Spend("dailies")
    /\ daily' = [at |-> "fetch", day |-> today, syms |-> Watched]
    /\ UNCHANGED <<db, up, mutex, pc, todo, target, adding, removal, today>>

\* After the download: the tickers visited are marked ready or delisted for
\* every row that exists by then.  A ticker being cold-started is waited for
\* (its symbol lock).  A scheduled run without gaps visits none.
DailyPersist ==
    /\ LoopFree
    /\ daily.at = "fetch"
    /\ \A j \in JobIds : ~(pc[j] = "fetch" /\ Sym(j) \in daily.syms)
    /\ \E visited \in SUBSET daily.syms : \E bad \in SUBSET visited :
         status' = [s \in Symbols |->
            IF s \in visited \cap Watched
            THEN IF s \in bad THEN "delisted" ELSE "ready"
            ELSE status[s]]
    /\ daily' = [daily EXCEPT !.at = "persisted"]
    /\ UNCHANGED <<jobs, nextJob, market, ticker, up, mutex, pc, todo, target, adding, removal,
                   today, used>>

\* `with snapshot_write_mutex()` on the loop thread: the loop stops here.
DailyWait ==
    /\ LoopFree
    /\ daily.at = "persisted"
    /\ daily' = [daily EXCEPT !.at = "waiting"]
    /\ UNCHANGED <<db, up, mutex, pc, todo, target, adding, removal, today, used>>

DailyAcquire ==
    /\ up /\ daily.at = "waiting"
    /\ MutexFree
    /\ mutex' = Daily
    /\ daily' = [daily EXCEPT !.at = "composing"]
    /\ UNCHANGED <<db, up, pc, todo, target, adding, removal, today, used>>

\* _compute_and_compose_for_all: the market row and each ticker on its own
\* may fail; what succeeded is committed.
DailyCompose ==
    /\ up /\ daily.at = "composing"
    /\ \E marketOk \in BOOLEAN : market' = IF marketOk THEN market \cup {daily.day} ELSE market
    /\ \E kept \in SUBSET daily.syms :
         ticker' = [s \in Symbols |-> IF s \in kept
                                      THEN ticker[s] \cup ({daily.day} \cap Priced(s))
                                      ELSE ticker[s]]
    /\ mutex' = NoOne
    /\ daily' = NoDaily
    /\ UNCHANGED <<jobs, nextJob, status, up, pc, todo, target, adding, removal, today, used>>

\* Any exception ends the run; `with` releases the mutex.
DailyRaises ==
    /\ up /\ daily.at \in {"fetch", "persisted", "composing"}
    /\ (daily.at = "composing" \/ LoopFree)
    /\ used.faults < MaxFaults
    /\ Spend("faults")
    /\ mutex' = IF daily.at = "composing" THEN NoOne ELSE mutex
    /\ daily' = NoDaily
    /\ UNCHANGED <<db, up, pc, todo, target, adding, removal, today>>

-----------------------------------------------------------------------------
(* The environment *)

NextTradingDay ==
    /\ today < MaxDay
    /\ today' = today + 1
    /\ UNCHANGED <<db, process, used>>

\* The process dies: the database stays as committed, the rest is gone.
Crash ==
    /\ up
    /\ used.restarts < MaxRestarts
    /\ Spend("restarts")
    /\ up' = FALSE
    /\ mutex' = NoOne
    /\ pc' = [j \in JobIds |-> "idle"]
    /\ todo' = [j \in JobIds |-> {}]
    /\ target' = [j \in JobIds |-> {}]
    /\ adding' = NoOne
    /\ removal' = NoRemoval
    /\ daily' = NoDaily
    /\ UNCHANGED <<db, today>>

\* Mutants: jobs that never started are overlooked; finished jobs are swept
\* too; the error code is written to the state.
SweepRunningOnly ==
    [j \in JobIds |-> IF jobs[j].state = "running" THEN [jobs[j] EXCEPT !.state = "failed"]
                                                   ELSE jobs[j]]
SweepEveryRow == [j \in JobIds |-> [jobs[j] EXCEPT !.state = "failed"]]
SweepToErrorCode ==
    [j \in JobIds |-> IF Active(j) THEN [jobs[j] EXCEPT !.state = "orphaned_by_restart"]
                                   ELSE jobs[j]]

\* mark_orphaned_backfills_failed, before the first request is served.
OrphanSweep ==
    [j \in JobIds |-> IF Active(j) THEN [jobs[j] EXCEPT !.state = "failed"] ELSE jobs[j]]

Boot ==
    /\ ~up
    /\ jobs' = OrphanSweep
    /\ up' = TRUE
    /\ UNCHANGED <<nextJob, status, market, ticker, mutex, pc, todo, target, adding, removal,
                   daily, today, used>>

-----------------------------------------------------------------------------
Handlers ==
    \/ \E s \in Symbols : AddToWatchlist(s) \/ RemoveRead(s)
    \/ OnboardingDeferred \/ StartOnboarding \/ RevalidateAllSnapshots \/ RemoveCommit
    \/ \E j \in JobIds : CancelJob(j)

OnboardingStep(j) ==
    \/ OnboardingBegin(j) \/ ColdStartRead(j) \/ ColdStartFetched(j) \/ ColdStartAbort(j)
    \/ FindGaps(j) \/ OnboardingCancelled(j) \/ OnboardingDay(j) \/ CountDay(j)
    \/ MarkWatchlistReady(j)

RevalidationStep(j) ==
    \/ RevalidationBegin(j) \/ RevalidationSymbols(j) \/ RevalidationCancelled(j)
    \/ RevalidationDayFails(j) \/ RevalidationDay(j) \/ RevalidationCount(j)
    \/ RevalidationRebuild(j)

\* What a runner thread does of its own accord.
RunnerStep(j) ==
    \/ Acquire(j) \/ OnboardingStep(j) \/ RevalidationStep(j) \/ Complete(j) \/ RecordFailure(j)

DailyStep == DailyPersist \/ DailyWait \/ DailyAcquire \/ DailyCompose

Next ==
    \/ Handlers
    \/ \E j \in JobIds : RunnerStep(j) \/ RunnerRaises(j)
    \/ DailyStart \/ DailyStep \/ DailyRaises
    \/ NextTradingDay \/ Crash \/ Boot

Spec == Init /\ [][Next]_vars

\* Threads run, the update on the loop goes on after its awaits, a request is
\* answered, a dead process is restarted (docker-compose, launchd).  Nothing
\* forces a user, a crash or a calendar day.
Fairness ==
    /\ \A j \in JobIds : WF_vars(RunnerStep(j))
    /\ WF_vars(DailyStep)
    /\ WF_vars(RemoveCommit)
    /\ WF_vars(OnboardingDeferred \/ StartOnboarding)
    /\ WF_vars(Boot)

FairSpec == Spec /\ Fairness

-----------------------------------------------------------------------------
(* What the runs check *)

\* Every variable has its type.
TypeOK ==
    /\ jobs \in [JobIds -> JobRow]
    /\ nextJob \in Nat
    /\ status \in [Symbols -> Statuses]
    /\ market \in SUBSET Days
    /\ ticker \in [Symbols -> SUBSET Days]
    /\ up \in BOOLEAN
    /\ mutex \in JobIds \cup {NoOne, Daily}
    /\ pc \in [JobIds -> Locations]
    /\ todo \in [JobIds -> SUBSET Days]
    /\ target \in [JobIds -> SUBSET Symbols]
    /\ adding \in Symbols \cup {NoOne}
    /\ removal \in [sym : Symbols \cup {NoOne}, job : JobIds \cup {0}]
    /\ daily \in [at : {"idle", "fetch", "persisted", "waiting", "composing"},
                  day : Days, syms : SUBSET Symbols]
    /\ today \in Days
    /\ used \in [dailies : Nat, restarts : Nat, faults : Nat]

Writers == {j \in JobIds : pc[j] \in Holding}
             \cup (IF daily.at = "composing" THEN {Daily} ELSE {})

\* snapshot_write_mutex.py: nobody computes or writes snapshot rows while
\* somebody else does, through exceptions, cancellations and restarts.
OneSnapshotWriter == \A a, b \in Writers : a = b

\* backfill_service.py and symbol_onboarding_service.py: a revalidation is
\* never active together with any other job, whoever asked first.
RevalidationRunsAlone ==
    \A j, k \in JobIds : Active(j) /\ Active(k) /\ j # k =>
        jobs[j].kind = "onboarding" /\ jobs[k].kind = "onboarding"

\* mark_orphaned_backfills_failed: while the process serves, a job is active
\* exactly as long as a thread works for it, so no dead job blocks new ones
\* (unless its thread died recording a failure: location "lost").
JobsMatchThreads == up => \A j \in JobIds : Active(j) <=> pc[j] # "idle"

\* The progress a client polls: the days counted never exceed total_days,
\* and a completed job has accounted for every one of them.
ProgressAddsUp ==
    \A j \in JobIds :
        /\ jobs[j].processed + jobs[j].failed <= jobs[j].total
        /\ jobs[j].state = "completed" => jobs[j].processed + jobs[j].failed = jobs[j].total

\* update_state checks nothing, yet no path rewrites a finished job: not the
\* failure handler, not the orphan sweep, not a late cancellation.
FinishedJobsStayFinished ==
    [][\A j \in JobIds : jobs[j].state \in TerminalStates => jobs'[j].state = jobs[j].state]_vars

\* An onboarding that completes without a failed day leaves no hole: the
\* ticker has a row for every market date it has prices for, including the
\* dates the daily update adds while the job waits or runs.
CompletedOnboardingLeavesNoHole ==
    [][\A j \in JobIds :
          /\ jobs[j].kind = "onboarding" /\ jobs[j].failed = 0
          /\ jobs[j].state = "running" /\ jobs'[j].state = "completed"
          => market \cap Priced(Sym(j)) \subseteq ticker[Sym(j)]]_vars

\* Every job ends, however runners, updates, cancellations and restarts
\* interleave; only a thread that died recording its failure leaves one open.
JobsEnd == \A j \in JobIds : Active(j) ~> (~Active(j) \/ pc[j] = "lost")

\* The event loop blocked on the mutex is released: no runner waits for the loop.
LoopUnblocks == daily.at = "waiting" ~> daily.at # "waiting"

-----------------------------------------------------------------------------
\* The rows of backfill_job behave as the job board promises.
Board == INSTANCE JobBoard WITH
    state  <- [j \in JobIds |-> jobs[j].state],
    kind   <- [j \in JobIds |-> jobs[j].kind],
    cancel <- [j \in JobIds |-> jobs[j].cancel]

\* The two services, the three handlers and the startup sweep together
\* implement the life of a job that /api/v1/jobs shows its clients.
ImplementsJobBoard == Board!Spec
=============================================================================
