------------------------------- MODULE PriceBars -------------------------------
(***************************************************************************)
(* daily_price: how bars get into the table, and how the program tells a   *)
(* bar written during its session from a final one.                        *)
(*                                                                         *)
(* An update asks the table which sessions are missing or were written too *)
(* early, downloads history (closed bars, cached per UTC day) and the      *)
(* running bar (never cached), and upserts the sessions it asked for; a    *)
(* cold start does the same for one new ticker and all of its history.     *)
(* Updates, cold starts and the trading day overlap as they like, but a    *)
(* wait takes less than a quarter of an hour, and all those of a run less  *)
(* than hours, unless the machine sleeps.                                  *)
(***************************************************************************)
EXTENDS Integers, FiniteSets, FiniteSetsExt

CONSTANTS
    Symbols,        \* tickers
    SystemSymbols,  \* those fetched whether or not anyone watches them
    MaxDay,         \* bound: calendar days, numbered 1 .. MaxDay
    Trading,        \* the NYSE sessions among them
    Lookback,       \* backfill_window_trading_days
    Runs,           \* updates and cold starts that may be under way together
    MaxMisses,      \* bound: running bars the provider does not deliver
    MaxFailures,    \* bound: downloads that fail
    MaxSleeps       \* bound: waits that outlast a phase

Days == 1 .. MaxDay

ASSUME BarsAssumption ==
    /\ SystemSymbols \subseteq Symbols
    /\ MaxDay \in Nat \ {0} /\ Trading \subseteq Days /\ 1 \in Trading
    /\ Lookback \in Nat \ {0}
    /\ MaxMisses \in Nat /\ MaxFailures \in Nat /\ MaxSleeps \in Nat

VARIABLES
    now,     \* the clock in New York: [day, phase]
    row,     \* daily_price: [Symbols -> [Days -> bar]]
    status,  \* watchlist.data_status, or "none" for a ticker not watched
    queued,  \* tickers whose onboarding thread has yet to reach its cold start
    cache,   \* the parquet files of this UTC day
    run,     \* [Runs -> what an update or a cold start holds]
    used     \* how much of each bound is spent

vars == <<now, row, status, queued, cache, run, used>>

-----------------------------------------------------------------------------
(* The trading day: open, closed with the provider lagging, its bar final  *)
(* but within the buffer of 30 minutes, settled, past midnight UTC.        *)

Before == 0  Open == 1  Lag == 2  Buffer == 3  Settling == 4  Night == 5
Phases == Before .. Night

NextPhase ==
    IF now.day \in Trading THEN now.phase + 1 ELSE Night

UtcDay == IF now.phase = Night THEN now.day + 1 ELSE now.day

LastTradingDay == Max({0} \cup {d \in Trading : d <= now.day})

\* Mutant: no buffer, a session is settled when it closes.
SettledAtClose(d) == d < now.day \/ (d = now.day /\ now.phase >= Lag)

\* now >= close + buffer.
Settled(d) == d < now.day \/ (d = now.day /\ now.phase >= Settling)

-----------------------------------------------------------------------------
(* The provider, and what the cache keeps of it *)

Data == {"none", "partial", "final"}
NoBars == [d \in Days |-> "none"]

RunningDay ==
    IF now.day \in Trading /\ now.phase >= Open
    THEN now.day
    ELSE Max({0} \cup {d \in Trading : d < now.day})

\* period="1d": the running bar, or that of the last session.
RunningBar ==
    [d \in Days |->
        IF d # RunningDay THEN "none"
        ELSE IF d = now.day /\ now.phase \in {Open, Lag} THEN "partial" ELSE "final"]

AllBars == [d \in Days |-> IF d \in Trading /\ d < now.day THEN "final" ELSE RunningBar[d]]

\* Mutant: today's bar stays in the frame that is cached.
TodayKept == AllBars

\* _strip_today.
ClosedBars == [d \in Days |-> IF d < now.day THEN AllBars[d] ELSE "none"]

Merge(history, running) ==
    [d \in Days |-> IF running[d] = "none" THEN history[d] ELSE running[d]]

-----------------------------------------------------------------------------
(* What an update asks for *)

Watched == {s \in Symbols : status[s] # "none"}

\* The last Lookback sessions.
Window == {d \in Trading : /\ d <= now.day
                           /\ Cardinality({e \in Trading : d < e /\ e <= now.day}) < Lookback}

Gaps(s) == {d \in Window : row[s][d].data = "none"}

\* Mutant: partial bars are not looked for.
NoPartials(s) == {}

Partials(s) == {d \in Window : row[s][d].data # "none" /\ Settled(d) /\ ~row[s][d].late}

NoBar == [data |-> "none", late |-> FALSE]
Idle == [at |-> "idle", cold |-> FALSE, syms |-> {}, allowed |-> [s \in Symbols |-> {}],
         bars |-> NoBars, fresh |-> FALSE, settled |-> 0]

\* The period of a cold start, longer than that of any update.
TwoYears == MaxDay + 1

\* A step of a run that is followed by waits shorter than the phase: all of
\* them together in a phase of hours, each on its own in a quarter of an hour.
Rested(r) == run[r].fresh \/ now.phase \in {Lag, Buffer}

Spend(bound) == used' = [used EXCEPT ![bound] = @ + 1]

Init ==
    /\ now = [day |-> 1, phase |-> Before]
    /\ row = [s \in Symbols |-> [d \in Days |-> NoBar]]
    /\ status = [s \in Symbols |-> "none"]
    /\ queued = {}
    /\ cache = {}
    /\ run = [r \in Runs |-> Idle]
    /\ used = [misses |-> 0, failures |-> 0, sleeps |-> 0]

-----------------------------------------------------------------------------
(* Watchlist *)

\* POST: the row, and an onboarding thread that waits for the mutex.
Add(s) ==
    /\ status[s] = "none"
    /\ status' = [status EXCEPT ![s] = "pending"]
    /\ queued' = queued \cup {s}
    /\ UNCHANGED <<now, row, cache, run, used>>

-----------------------------------------------------------------------------
(* run_daily_update and backfill_ticker *)

\* data_status, of those among syms that somebody watches.
Mark(syms, outcome) ==
    [s \in Symbols |-> IF s \in syms \cap Watched THEN outcome ELSE status[s]]

\* The history: the file of this UTC day, period and set of symbols, or a
\* download that writes it.  If the download fails a cold start has failed; the
\* daily update goes on without any frame, and takes its symbols for delisted.
Begin(r, cold, syms, allowed, span) ==
    LET hit  == {f \in cache : f.span = span /\ f.syms = syms}
        bars == IF hit = {} THEN ClosedBars ELSE (CHOOSE f \in hit : TRUE).bars
    IN  \/ /\ cache' = cache \cup {[span |-> span, syms |-> syms, bars |-> bars]}
           /\ run' = [run EXCEPT ![r] =
                 [at |-> "history", cold |-> cold, syms |-> syms, allowed |-> allowed,
                  bars |-> bars, fresh |-> TRUE,
                  settled |-> Max({0} \cup {d \in Trading : Settled(d)})]]
           /\ UNCHANGED <<status, used>>
        \/ /\ hit = {} /\ used.failures < MaxFailures
           /\ status' = Mark(syms, IF cold THEN "failed" ELSE "delisted")
           /\ Spend("failures")
           /\ UNCHANGED <<run, cache>>

\* The nightly job goes no further on a day without a session, nor when there
\* is nothing to do; a click and the catch-up at startup always download.
UpdateStart(r, trigger) ==
    LET syms == Watched \cup SystemSymbols
        work == [s \in Symbols |-> IF s \in syms THEN Gaps(s) \cup Partials(s) ELSE {}]
        all  == UNION {work[s] : s \in syms}
    IN  /\ run[r].at = "idle"
        /\ syms # {}
        /\ trigger = "scheduled" => now.day \in Trading /\ all # {}
        /\ IF all # {}
           THEN Begin(r, FALSE, syms, work, LastTradingDay - Min(all))
           ELSE Begin(r, FALSE, syms,
                      [s \in Symbols |-> IF s \in syms THEN {LastTradingDay} ELSE {}], 0)
        /\ UNCHANGED <<now, row, queued>>

ColdStarting == UNION {run[r].syms : r \in {q \in Runs : run[q].at # "idle" /\ run[q].cold}}

\* One at a time, under the mutex.  A ticker that has become ready is left alone.
ColdStart(r, s) ==
    /\ run[r].at = "idle" /\ s \in queued
    /\ ColdStarting = {}
    /\ queued' = queued \ {s}
    /\ IF status[s] = "ready"
       THEN UNCHANGED <<status, cache, run, used>>
       ELSE Begin(r, TRUE, {s}, [t \in Symbols |-> IF t = s THEN Trading ELSE {}], TwoYears)
    /\ UNCHANGED <<now, row>>

FetchRunning(r) ==
    /\ run[r].at = "history"
    /\ run' = [run EXCEPT ![r].at = "bars", ![r].bars = Merge(@, RunningBar), ![r].fresh = Rested(r)]
    /\ UNCHANGED <<now, row, status, queued, cache, used>>

\* The running bar is best effort.
MissRunning(r) ==
    /\ run[r].at = "history" /\ used.misses < MaxMisses
    /\ run' = [run EXCEPT ![r].at = "bars", ![r].fresh = Rested(r)]
    /\ Spend("misses")
    /\ UNCHANGED <<now, row, status, queued, cache>>

\* Allowed sessions are upserted, each with the time of this write; the daily
\* update waits for the symbol lock of a cold start.
Persist(r) ==
    LET bar(s, d) ==
          IF d \in run[r].allowed[s] /\ run[r].bars[d] # "none"
          THEN [data |-> run[r].bars[d], late |-> Settled(d)]
          ELSE row[s][d]
        found == \E d \in Days : run[r].bars[d] # "none"
    IN  /\ run[r].at = "bars"
        /\ run[r].cold \/ run[r].syms \cap ColdStarting = {}
        /\ row' = [s \in Symbols |-> [d \in Days |-> bar(s, d)]]
        /\ status' = Mark(run[r].syms, IF found THEN "ready" ELSE "delisted")
        /\ run' = [run EXCEPT ![r] = Idle]
        /\ UNCHANGED <<now, queued, cache, used>>

-----------------------------------------------------------------------------
(* The clock *)

\* A run that has been waiting since the phase before outlasts this one only if
\* the machine sleeps.
Tick ==
    LET stale == \E r \in Runs : run[r].at # "idle" /\ ~run[r].fresh
    IN  /\ IF now.phase < Night
           THEN now' = [now EXCEPT !.phase = NextPhase]
           ELSE now.day < MaxDay /\ now' = [day |-> now.day + 1, phase |-> Before]
        /\ IF stale THEN used.sleeps < MaxSleeps /\ Spend("sleeps") ELSE UNCHANGED used
        /\ run' = [r \in Runs |-> [run[r] EXCEPT !.fresh = FALSE]]
        /\ cache' = IF UtcDay' = UtcDay THEN cache ELSE {}
        /\ UNCHANGED <<row, status, queued>>

Next ==
    \/ Tick
    \/ \E s \in Symbols \ SystemSymbols : Add(s)
    \/ \E r \in Runs :
         \/ \E trigger \in {"scheduled", "manual", "startup"} : UpdateStart(r, trigger)
         \/ \E s \in queued : ColdStart(r, s)
         \/ FetchRunning(r) \/ MissRunning(r) \/ Persist(r)

Spec == Init /\ [][Next]_vars

-----------------------------------------------------------------------------
(* Properties *)

Bars == [data : Data, late : BOOLEAN]
RunStates ==
    [at : {"idle", "history", "bars"}, cold : BOOLEAN, syms : SUBSET Symbols,
     allowed : [Symbols -> SUBSET Trading], bars : [Days -> Data], fresh : BOOLEAN,
     settled : 0 .. MaxDay]

\* The variables have their types; a bar that was never written has no time,
\* and no file of the cache holds a bar of today (yfinance_source.py:12,
\* "EXCLUDES today").
TypeOK ==
    /\ now \in [day : Days, phase : Phases]
    /\ row \in [Symbols -> [Days -> Bars]]
    /\ status \in [Symbols -> {"none", "pending", "ready", "failed", "delisted"}]
    /\ queued \subseteq Symbols
    /\ run \in [Runs -> RunStates]
    /\ used \in [misses : 0 .. MaxMisses, failures : 0 .. MaxFailures, sleeps : 0 .. MaxSleeps]
    /\ \A s \in Symbols, d \in Days :
         row[s][d].data = "none" => ~row[s][d].late
    /\ \A f \in cache : f.bars \in [Days -> Data] /\ \A d \in now.day .. MaxDay : f.bars[d] = "none"

\* A row whose time lies past the buffer holds the final bar, so that
\* _find_partial_session_dates may leave it alone for good: true as long as
\* no wait between the running bar and its write outlasts a phase.
UnflaggedBarsAreFinal ==
    used.sleeps = 0 =>
        \A s \in Symbols, d \in Days : row[s][d].late => row[s][d].data = "final"

\* An update that writes leaves every session of its window that was settled
\* when it looked with a final bar, for every ticker it was asked for, if the
\* provider has not failed so far.
UpdatesCatchUp ==
    [][ \A r \in Runs :
          Persist(r) /\ ~run[r].cold /\ used.sleeps + used.misses + used.failures = 0
          => \A s \in run[r].syms, d \in Window :
               d <= run[r].settled => row'[s][d] = [data |-> "final", late |-> TRUE] ]_vars

\* Onboarding gives a ticker its whole history (symbol_onboarding_service.py:8):
\* once the cold start of a ready ticker is over, no session before its oldest
\* bar is missing.
ReadyTickersHaveHistory ==
    \A s \in Symbols :
        status[s] = "ready" /\ s \notin queued \cup ColdStarting
        => \A d \in Trading : row[s][d].data = "none" =>
             \E e \in Trading : e < d /\ row[s][e].data # "none"
=============================================================================
