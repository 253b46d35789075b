---------------------------- MODULE PriceBars_proofs ----------------------------
(***************************************************************************)
(* Proofs about PriceBars, for any calendar, any tickers and any number of *)
(* updates and cold starts side by side.                                   *)
(*                                                                         *)
(* That a late bar is final is not inductive: a run may hold a partial bar *)
(* in memory when the session settles.  PartialsAreRecent says when it may *)
(* not: a partial bar is of today, and once the provider has the final one *)
(* the run that holds it has waited since before, so that it must write or *)
(* outlast a phase.                                                        *)
(*                                                                         *)
(* That an update leaves its window filled (UpdatesCatchUp) speaks of the  *)
(* moment it writes; CatchUpInv says what it relies on before.  The file   *)
(* of the day is the difficulty: written at night, it lacks that day's     *)
(* session, and an update that reads it after the next open would never    *)
(* get that bar.  Helped names who brings it: the run that wrote the file, *)
(* which is still at work in that phase, and finished when it is over.     *)
(***************************************************************************)
EXTENDS PriceBars, NumberLemmas

\* Bars no longer partial: of other days, or of today when the provider has
\* the final one and the run has rested since.
PartialsAreRecent ==
    used.sleeps = 0 =>
        \A r \in Runs, d \in Days :
            run[r].bars[d] = "partial" =>
                /\ run[r].at = "bars" /\ d = now.day
                /\ now.phase \in {Open, Lag} \/ (now.phase = Buffer /\ ~run[r].fresh)

\* A day without a session has no trading hours.
HoursAreOfSessions == now.phase \in Open .. Settling => now.day \in Trading

\* History never holds a partial bar, whether downloaded or cached.
CacheIsClosed == \A f \in cache, d \in Days : f.bars[d] # "partial"

IInv == TypeOK /\ UnflaggedBarsAreFinal /\ PartialsAreRecent /\ HoursAreOfSessions /\ CacheIsClosed

-----------------------------------------------------------------------------
\* The phases are numbers.
LEMMA PhasesAreNumbers ==
    /\ Phases = 0 .. 5
    /\ Before = 0 /\ Open = 1 /\ Lag = 2 /\ Buffer = 3 /\ Settling = 4 /\ Night = 5
  BY DEF Phases, Before, Open, Lag, Buffer, Settling, Night

\* The latest of some sessions is one of them, or 0 if there is none.
LEMMA LatestDay ==
    ASSUME NEW S \in SUBSET Trading
    PROVE  /\ Max({0} \cup S) \in {0} \cup S /\ Max({0} \cup S) \in 0 .. MaxDay
           /\ \A d \in S : d <= Max({0} \cup S)
  <1>1. MaxDay \in Nat /\ S \subseteq 1 .. MaxDay
    BY BarsAssumption DEF Days
  <1>2. {0} \cup S \in SUBSET (0 .. MaxDay)
    BY <1>1
  <1>3. Max({0} \cup S) \in {0} \cup S /\ \A d \in {0} \cup S : Max({0} \cup S) >= d
    BY <1>1, <1>2, MaxIsGreatest
  <1> QED
    BY <1>1, <1>2, <1>3

\* last_trading_day_et finds a session, and so the manual update asks for one.
LEMMA LastTradingDayIsASession ==
    ASSUME now.day \in Days
    PROVE  LastTradingDay \in Trading
  <1> DEFINE S == {d \in Trading : d <= now.day}
  <1>1. 1 \in S
    BY BarsAssumption DEF Days
  <1>2. LastTradingDay \in {0} \cup S /\ 1 <= LastTradingDay
    BY <1>1, LatestDay DEF LastTradingDay
  <1> QED
    BY <1>2

\* What the provider calls the running bar is partial only while the session
\* of today is on, or has just closed.
LEMMA RunningBarIsOfToday ==
    ASSUME TypeOK
    PROVE  /\ RunningBar \in [Days -> Data]
           /\ \A d \in Days : RunningBar[d] = "partial" =>
                d = now.day /\ now.phase \in {Open, Lag}
  <1>1. \A d \in Days : RunningBar[d] \in Data
    BY DEF RunningBar, Data
  <1>2. \A d \in Days : RunningBar[d] = "partial" => d = now.day /\ now.phase \in {Open, Lag}
    BY DEF RunningBar
  <1>3. RunningBar = [d \in Days |-> RunningBar[d]]
    BY DEF RunningBar
  <1> QED
    BY <1>1, <1>2, <1>3

\* What is cached is neither partial nor of today.
LEMMA ClosedBarsAreClosed ==
    ASSUME TypeOK
    PROVE  /\ ClosedBars \in [Days -> Data]
           /\ \A d \in Days : ClosedBars[d] # "partial"
           /\ \A d \in now.day .. MaxDay : ClosedBars[d] = "none"
  <1>1. now.day \in Nat /\ Days \subseteq Nat /\ now.day .. MaxDay \subseteq Days
    BY BarsAssumption DEF TypeOK, Days
  <1>2. \A d \in Days : d < now.day => AllBars[d] \in Data /\ AllBars[d] # "partial"
    BY <1>1, RunningBarIsOfToday DEF AllBars, Data
  <1>3. \A d \in Days : ClosedBars[d] = IF d < now.day THEN AllBars[d] ELSE "none"
    BY DEF ClosedBars
  <1>4. \A d \in Days : ClosedBars[d] \in Data /\ ClosedBars[d] # "partial"
    BY <1>2, <1>3 DEF Data
  <1>5. ClosedBars = [d \in Days |-> ClosedBars[d]]
    BY DEF ClosedBars
  <1> QED
    BY <1>1, <1>3, <1>4, <1>5

\* data_status keeps its type, whatever is marked.
LEMMA MarkTyped ==
    ASSUME TypeOK, NEW syms, NEW outcome \in {"ready", "failed", "delisted"}
    PROVE  Mark(syms, outcome) \in [Symbols -> {"none", "pending", "ready", "failed", "delisted"}]
  BY DEF TypeOK, Mark

\* At first there are neither bars nor runs.
LEMMA InitHolds == Init => IInv
  <1> SUFFICES ASSUME Init PROVE IInv
    OBVIOUS
  <1> USE BarsAssumption DEF Init
  <1>1. Idle \in RunStates
    BY DEF Idle, RunStates, NoBars, Data
  <1>2. row \in [Symbols -> [Days -> Bars]]
    BY DEF Bars, NoBar, Data
  <1>3. now \in [day : Days, phase : Phases]
    BY PhasesAreNumbers DEF Days
  <1>4. TypeOK
    BY <1>1, <1>2, <1>3 DEF TypeOK, NoBar
  <1>5. UnflaggedBarsAreFinal /\ PartialsAreRecent /\ HoursAreOfSessions /\ CacheIsClosed
    BY PhasesAreNumbers DEF UnflaggedBarsAreFinal, PartialsAreRecent, HoursAreOfSessions, CacheIsClosed, NoBar, Idle, NoBars
  <1> QED
    BY <1>4, <1>5 DEF IInv

\* A run that begins holds closed bars only, from the cache or to be cached.
LEMMA BeginHolds ==
    ASSUME IInv, NEW r \in Runs, NEW cold \in BOOLEAN, NEW syms \in SUBSET Symbols,
           NEW allowed \in [Symbols -> SUBSET Trading], NEW span,
           Begin(r, cold, syms, allowed, span), UNCHANGED <<now, row>>, queued' \subseteq Symbols
    PROVE  IInv'
  <1> DEFINE hit  == {f \in cache : f.span = span /\ f.syms = syms}
             bars == IF hit = {} THEN ClosedBars ELSE (CHOOSE f \in hit : TRUE).bars
             file == [span |-> span, syms |-> syms, bars |-> bars]
             next == [at |-> "history", cold |-> cold, syms |-> syms, allowed |-> allowed,
                      bars |-> bars, fresh |-> TRUE,
                      settled |-> Max({0} \cup {d \in Trading : Settled(d)})]
  <1>1. /\ bars \in [Days -> Data]
        /\ \A d \in Days : bars[d] # "partial"
        /\ \A d \in now.day .. MaxDay : bars[d] = "none"
    <2>1. CASE hit = {}
      BY <2>1, ClosedBarsAreClosed DEF IInv
    <2>2. CASE hit # {}
      <3>1. PICK f \in hit : f = (CHOOSE g \in hit : TRUE)
        BY <2>2
      <3> QED
        BY <2>2, <3>1, ZenonT(30) DEF IInv, TypeOK, CacheIsClosed
    <2> QED
      BY <2>1, <2>2
  <1>2. CASE /\ cache' = cache \cup {file}
             /\ run' = [run EXCEPT ![r] = next]
             /\ UNCHANGED <<status, used>>
    <2> HIDE DEF bars
    <2>1. next \in RunStates
      BY <1>1, LatestDay DEF RunStates
    <2>2. TypeOK'
      <3>1. file.bars = bars
        OBVIOUS
      <3>2. \A f \in cache' : f.bars \in [Days -> Data]
                            /\ \A d \in now.day .. MaxDay : f.bars[d] = "none"
        <4> HIDE DEF file
        <4> QED
          BY <1>1, <1>2, <3>1 DEF IInv, TypeOK
      <3>3. run' \in [Runs -> RunStates]
        <4> HIDE DEF next
        <4> QED
          BY <1>2, <2>1 DEF IInv, TypeOK
      <3> QED
        BY <1>2, <3>2, <3>3 DEF IInv, TypeOK
    <2>3. UnflaggedBarsAreFinal' /\ HoursAreOfSessions'
      BY <1>2 DEF IInv, UnflaggedBarsAreFinal, HoursAreOfSessions
    <2>4. PartialsAreRecent'
      BY <1>1, <1>2, <2>1 DEF IInv, TypeOK, PartialsAreRecent
    <2>5. CacheIsClosed'
      BY <1>1, <1>2 DEF IInv, CacheIsClosed
    <2> QED
      BY <2>2, <2>3, <2>4, <2>5 DEF IInv
  <1>3. CASE /\ used.failures < MaxFailures
             /\ status' = Mark(syms, IF cold THEN "failed" ELSE "delisted")
             /\ Spend("failures")
             /\ UNCHANGED <<run, cache>>
    <2>1. /\ used' \in [misses : 0 .. MaxMisses, failures : 0 .. MaxFailures, sleeps : 0 .. MaxSleeps]
          /\ used'.sleeps = used.sleeps
      BY <1>3, BarsAssumption DEF IInv, TypeOK, Spend
    <2>2. status' \in [Symbols -> {"none", "pending", "ready", "failed", "delisted"}]
      BY <1>3, MarkTyped DEF IInv
    <2>3. TypeOK'
      BY <1>3, <2>1, <2>2 DEF IInv, TypeOK
    <2>4. UnflaggedBarsAreFinal' /\ PartialsAreRecent' /\ HoursAreOfSessions' /\ CacheIsClosed'
      BY <1>3, <2>1 DEF IInv, UnflaggedBarsAreFinal, PartialsAreRecent, HoursAreOfSessions, CacheIsClosed
    <2> QED
      BY <2>3, <2>4 DEF IInv
  <1> QED
    BY <1>2, <1>3 DEF Begin

\* UpdateStart passes a well-formed order to Begin.
LEMMA UpdateStartHolds ==
    ASSUME IInv, NEW r \in Runs, NEW trigger, UpdateStart(r, trigger)
    PROVE  IInv'
  <1> DEFINE syms == Watched \cup SystemSymbols
             work == [s \in Symbols |-> IF s \in syms THEN Gaps(s) \cup Partials(s) ELSE {}]
             all  == UNION {work[s] : s \in syms}
             last == [s \in Symbols |-> IF s \in syms THEN {LastTradingDay} ELSE {}]
  <1>1. syms \in SUBSET Symbols
    BY BarsAssumption DEF Watched
  <1>2. work \in [Symbols -> SUBSET Trading]
    BY DEF Gaps, Partials, Window
  <1>3. last \in [Symbols -> SUBSET Trading]
    BY LastTradingDayIsASession DEF IInv, TypeOK
  <1>4. UNCHANGED <<now, row>> /\ queued' \subseteq Symbols
    BY DEF UpdateStart, IInv, TypeOK
  <1>5. \/ Begin(r, FALSE, syms, work, LastTradingDay - Min(all))
        \/ Begin(r, FALSE, syms, last, 0)
    BY DEF UpdateStart
  <1> HIDE DEF syms, work, last
  <1> QED
    BY <1>1, <1>2, <1>3, <1>4, <1>5, BeginHolds

\* So does a cold start that finds its ticker not ready.
LEMMA ColdStartHolds ==
    ASSUME IInv, NEW r \in Runs, NEW s \in queued, ColdStart(r, s)
    PROVE  IInv'
  <1> DEFINE allowed == [t \in Symbols |-> IF t = s THEN Trading ELSE {}]
  <1>1. s \in Symbols /\ queued' \subseteq Symbols /\ UNCHANGED <<now, row>>
    BY DEF ColdStart, IInv, TypeOK
  <1>2. allowed \in [Symbols -> SUBSET Trading]
    OBVIOUS
  <1>3. CASE Begin(r, TRUE, {s}, allowed, TwoYears)
    <2> HIDE DEF allowed
    <2> QED
      BY <1>1, <1>2, <1>3, BeginHolds
  <1>4. CASE UNCHANGED <<status, cache, run, used>>
    BY <1>1, <1>4 DEF IInv, TypeOK, UnflaggedBarsAreFinal, PartialsAreRecent, HoursAreOfSessions, CacheIsClosed
  <1> QED
    BY <1>3, <1>4 DEF ColdStart

\* A run that receives the running bar holds a partial one only of a session
\* that is on or has just closed.
LEMMA FetchRunningHolds ==
    ASSUME IInv, NEW r \in Runs, FetchRunning(r)
    PROVE  IInv'
  <1> DEFINE bars == Merge(run[r].bars, RunningBar)
  <1> USE DEF FetchRunning
  <1>1. run[r] \in RunStates /\ run[r].bars \in [Days -> Data] /\ RunningBar \in [Days -> Data]
    BY RunningBarIsOfToday DEF IInv, TypeOK, RunStates
  <1>2. bars \in [Days -> Data]
    BY <1>1 DEF Merge
  <1>3. used.sleeps = 0 => \A d \in Days :
          bars[d] = "partial" => d = now.day /\ now.phase \in {Open, Lag}
    BY <1>1, RunningBarIsOfToday DEF Merge, IInv, PartialsAreRecent
  <1>4. UNCHANGED <<now, row, status, queued, cache, used>>
    OBVIOUS
  <1>5. Rested(r) \in BOOLEAN
    BY <1>1 DEF Rested, RunStates
  <1> DEFINE next == [run[r] EXCEPT !.at = "bars", !.bars = bars, !.fresh = Rested(r)]
  <1>6. next \in RunStates /\ next.at = "bars" /\ next.bars = bars
    BY <1>1, <1>2, <1>5 DEF RunStates
  <1>7. run' = [run EXCEPT ![r] = next]
    OBVIOUS
  <1> HIDE DEF bars, next, FetchRunning
  <1>8. TypeOK'
    BY <1>4, <1>6, <1>7 DEF IInv, TypeOK
  <1>9. PartialsAreRecent'
    BY <1>3, <1>4, <1>6, <1>7 DEF IInv, TypeOK, PartialsAreRecent
  <1>10. UnflaggedBarsAreFinal' /\ HoursAreOfSessions' /\ CacheIsClosed'
    BY <1>4 DEF IInv, UnflaggedBarsAreFinal, HoursAreOfSessions, CacheIsClosed
  <1> QED
    BY <1>8, <1>9, <1>10 DEF IInv

\* A run that does not receive it holds no partial bar.
LEMMA MissRunningHolds ==
    ASSUME IInv, NEW r \in Runs, MissRunning(r)
    PROVE  IInv'
  <1> USE DEF MissRunning
  <1>1. /\ used' \in [misses : 0 .. MaxMisses, failures : 0 .. MaxFailures, sleeps : 0 .. MaxSleeps]
        /\ used'.sleeps = used.sleeps
    BY BarsAssumption DEF IInv, TypeOK, Spend
  <1>2. run[r] \in RunStates /\ Rested(r) \in BOOLEAN
    BY DEF IInv, TypeOK, Rested, RunStates
  <1>3. TypeOK'
    <2>1. run' \in [Runs -> RunStates]
      BY <1>2, ZenonT(30) DEF IInv, TypeOK, RunStates
    <2> QED
      BY <1>1, <2>1 DEF IInv, TypeOK
  <1>4. PartialsAreRecent'
    BY <1>1, <1>2 DEF IInv, TypeOK, PartialsAreRecent
  <1>5. UnflaggedBarsAreFinal' /\ HoursAreOfSessions' /\ CacheIsClosed'
    BY <1>1 DEF IInv, UnflaggedBarsAreFinal, HoursAreOfSessions, CacheIsClosed
  <1> QED
    BY <1>3, <1>4, <1>5 DEF IInv

\* What is written late is final: a partial bar in memory is of today, and
\* today is not settled.
LEMMA PersistHolds ==
    ASSUME IInv, NEW r \in Runs, Persist(r)
    PROVE  IInv'
  <1> DEFINE written(s, d) == d \in run[r].allowed[s] /\ run[r].bars[d] # "none"
             bar(s, d) == IF written(s, d)
                          THEN [data |-> run[r].bars[d], late |-> Settled(d)]
                          ELSE row[s][d]
             found == \E d \in Days : run[r].bars[d] # "none"
  <1>1. /\ row' = [s \in Symbols |-> [d \in Days |-> bar(s, d)]]
        /\ status' = Mark(run[r].syms, IF found THEN "ready" ELSE "delisted")
        /\ run' = [run EXCEPT ![r] = Idle]
        /\ UNCHANGED <<now, queued, cache, used>>
    BY DEF Persist
  <1>2. run[r].bars \in [Days -> Data] /\ \A d \in Days : Settled(d) \in BOOLEAN
    BY DEF IInv, TypeOK, RunStates, Settled
  <1>3. \A s \in Symbols, d \in Days :
          bar(s, d) \in Bars /\ (bar(s, d).data = "none" => ~bar(s, d).late)
    BY <1>2 DEF IInv, TypeOK, Bars
  <1>4. ASSUME used.sleeps = 0, NEW s \in Symbols, NEW d \in Days, bar(s, d).late
        PROVE  bar(s, d).data = "final"
    <2>1. CASE written(s, d)
      <3>1. Settled(d) /\ run[r].bars[d] \in Data /\ run[r].bars[d] # "none"
        BY <1>2, <1>4, <2>1
      <3>2. now.phase \in Int /\ now.day \in Int
        BY PhasesAreNumbers DEF IInv, TypeOK, Days
      <3>3. run[r].bars[d] # "partial"
        BY <1>4, <3>1, <3>2, PhasesAreNumbers DEF Settled, IInv, PartialsAreRecent
      <3> QED
        BY <2>1, <3>1, <3>3 DEF Data
    <2>2. CASE ~written(s, d)
      BY <1>4, <2>2 DEF IInv, UnflaggedBarsAreFinal
    <2> QED
      BY <2>1, <2>2
  <1>5. status' \in [Symbols -> {"none", "pending", "ready", "failed", "delisted"}]
    BY <1>1, MarkTyped DEF IInv
  <1>6. Idle \in RunStates /\ \A d \in Days : Idle.bars[d] # "partial"
    BY BarsAssumption DEF Idle, RunStates, NoBars, Data
  <1> HIDE DEF bar
  <1>7. TypeOK'
    BY <1>1, <1>3, <1>5, <1>6 DEF IInv, TypeOK
  <1>8. UnflaggedBarsAreFinal'
    BY <1>1, <1>4 DEF UnflaggedBarsAreFinal
  <1>9. PartialsAreRecent' /\ HoursAreOfSessions' /\ CacheIsClosed'
    BY <1>1, <1>6 DEF IInv, TypeOK, PartialsAreRecent, HoursAreOfSessions, CacheIsClosed
  <1> QED
    BY <1>7, <1>8, <1>9 DEF IInv

\* The clock moves a session on only while no run has been resting since the
\* phase before, so a partial bar is gone when its session settles.
LEMMA TickHolds ==
    ASSUME IInv, Tick
    PROVE  IInv'
  <1> DEFINE stale == \E r \in Runs : run[r].at # "idle" /\ ~run[r].fresh
             tired == [r \in Runs |-> [run[r] EXCEPT !.fresh = FALSE]]
  <1>1. /\ \/ now.phase < Night /\ now' = [now EXCEPT !.phase = NextPhase]
           \/ /\ now.phase = Night /\ now.day < MaxDay
              /\ now' = [day |-> now.day + 1, phase |-> Before]
        /\ IF stale THEN used.sleeps < MaxSleeps /\ Spend("sleeps") ELSE UNCHANGED used
        /\ run' = tired
        /\ cache' \subseteq cache
        /\ UNCHANGED <<row, status, queued>>
    BY PhasesAreNumbers DEF Tick, IInv, TypeOK
  <1>2. now.day \in Nat /\ now.phase \in 0 .. 5 /\ MaxDay \in Nat
    BY BarsAssumption, PhasesAreNumbers DEF IInv, TypeOK, Days
  <1>3. now' \in [day : Days, phase : Phases] /\ now'.day >= now.day
    <2>1. CASE now.phase < Night /\ now' = [now EXCEPT !.phase = NextPhase]
      <3>1. NextPhase \in Phases
        BY <1>2, <2>1, PhasesAreNumbers DEF NextPhase
      <3> QED
        BY <1>2, <2>1, <3>1 DEF IInv, TypeOK
    <2>2. CASE now.day < MaxDay /\ now' = [day |-> now.day + 1, phase |-> Before]
      BY <1>2, <2>2, PhasesAreNumbers DEF Days
    <2> QED
      BY <1>1, <2>1, <2>2
  <1>4. /\ used' \in [misses : 0 .. MaxMisses, failures : 0 .. MaxFailures, sleeps : 0 .. MaxSleeps]
        /\ used'.sleeps = 0 => used.sleeps = 0 /\ ~stale
    BY <1>1, BarsAssumption DEF Spend, IInv, TypeOK
  <1>5. /\ tired \in [Runs -> RunStates]
        /\ \A r \in Runs : tired[r].at = run[r].at /\ tired[r].bars = run[r].bars /\ ~tired[r].fresh
    <2>1. \A r \in Runs : run[r] \in RunStates
      BY DEF IInv, TypeOK
    <2>2. \A r \in Runs :
            /\ [run[r] EXCEPT !.fresh = FALSE] \in RunStates
            /\ [run[r] EXCEPT !.fresh = FALSE].at = run[r].at
            /\ [run[r] EXCEPT !.fresh = FALSE].bars = run[r].bars
            /\ ~[run[r] EXCEPT !.fresh = FALSE].fresh
      BY <2>1 DEF RunStates
    <2> QED
      BY <2>2
  <1> HIDE DEF tired
  <1>6. TypeOK'
    BY <1>1, <1>2, <1>3, <1>4, <1>5 DEF IInv, TypeOK
  <1>7. UnflaggedBarsAreFinal' /\ CacheIsClosed'
    BY <1>1, <1>4 DEF IInv, UnflaggedBarsAreFinal, CacheIsClosed
  <1>8. HoursAreOfSessions'
    BY <1>1, <1>2, PhasesAreNumbers DEF IInv, TypeOK, HoursAreOfSessions, NextPhase
  <1>9. ASSUME used'.sleeps = 0, NEW r \in Runs, NEW d \in Days, run'[r].bars[d] = "partial"
        PROVE  /\ run'[r].at = "bars" /\ d = now'.day
               /\ now'.phase = Lag \/ now'.phase = Buffer
    <2>1. used.sleeps = 0 /\ ~stale /\ run[r].bars[d] = "partial" /\ run'[r].at = run[r].at
      BY <1>1, <1>4, <1>5, <1>9
    <2>2. run[r].at = "bars" /\ d = now.day /\ now.phase \in {Open, Lag}
      BY <2>1 DEF IInv, PartialsAreRecent
    <2>3. now.day \in Trading /\ now' = [now EXCEPT !.phase = now.phase + 1]
      BY <1>1, <2>2, PhasesAreNumbers DEF IInv, HoursAreOfSessions, NextPhase
    <2> QED
      BY <2>1, <2>2, <2>3, <1>2, PhasesAreNumbers DEF IInv, TypeOK
  <1>10. PartialsAreRecent'
    BY <1>1, <1>5, <1>9 DEF PartialsAreRecent
  <1> QED
    BY <1>6, <1>7, <1>8, <1>10 DEF IInv

\* A ticker that is added has neither bars nor runs.
LEMMA AddHolds ==
    ASSUME IInv, NEW s \in Symbols, Add(s)
    PROVE  IInv'
  <1>1. TypeOK'
    BY DEF Add, IInv, TypeOK
  <1>2. UnflaggedBarsAreFinal' /\ PartialsAreRecent' /\ HoursAreOfSessions' /\ CacheIsClosed'
    BY DEF Add, IInv, UnflaggedBarsAreFinal, PartialsAreRecent, HoursAreOfSessions, CacheIsClosed
  <1> QED
    BY <1>1, <1>2 DEF IInv

\* The invariant of every behaviour: each action preserves it.
THEOREM InvariantHolds == Spec => []IInv
  <1>1. IInv /\ [Next]_vars => IInv'
    <2> SUFFICES ASSUME IInv, [Next]_vars PROVE IInv'
      OBVIOUS
    <2>1. CASE Tick
      BY <2>1, TickHolds
    <2>2. ASSUME NEW s \in Symbols \ SystemSymbols, Add(s) PROVE IInv'
      BY <2>2, AddHolds
    <2>3. ASSUME NEW r \in Runs, NEW trigger, UpdateStart(r, trigger) PROVE IInv'
      BY <2>3, UpdateStartHolds
    <2>4. ASSUME NEW r \in Runs, NEW s \in queued, ColdStart(r, s) PROVE IInv'
      BY <2>4, ColdStartHolds
    <2>5. ASSUME NEW r \in Runs, FetchRunning(r) PROVE IInv'
      BY <2>5, FetchRunningHolds
    <2>6. ASSUME NEW r \in Runs, MissRunning(r) PROVE IInv'
      BY <2>6, MissRunningHolds
    <2>7. ASSUME NEW r \in Runs, Persist(r) PROVE IInv'
      BY <2>7, PersistHolds
    <2>8. CASE UNCHANGED vars
      <3>1. TypeOK'
        BY <2>8 DEF vars, IInv, TypeOK
      <3>2. UnflaggedBarsAreFinal' /\ PartialsAreRecent' /\ HoursAreOfSessions' /\ CacheIsClosed'
        BY <2>8 DEF vars, IInv, UnflaggedBarsAreFinal, PartialsAreRecent, HoursAreOfSessions, CacheIsClosed
      <3> QED
        BY <3>1, <3>2 DEF IInv
    <2> QED
      BY <2>1, <2>2, <2>3, <2>4, <2>5, <2>6, <2>7, <2>8 DEF Next
  <1> QED
    BY InitHolds, <1>1, PTL DEF Spec

\* The variables keep their types, and the cache never holds a bar of today.
THEOREM BarsTypeCorrect == Spec => []TypeOK
  <1>1. IInv => TypeOK
    BY DEF IInv
  <1> QED
    BY <1>1, InvariantHolds, PTL

\* A bar that the freshness check will never look at again is final, for any
\* number of updates and cold starts that overlap, as long as the machine does
\* not sleep through a write.
THEOREM LateBarsAreFinal == Spec => []UnflaggedBarsAreFinal
  <1>1. IInv => UnflaggedBarsAreFinal
    BY DEF IInv
  <1> QED
    BY <1>1, InvariantHolds, PTL

-----------------------------------------------------------------------------
(* What an update leaves behind *)

\* The provider has answered every request, and no run has slept.
Flawless == used.sleeps = 0 /\ used.misses = 0 /\ used.failures = 0

Filled(s, d) == row[s][d] = [data |-> "final", late |-> TRUE]

\* An update that is going to write the final bar of a session.
Coming(r, s, d) ==
    /\ run[r].at # "idle" /\ ~run[r].cold /\ s \in run[r].syms /\ d \in run[r].allowed[s]
    /\ run[r].bars[d] = "final" \/ run[r].at = "history"

\* In the night after a session, and before the next one opens, an update begun
\* that night may be the one that writes it.
Helped(s, d) ==
    /\ \/ now.phase = Night /\ d = now.day
       \/ now.phase = Before /\ d = now.day - 1
    /\ \E q \in Runs : Coming(q, s, d) /\ (now.phase = Night \/ ~run[q].fresh)

\* Times lie in the past.
LateAreSettled == \A s \in Symbols, d \in Days : row[s][d].late => Settled(d)
LooksBack == \A r \in Runs, d \in Days : run[r].at # "idle" /\ d <= run[r].settled => Settled(d)

\* What an update finds in the table, holds, or gets with the running bar.
RunsFill ==
    Flawless =>
        \A r \in Runs : run[r].at # "idle" /\ ~run[r].cold =>
            \A s \in run[r].syms, d \in Window :
                d <= run[r].settled =>
                    \/ Filled(s, d)
                    \/ /\ d \in run[r].allowed[s]
                       /\ \/ run[r].bars[d] = "final"
                          \/ run[r].at = "history" /\ RunningBar[d] = "final"

\* The running bar changes when the session opens; what an update that waits
\* for it would lose is in the table by then.
FreshFill ==
    Flawless /\ now.phase = Before =>
        \A r \in Runs : run[r].at = "history" /\ ~run[r].cold /\ run[r].fresh =>
            \A s \in run[r].syms, d \in Trading :
                d < now.day => run[r].bars[d] = "final" \/ Filled(s, d) \/ Helped(s, d)

\* A file written at night lacks that day, which its writer is bringing.
FilesFill ==
    Flawless =>
        \A f \in cache : f.span # TwoYears =>
            \A s \in f.syms \cap Symbols, d \in Trading :
                d < now.day \/ (d = now.day /\ now.phase = Night) =>
                    f.bars[d] = "final" \/ Filled(s, d) \/ Helped(s, d)

CatchUpInv == IInv /\ LateAreSettled /\ LooksBack /\ RunsFill /\ FreshFill /\ FilesFill

\* Days and phases are numbers.
LEMMA ClockTyped ==
    ASSUME IInv
    PROVE  /\ now.day \in Days /\ now.day \in Nat /\ now.phase \in 0 .. 5 /\ MaxDay \in Nat
           /\ \A d \in Days : d \in Nat /\ d > 0
           /\ Trading \subseteq Days
  BY BarsAssumption, PhasesAreNumbers DEF IInv, TypeOK, Days

\* The clock goes on by a phase of a session, through a day without one, or to
\* the next day; the files of the day are dropped at midnight UTC.
LEMMA TickFacts ==
    ASSUME IInv, Tick
    PROVE  /\ \/ now.day \in Trading /\ now.phase # Night /\ now' = [day |-> now.day, phase |-> now.phase + 1]
              \/ now.day \notin Trading /\ now.phase = Before /\ now' = [day |-> now.day, phase |-> Night]
              \/ now.phase = Night /\ now' = [day |-> now.day + 1, phase |-> Before]
           /\ run' = [r \in Runs |-> [run[r] EXCEPT !.fresh = FALSE]]
           /\ row' = row
           /\ cache' \subseteq cache /\ (now'.phase = Night => cache' = {})
           /\ Flawless' => Flawless /\ \A r \in Runs : run[r].at # "idle" => run[r].fresh
  <1> DEFINE stale == \E r \in Runs : run[r].at # "idle" /\ ~run[r].fresh
  <1>1. now \in [day : Days, phase : Phases] /\ now = [day |-> now.day, phase |-> now.phase]
    BY DEF IInv, TypeOK
  <1>2. /\ \/ now.phase < Night /\ now' = [now EXCEPT !.phase = NextPhase]
           \/ now.phase = Night /\ now' = [day |-> now.day + 1, phase |-> Before]
        /\ IF stale THEN used.sleeps < MaxSleeps /\ Spend("sleeps") ELSE UNCHANGED used
        /\ run' = [r \in Runs |-> [run[r] EXCEPT !.fresh = FALSE]]
        /\ cache' = IF UtcDay' = UtcDay THEN cache ELSE {}
        /\ row' = row
    BY <1>1, PhasesAreNumbers, ClockTyped DEF Tick
  <1>3. \/ now.day \in Trading /\ now.phase # Night /\ now' = [day |-> now.day, phase |-> now.phase + 1]
        \/ now.day \notin Trading /\ now.phase = Before /\ now' = [day |-> now.day, phase |-> Night]
        \/ now.phase = Night /\ now' = [day |-> now.day + 1, phase |-> Before]
    <2>1. CASE now.phase < Night /\ now' = [now EXCEPT !.phase = NextPhase]
      <3>1. now' = [day |-> now.day, phase |-> NextPhase]
        BY <1>1, <2>1
      <3>3. NextPhase = IF now.day \in Trading THEN now.phase + 1 ELSE Night
        BY DEF NextPhase
      <3>4. now.phase # Night
        BY <2>1, PhasesAreNumbers
      <3>2. now.day \notin Trading => now.phase = Before
        BY <2>1, PhasesAreNumbers, ClockTyped DEF IInv, HoursAreOfSessions
      <3> QED
        BY <3>1, <3>2, <3>3, <3>4
    <2> QED
      BY <1>2, <2>1
  <1>4. now'.phase = Night => cache' = {}
    <2> SUFFICES ASSUME now'.phase = Night PROVE UtcDay' # UtcDay
      BY <1>2
    <2>1. now.phase # Night /\ now'.day = now.day
      BY <1>3, PhasesAreNumbers
    <2>2. UtcDay = now.day /\ UtcDay' = now.day + 1
      BY <2>1 DEF UtcDay
    <2> QED
      BY <2>2, ClockTyped
  <1>5. ASSUME Flawless' PROVE Flawless /\ ~stale
    <2>1. used.sleeps \in Nat /\ used \in [misses : 0 .. MaxMisses, failures : 0 .. MaxFailures, sleeps : 0 .. MaxSleeps]
      BY BarsAssumption DEF IInv, TypeOK
    <2>2. ~stale
      BY <1>2, <1>5, <2>1 DEF Spend, Flawless
    <2> QED
      BY <1>2, <1>5, <2>2 DEF Flawless
  <1> QED
    BY <1>2, <1>3, <1>4, <1>5

\* What is settled stays so.
LEMMA SettledStays ==
    ASSUME IInv, now' = now \/ Tick, NEW d \in Days, Settled(d)
    PROVE  Settled(d)'
  <1>1. CASE now' = now
    BY <1>1 DEF Settled
  <1>2. CASE Tick
    <2>1. now'.day >= now.day /\ (now'.day = now.day => now'.phase >= now.phase)
      BY <1>2, TickFacts, ClockTyped, PhasesAreNumbers
    <2>2. now'.day \in Nat /\ now'.phase \in Nat
      BY <1>2, TickFacts, ClockTyped, PhasesAreNumbers
    <2> QED
      BY <2>1, <2>2, ClockTyped, PhasesAreNumbers DEF Settled
  <1> QED
    BY <1>1, <1>2

\* The running bar of a day past its lag is final, and no other day has one.
LEMMA RunningBarIs ==
    ASSUME NEW d \in Days
    PROVE  RunningBar[d] = IF d # RunningDay THEN "none"
                           ELSE IF d = now.day /\ now.phase \in {Open, Lag} THEN "partial" ELSE "final"
  BY DEF RunningBar

\* At night it is today's, before the open that of the day before.
LEMMA HelpedHasRunning ==
    ASSUME IInv, NEW s, NEW d \in Trading, Helped(s, d)
    PROVE  RunningBar[d] = "final"
  <1>1. d \in Days /\ d \in Nat
    BY ClockTyped
  <1>2. CASE now.phase = Night /\ d = now.day
    <2>1. RunningDay = d
      BY <1>2, PhasesAreNumbers DEF RunningDay
    <2> QED
      BY <1>1, <1>2, <2>1, PhasesAreNumbers, RunningBarIs
  <1>3. CASE now.phase = Before /\ d = now.day - 1
    <2> DEFINE S == {e \in Trading : e < now.day}
    <2>1. RunningDay = Max({0} \cup S)
      BY <1>3, PhasesAreNumbers DEF RunningDay
    <2>2. d \in S /\ \A e \in S : e <= d
      BY <1>1, <1>3, ClockTyped
    <2>3. Max({0} \cup S) \in {0} \cup S /\ d <= Max({0} \cup S)
      BY <2>2, LatestDay
    <2> HIDE DEF S
    <2>4. RunningDay = d
      <3>1. RunningDay \in {0} \cup S /\ d <= RunningDay
        BY <2>1, <2>3
      <3>2. RunningDay \in S => RunningDay <= d
        BY <2>2
      <3>3. RunningDay \in Nat /\ d > 0
        BY <1>1, <3>1, ClockTyped DEF S
      <3> QED
        BY <1>1, <3>1, <3>2, <3>3
    <2> QED
      BY <1>1, <1>3, <2>4, ClockTyped, RunningBarIs
  <1> QED
    BY <1>2, <1>3 DEF Helped

\* The running bar changes only when a session opens.
LEMMA RunningBarStays ==
    ASSUME IInv, Tick, ~(now.phase = Before /\ now.day \in Trading),
           NEW d \in Days, RunningBar[d] = "final"
    PROVE  (RunningBar[d])' = "final"
  <1> DEFINE S == {e \in Trading : e < now.day}
  <1>1. d = RunningDay /\ ~(d = now.day /\ now.phase \in {Open, Lag})
    BY RunningBarIs
  <1>2. (RunningBar[d])' = IF d # RunningDay' THEN "none"
                           ELSE IF d = now'.day /\ now'.phase \in {Open, Lag} THEN "partial" ELSE "final"
    BY DEF RunningBar
  <1>3. CASE now.day \in Trading /\ now.phase # Night /\ now' = [day |-> now.day, phase |-> now.phase + 1]
    <2>1. now.phase >= Open
      BY <1>3, ClockTyped, PhasesAreNumbers
    <2>2. RunningDay = now.day /\ RunningDay' = now.day
      BY <1>3, <2>1, ClockTyped, PhasesAreNumbers DEF RunningDay
    <2>3. now'.phase \notin {Open, Lag}
      BY <1>1, <1>3, <2>1, <2>2, ClockTyped, PhasesAreNumbers
    <2> QED
      BY <1>1, <1>2, <2>2, <2>3
  <1>4. CASE now.day \notin Trading /\ now.phase = Before /\ now' = [day |-> now.day, phase |-> Night]
    <2>1. RunningDay = Max({0} \cup S) /\ RunningDay' = Max({0} \cup S)
      BY <1>4 DEF RunningDay
    <2> QED
      BY <1>1, <1>2, <1>4, <2>1, PhasesAreNumbers
  <1>5. CASE now.phase = Night /\ now' = [day |-> now.day + 1, phase |-> Before]
    <2> DEFINE T == {e \in Trading : e < now.day + 1}
    <2>1. RunningDay' = Max({0} \cup T)
      BY <1>5, PhasesAreNumbers DEF RunningDay
    <2>2. CASE now.day \in Trading
      <3>1. RunningDay = now.day
        BY <1>5, <2>2, PhasesAreNumbers DEF RunningDay
      <3>2. now.day \in T /\ \A e \in T : e <= now.day
        BY <2>2, ClockTyped
      <3>3. Max({0} \cup T) \in {0} \cup T /\ now.day <= Max({0} \cup T)
        BY <3>2, LatestDay
      <3>4. Max({0} \cup T) = now.day
        BY <3>2, <3>3, ClockTyped
      <3> QED
        BY <1>1, <1>2, <1>5, <2>1, <3>1, <3>4, PhasesAreNumbers
    <2>3. CASE now.day \notin Trading
      <3>1. S = T
        BY <2>3, ClockTyped
      <3>2. RunningDay = Max({0} \cup S)
        BY <2>3 DEF RunningDay
      <3> QED
        BY <1>1, <1>2, <1>5, <2>1, <3>1, <3>2, PhasesAreNumbers
    <2> QED
      BY <2>2, <2>3
  <1> QED
    BY <1>3, <1>4, <1>5, TickFacts

\* Writing keeps what is filled: nobody holds a partial bar of a settled day.
LEMMA FilledStays ==
    ASSUME IInv, LateAreSettled, used.sleeps = 0, row' = row \/ \E r \in Runs : Persist(r),
           NEW s \in Symbols, NEW d \in Days, Filled(s, d)
    PROVE  Filled(s, d)'
  <1>1. CASE row' = row
    BY <1>1 DEF Filled
  <1>2. ASSUME NEW r \in Runs, Persist(r) PROVE Filled(s, d)'
    <2>1. row'[s][d] = IF d \in run[r].allowed[s] /\ run[r].bars[d] # "none"
                       THEN [data |-> run[r].bars[d], late |-> Settled(d)]
                       ELSE row[s][d]
      BY <1>2 DEF Persist
    <2>2. row[s][d].late /\ Settled(d)
      BY DEF Filled, LateAreSettled
    <2>3. run[r].bars[d] # "partial"
      BY <2>2, ClockTyped, PhasesAreNumbers DEF Settled, IInv, PartialsAreRecent
    <2>4. run[r].bars[d] \in Data
      BY DEF IInv, TypeOK, RunStates
    <2> QED
      BY <2>1, <2>2, <2>3, <2>4 DEF Filled, Data, Settled
  <1> QED
    BY <1>1, <1>2

\* A day of the window was in it before.
LEMMA WindowMovesOn ==
    ASSUME IInv, Tick, NEW d \in Window', d <= now.day
    PROVE  d \in Window
  <1> DEFINE S == {e \in Trading : d < e /\ e <= now.day}
             T == {e \in Trading : d < e /\ e <= now'.day}
  <1>1. now'.day \in Nat /\ now'.day >= now.day
    BY TickFacts, ClockTyped
  <1>2. d \in Trading /\ Cardinality(T) < Lookback
    BY DEF Window
  <1>3. S \in SUBSET T
    BY <1>1, <1>2, ClockTyped
  <1>4. IsFiniteSet(T)
    <2>1. IsFiniteSet(1 .. MaxDay) /\ T \in SUBSET (1 .. MaxDay)
      BY ClockTyped, FS_Interval DEF Days
    <2> HIDE DEF T
    <2> QED
      BY <2>1, FS_Subset
  <1> HIDE DEF S, T
  <1>5. IsFiniteSet(S) /\ Cardinality(S) <= Cardinality(T)
    BY <1>3, <1>4, FS_Subset
  <1>6. Cardinality(S) \in Nat /\ Cardinality(T) \in Nat /\ Lookback \in Nat
    BY <1>4, <1>5, FS_CardinalityType, BarsAssumption
  <1>7. Cardinality(S) < Lookback
    BY <1>2, <1>5, <1>6
  <1> QED
    BY <1>2, <1>7 DEF S, Window

\* A run that begins holds what it downloaded or found in a file, and the file
\* is there; if the download fails, it does not begin.
LEMMA BeginIs ==
    ASSUME NEW r \in Runs, NEW cold, NEW syms, NEW allowed, NEW span, Begin(r, cold, syms, allowed, span)
    PROVE  \/ /\ UNCHANGED used
              /\ \E bars :
                   /\ \/ bars = ClosedBars
                      \/ \E f \in cache : f.span = span /\ f.syms = syms /\ f.bars = bars
                   /\ cache' = cache \cup {[span |-> span, syms |-> syms, bars |-> bars]}
                   /\ run' = [run EXCEPT ![r] =
                         [at |-> "history", cold |-> cold, syms |-> syms, allowed |-> allowed,
                          bars |-> bars, fresh |-> TRUE,
                          settled |-> Max({0} \cup {d \in Trading : Settled(d)})]]
           \/ Spend("failures") /\ UNCHANGED <<run, cache>>
  <1> DEFINE hit  == {f \in cache : f.span = span /\ f.syms = syms}
             bars == IF hit = {} THEN ClosedBars ELSE (CHOOSE f \in hit : TRUE).bars
             last == Max({0} \cup {d \in Trading : Settled(d)})
  <1>1. \/ bars = ClosedBars
        \/ \E f \in cache : f.span = span /\ f.syms = syms /\ f.bars = bars
    <2>1. CASE hit # {}
      <3>1. PICK f \in hit : f = (CHOOSE g \in hit : TRUE)
        BY <2>1
      <3> QED
        BY <2>1, <3>1
    <2> QED
      BY <2>1
  <1>2. \/ /\ cache' = cache \cup {[span |-> span, syms |-> syms, bars |-> bars]}
           /\ run' = [run EXCEPT ![r] =
                 [at |-> "history", cold |-> cold, syms |-> syms, allowed |-> allowed,
                  bars |-> bars, fresh |-> TRUE, settled |-> last]]
           /\ UNCHANGED used
        \/ Spend("failures") /\ UNCHANGED <<run, cache>>
    BY DEF Begin
  <1> HIDE DEF bars, last
  <1>3. CASE /\ cache' = cache \cup {[span |-> span, syms |-> syms, bars |-> bars]}
             /\ run' = [run EXCEPT ![r] =
                   [at |-> "history", cold |-> cold, syms |-> syms, allowed |-> allowed,
                    bars |-> bars, fresh |-> TRUE, settled |-> last]]
             /\ UNCHANGED used
    BY <1>1, <1>3, Zenon DEF last
  <1> QED
    BY <1>2, <1>3

\* Up to the last settled session every day is settled.
LEMMA LastIsSettled ==
    ASSUME IInv, NEW d \in Days, d <= Max({0} \cup {e \in Trading : Settled(e)})
    PROVE  Settled(d)
  <1> DEFINE S == {e \in Trading : Settled(e)}
             last == Max({0} \cup S)
  <1>1. last \in {0} \cup S
    BY LatestDay
  <1>2. last \in S
    BY <1>1, ClockTyped
  <1>3. Settled(last) /\ last \in Nat /\ d \in Nat
    BY <1>2, ClockTyped
  <1>4. d <= last
    OBVIOUS
  <1> HIDE DEF last
  <1> QED
    BY <1>3, <1>4, ClockTyped, PhasesAreNumbers DEF Settled

\* Nobody has written a time that has not come, nor looked at one.
LEMMA TimesStay ==
    ASSUME IInv, LateAreSettled, LooksBack, [Next]_vars
    PROVE  LateAreSettled' /\ LooksBack'
  <1>1. now' = now \/ Tick
    BY DEF Next, vars, Add, UpdateStart, ColdStart, FetchRunning, MissRunning, Persist
  <1>2. ASSUME NEW s \in Symbols, NEW d \in Days, row'[s][d].late PROVE Settled(d)'
    <2>1. row' = row \/ \E r \in Runs : Persist(r)
      BY DEF Next, vars, Add, UpdateStart, ColdStart, FetchRunning, MissRunning, Tick
    <2>2. Settled(d)
      <3>1. ASSUME NEW r \in Runs, Persist(r) PROVE Settled(d)
        <4>1. row'[s][d] = IF d \in run[r].allowed[s] /\ run[r].bars[d] # "none"
                           THEN [data |-> run[r].bars[d], late |-> Settled(d)]
                           ELSE row[s][d]
          BY <3>1 DEF Persist
        <4> QED
          BY <1>2, <4>1 DEF LateAreSettled
      <3> QED
        BY <1>2, <2>1, <3>1 DEF LateAreSettled
    <2> QED
      BY <1>1, <2>2, SettledStays
  <1> DEFINE last == Max({0} \cup {e \in Trading : Settled(e)})
  <1>3. \A e \in Days : e <= last => Settled(e)
    BY LastIsSettled
  <1>4. ASSUME NEW r \in Runs, run'[r].at # "idle"
        PROVE  run'[r].settled = last \/ (run[r].at # "idle" /\ run'[r].settled = run[r].settled)
    <2>1. run[r] \in RunStates /\ run \in [Runs -> RunStates]
      BY DEF IInv, TypeOK
    <2> HIDE DEF last
    <2>2. CASE UNCHANGED run
      BY <1>4, <2>2
    <2>3. CASE Tick
      <3>1. run'[r] = [run[r] EXCEPT !.fresh = FALSE]
        BY <2>3, TickFacts
      <3> QED
        BY <1>4, <2>1, <3>1 DEF RunStates
    <2>4. ASSUME NEW q \in Runs, FetchRunning(q) \/ MissRunning(q)
          PROVE  run[r].at # "idle" /\ run'[r].settled = run[r].settled
      <3> DEFINE merged == Merge(run[q].bars, RunningBar)
                 rested == Rested(q)
      <3>1. \/ run' = [run EXCEPT ![q] = [run[q] EXCEPT !.at = "bars", !.bars = merged, !.fresh = rested]]
            \/ run' = [run EXCEPT ![q] = [run[q] EXCEPT !.at = "bars", !.fresh = rested]]
        BY <2>4 DEF FetchRunning, MissRunning
      <3> HIDE DEF merged, rested
      <3>2. run[q].at = "history" /\ run[q] \in RunStates
        BY <2>4 DEF FetchRunning, MissRunning, IInv, TypeOK
      <3>3. run'[q].at = "bars" /\ run'[q].settled = run[q].settled
        <4>1. run'[q] = [run[q] EXCEPT !.at = "bars", !.bars = merged, !.fresh = rested]
                \/ run'[q] = [run[q] EXCEPT !.at = "bars", !.fresh = rested]
          BY <2>1, <3>1, Zenon
        <4> QED
          BY <3>2, <4>1 DEF RunStates
      <3>4. r # q => run'[r] = run[r]
        BY <2>1, <3>1
      <3> QED
        BY <1>4, <3>2, <3>3, <3>4
    <2>5. ASSUME NEW q \in Runs, Persist(q)
          PROVE  run[r].at # "idle" /\ run'[r].settled = run[r].settled
      BY <1>4, <2>1, <2>5 DEF Persist, Idle
    <2>6. ASSUME NEW q \in Runs, NEW cold, NEW syms, NEW allowed, NEW span, Begin(q, cold, syms, allowed, span)
          PROVE  run'[r].settled = last \/ (run[r].at # "idle" /\ run'[r].settled = run[r].settled)
      BY <1>4, <2>1, <2>2, <2>6, BeginIs DEF last
    <2> QED
      BY <2>2, <2>3, <2>4, <2>5, <2>6 DEF Next, vars, Add, UpdateStart, ColdStart
  <1>5. ASSUME NEW r \in Runs, NEW d \in Days, run'[r].at # "idle", d <= run'[r].settled
        PROVE  Settled(d)'
    <2>1. Settled(d)
      BY <1>3, <1>4, <1>5 DEF LooksBack
    <2> QED
      BY <1>1, <2>1, SettledStays
  <1> QED
    BY <1>2, <1>5 DEF LateAreSettled, LooksBack

\* Steps that touch neither bars nor the clock.
LEMMA OthersFill ==
    ASSUME CatchUpInv, UNCHANGED <<now, row, run, cache, used>>
    PROVE  RunsFill' /\ FreshFill' /\ FilesFill'
  <1>1. Flawless' = Flawless /\ now' = now /\ run' = run /\ cache' = cache
    BY DEF Flawless
  <1>2. Window' = Window /\ RunningBar' = RunningBar
    BY DEF Window, RunningBar, RunningDay
  <1>3. \A s, d : Filled(s, d)' = Filled(s, d) /\ Helped(s, d)' = Helped(s, d)
    BY DEF Filled, Helped, Coming
  <1>4. RunsFill'
    BY <1>1, <1>2, <1>3 DEF CatchUpInv, RunsFill
  <1>5. FreshFill'
    BY <1>1, <1>3 DEF CatchUpInv, FreshFill
  <1>6. FilesFill'
    BY <1>1, <1>3 DEF CatchUpInv, FilesFill
  <1> QED
    BY <1>4, <1>5, <1>6

\* An update asks for every settled session of its window that is not filled.
LEMMA AsksForAll ==
    ASSUME IInv, LateAreSettled, used.sleeps = 0, NEW s \in Symbols, NEW d \in Window, Settled(d)
    PROVE  Filled(s, d) \/ d \in Gaps(s) \cup Partials(s)
  <1>1. d \in Days
    BY ClockTyped DEF Window
  <1>2. row[s][d] \in Bars
    BY <1>1 DEF IInv, TypeOK
  <1>3. row[s][d].late => row[s][d].data = "final"
    BY <1>1 DEF IInv, UnflaggedBarsAreFinal
  <1>4. row[s][d].data = "none" => d \in Gaps(s)
    BY DEF Gaps
  <1>5. row[s][d].data # "none" /\ ~row[s][d].late => d \in Partials(s)
    BY DEF Partials
  <1>6. row[s][d].late => row[s][d] = [data |-> "final", late |-> TRUE]
    BY <1>2, <1>3 DEF Bars
  <1> QED
    BY <1>4, <1>5, <1>6 DEF Filled

\* The session of today is in the window.
LEMMA TodayInWindow ==
    ASSUME IInv, now.day \in Trading
    PROVE  now.day \in Window
  <1>1. {e \in Trading : now.day < e /\ e <= now.day} = {}
    BY ClockTyped
  <1> QED
    BY <1>1, ClockTyped, FS_EmptySet, BarsAssumption DEF Window

\* A download brings every session before today.
LEMMA DownloadIsWhole ==
    ASSUME IInv, NEW d \in Trading, d < now.day
    PROVE  ClosedBars[d] = "final"
  <1>1. d \in Days
    BY ClockTyped
  <1> QED
    BY <1>1 DEF ClosedBars, AllBars

\* A run receives the running bar: its frame is the history with that bar.
LEMMA FetchIs ==
    ASSUME IInv, NEW r \in Runs, FetchRunning(r)
    PROVE  /\ UNCHANGED <<now, row, cache, used>> /\ run[r].at = "history"
           /\ \A q \in Runs : q # r => run'[q] = run[q]
           /\ run'[r].at = "bars" /\ run'[r].bars = Merge(run[r].bars, RunningBar)
           /\ run'[r].fresh = Rested(r) /\ run'[r].cold = run[r].cold /\ run'[r].syms = run[r].syms
           /\ run'[r].allowed = run[r].allowed /\ run'[r].settled = run[r].settled
  <1> DEFINE merged == Merge(run[r].bars, RunningBar)
             rested == Rested(r)
             next == [run[r] EXCEPT !.at = "bars", !.bars = merged, !.fresh = rested]
  <1>1. run' = [run EXCEPT ![r] = next] /\ run[r].at = "history" /\ UNCHANGED <<now, row, cache, used>>
    BY DEF FetchRunning
  <1>2. run[r] \in RunStates /\ run \in [Runs -> RunStates]
    BY DEF IInv, TypeOK
  <1> HIDE DEF merged, rested
  <1>3. /\ next.at = "bars" /\ next.bars = merged /\ next.fresh = rested /\ next.cold = run[r].cold
        /\ next.syms = run[r].syms /\ next.allowed = run[r].allowed /\ next.settled = run[r].settled
    BY <1>2 DEF RunStates
  <1> HIDE DEF next
  <1>4. run'[r] = next /\ \A q \in Runs : q # r => run'[q] = run[q]
    BY <1>1, <1>2
  <1> QED
    BY <1>1, <1>3, <1>4 DEF merged, rested

\* With the running bar a session that was settled is whole.
LEMMA MergedIsFinal ==
    ASSUME IInv, NEW r \in Runs, FetchRunning(r), NEW d \in Days, Settled(d),
           run[r].bars[d] = "final" \/ RunningBar[d] = "final"
    PROVE  run'[r].bars[d] = "final"
  <1>1. RunningBar[d] # "partial" /\ RunningBar[d] \in Data
    <2>1. RunningBar[d] \in Data /\ (RunningBar[d] = "partial" => d = now.day /\ now.phase \in {Open, Lag})
      BY RunningBarIsOfToday DEF IInv
    <2> QED
      BY <2>1, ClockTyped, PhasesAreNumbers DEF Settled
  <1>2. run'[r].bars[d] = IF RunningBar[d] = "none" THEN run[r].bars[d] ELSE RunningBar[d]
    BY FetchIs DEF Merge
  <1> QED
    BY <1>1, <1>2 DEF Data

\* Receiving the running bar loses nothing: what it brought before the open is
\* filled, or someone is bringing it.
LEMMA FetchFills ==
    ASSUME CatchUpInv, NEW r \in Runs, FetchRunning(r)
    PROVE  RunsFill' /\ FreshFill' /\ FilesFill'
  <1> USE DEF CatchUpInv
  <1>1. /\ UNCHANGED <<now, row, cache, used>> /\ run[r].at = "history"
        /\ \A q \in Runs : q # r => run'[q] = run[q]
        /\ run'[r].at = "bars"
        /\ run'[r].fresh = Rested(r) /\ run'[r].cold = run[r].cold /\ run'[r].syms = run[r].syms
        /\ run'[r].allowed = run[r].allowed /\ run'[r].settled = run[r].settled
    BY FetchIs
  <1>2. Flawless' = Flawless /\ Window' = Window /\ RunningBar' = RunningBar /\ now' = now /\ cache' = cache
    BY <1>1 DEF Flawless, Window, RunningBar, RunningDay
  <1>3. \A s, d : Filled(s, d)' = Filled(s, d)
    BY <1>1 DEF Filled
  <1>4. ASSUME NEW s, NEW d \in Trading, Helped(s, d) PROVE Helped(s, d)'
    <2>1. PICK q \in Runs : Coming(q, s, d) /\ (now.phase = Night \/ ~run[q].fresh)
      BY <1>4 DEF Helped
    <2>2. CASE q # r
      <3>1. run'[q] = run[q]
        BY <1>1, <2>2
      <3> QED
        BY <1>2, <1>4, <2>1, <3>1 DEF Helped, Coming
    <2>3. CASE q = r
      <3>1. RunningBar[d] = "final" /\ d \in Days
        BY <1>4, HelpedHasRunning, ClockTyped
      <3>2. Settled(d)
        BY <1>4, <3>1, ClockTyped, PhasesAreNumbers DEF Helped, Settled
      <3>3. run'[r].bars[d] = "final"
        BY <3>1, <3>2, MergedIsFinal
      <3>4. now.phase = Night \/ ~run'[r].fresh
        <4>1. now.phase = Night \/ (~run[r].fresh /\ now.phase \notin {Lag, Buffer})
          BY <1>4, <2>1, <2>3, PhasesAreNumbers DEF Helped
        <4>2. now.phase = Night \/ ~Rested(r)
          BY <4>1, Zenon DEF Rested
        <4>3. run'[r].fresh = Rested(r)
          BY <1>1
        <4> QED
          BY <4>2, <4>3, Zenon
      <3>5. Coming(r, s, d)'
        BY <1>1, <2>1, <2>3, <3>3 DEF Coming
      <3> QED
        BY <1>2, <1>4, <3>4, <3>5 DEF Helped
    <2> QED
      BY <2>2, <2>3
  <1>5. RunsFill'
    <2> SUFFICES ASSUME Flawless, NEW q \in Runs, run'[q].at # "idle", ~run'[q].cold,
                        NEW s \in run'[q].syms, NEW d \in Window, d <= run'[q].settled, ~Filled(s, d)
                 PROVE  /\ d \in run'[q].allowed[s]
                        /\ \/ run'[q].bars[d] = "final"
                           \/ run'[q].at = "history" /\ RunningBar[d] = "final"
      BY <1>2, <1>3 DEF RunsFill
    <2>1. CASE q # r
      BY <1>1, <2>1 DEF RunsFill
    <2>2. CASE q = r
      <3>1. d \in run[r].allowed[s] /\ (run[r].bars[d] = "final" \/ RunningBar[d] = "final")
        BY <1>1, <2>2 DEF RunsFill
      <3>2. d \in Days /\ Settled(d)
        BY <1>1, <2>2, ClockTyped DEF Window, LooksBack
      <3>3. run'[r].bars[d] = "final"
        BY <3>1, <3>2, MergedIsFinal
      <3> QED
        BY <1>1, <2>2, <3>1, <3>3
    <2> QED
      BY <2>1, <2>2
  <1>6. FreshFill'
    <2> SUFFICES ASSUME Flawless, now.phase = Before,
                        NEW q \in Runs, run'[q].at = "history", ~run'[q].cold, run'[q].fresh,
                        NEW s \in run'[q].syms, NEW d \in Trading, d < now.day,
                        run'[q].bars[d] # "final", ~Filled(s, d)
                 PROVE  Helped(s, d)'
      BY <1>2, <1>3 DEF FreshFill
    <2>1. q # r /\ run'[q] = run[q]
      BY <1>1
    <2> QED
      BY <1>4, <2>1 DEF FreshFill
  <1>7. FilesFill'
    BY <1>2, <1>3, <1>4 DEF FilesFill
  <1> QED
    BY <1>5, <1>6, <1>7

\* A write brings what it was going to bring.
LEMMA ComingIsFilled ==
    ASSUME CatchUpInv, Flawless, NEW r \in Runs, Persist(r), NEW s \in Symbols, NEW d \in Days, Settled(d),
           d \in run[r].allowed[s], run[r].bars[d] = "final"
    PROVE  Filled(s, d)'
  BY DEF Persist, Filled

\* A write fills what its run held, and helps no one afterwards.
LEMMA PersistFills ==
    ASSUME CatchUpInv, NEW r \in Runs, Persist(r)
    PROVE  RunsFill' /\ FreshFill' /\ FilesFill'
  <1> USE DEF CatchUpInv
  <1>1. /\ UNCHANGED <<now, cache, used>> /\ run[r].at = "bars"
        /\ \A q \in Runs : q # r => run'[q] = run[q]
        /\ run'[r] = Idle
    BY DEF Persist, IInv, TypeOK
  <1>2. Flawless' = Flawless /\ Window' = Window /\ RunningBar' = RunningBar /\ now' = now /\ cache' = cache
    BY <1>1 DEF Flawless, Window, RunningBar, RunningDay
  <1>3. ASSUME Flawless, NEW s \in Symbols, NEW d \in Days, Filled(s, d) PROVE Filled(s, d)'
    BY <1>3, FilledStays DEF Flawless
  <1>4. ASSUME Flawless, NEW s \in Symbols, NEW d \in Trading, Helped(s, d) PROVE Filled(s, d)' \/ Helped(s, d)'
    <2>1. PICK q \in Runs : Coming(q, s, d) /\ (now.phase = Night \/ ~run[q].fresh)
      BY <1>4 DEF Helped
    <2>2. CASE q # r
      <3>1. run'[q] = run[q]
        BY <1>1, <2>2
      <3> QED
        BY <1>2, <1>4, <2>1, <3>1 DEF Helped, Coming
    <2>3. CASE q = r
      <3>1. Settled(d) /\ d \in Days
        BY <1>4, ClockTyped, PhasesAreNumbers DEF Helped, Settled
      <3> QED
        BY <1>1, <1>4, <2>1, <2>3, <3>1, ComingIsFilled DEF Coming
    <2> QED
      BY <2>2, <2>3
  <1>5. \A q \in Runs : run[q].syms \in SUBSET Symbols
    BY DEF IInv, TypeOK, RunStates
  <1>6. \A q \in Runs : run'[q].at # "idle" => q # r /\ run'[q] = run[q]
    BY <1>1 DEF Idle
  <1>7. RunsFill'
    <2> SUFFICES ASSUME Flawless, NEW q \in Runs, run'[q].at # "idle", ~run'[q].cold,
                        NEW s \in run'[q].syms, NEW d \in Window, d <= run'[q].settled, ~Filled(s, d)'
                 PROVE  /\ d \in run'[q].allowed[s]
                        /\ \/ run'[q].bars[d] = "final"
                           \/ run'[q].at = "history" /\ RunningBar[d] = "final"
      BY <1>2 DEF RunsFill
    <2>1. run'[q] = run[q] /\ s \in Symbols /\ d \in Days
      BY <1>5, <1>6, ClockTyped DEF Window
    <2>2. ~Filled(s, d)
      BY <1>3, <2>1
    <2> QED
      BY <2>1, <2>2 DEF RunsFill
  <1>8. FreshFill'
    <2> SUFFICES ASSUME Flawless, now.phase = Before,
                        NEW q \in Runs, run'[q].at = "history", ~run'[q].cold, run'[q].fresh,
                        NEW s \in run'[q].syms, NEW d \in Trading, d < now.day,
                        run'[q].bars[d] # "final"
                 PROVE  Filled(s, d)' \/ Helped(s, d)'
      BY <1>2 DEF FreshFill
    <2>1. run'[q] = run[q] /\ s \in Symbols /\ d \in Days
      BY <1>5, <1>6, ClockTyped
    <2>2. Filled(s, d) \/ Helped(s, d)
      BY <2>1 DEF FreshFill
    <2> QED
      BY <1>3, <1>4, <2>1, <2>2
  <1>9. FilesFill'
    <2> SUFFICES ASSUME Flawless, NEW f \in cache, f.span # TwoYears, NEW s \in f.syms \cap Symbols,
                        NEW d \in Trading,
                        d < now.day \/ (d = now.day /\ now.phase = Night), f.bars[d] # "final"
                 PROVE  Filled(s, d)' \/ Helped(s, d)'
      BY <1>2 DEF FilesFill
    <2>1. Filled(s, d) \/ Helped(s, d)
      BY DEF FilesFill
    <2>2. s \in Symbols /\ d \in Days
      BY ClockTyped
    <2> QED
      BY <1>3, <1>4, <2>1, <2>2
  <1> QED
    BY <1>7, <1>8, <1>9

\* A run that begins finds every settled session of its window in the table, in
\* its frame, or in the running bar it waits for.
LEMMA BeginFills ==
    ASSUME CatchUpInv, NEW r \in Runs, run[r].at = "idle", NEW cold \in BOOLEAN, NEW syms \in SUBSET Symbols,
           NEW allowed, NEW span,
           Begin(r, cold, syms, allowed, span), UNCHANGED <<now, row>>,
           ~cold => span # TwoYears, cold => span = TwoYears,
           ~cold /\ Flawless =>
               \A s \in syms, d \in Window : Settled(d) => Filled(s, d) \/ d \in allowed[s]
    PROVE  RunsFill' /\ FreshFill' /\ FilesFill'
  <1> USE DEF CatchUpInv
  <1> DEFINE last == Max({0} \cup {d \in Trading : Settled(d)})
  <1>1. CASE Spend("failures") /\ UNCHANGED <<run, cache>>
    <2>1. ~Flawless'
      BY <1>1 DEF Spend, Flawless, IInv, TypeOK
    <2> QED
      BY <2>1 DEF RunsFill, FreshFill, FilesFill
  <1>2. ASSUME UNCHANGED used, NEW bars,
               \/ bars = ClosedBars
               \/ \E f \in cache : f.span = span /\ f.syms = syms /\ f.bars = bars,
               cache' = cache \cup {[span |-> span, syms |-> syms, bars |-> bars]},
               run' = [run EXCEPT ![r] =
                     [at |-> "history", cold |-> cold, syms |-> syms, allowed |-> allowed,
                      bars |-> bars, fresh |-> TRUE, settled |-> last]]
        PROVE  RunsFill' /\ FreshFill' /\ FilesFill'
    <2> DEFINE file == [span |-> span, syms |-> syms, bars |-> bars]
    <2> HIDE DEF last
    <2>1. Flawless' = Flawless /\ Window' = Window /\ RunningBar' = RunningBar /\ now' = now
      BY <1>2 DEF Flawless, Window, RunningBar, RunningDay
    <2>2. \A s, d : Filled(s, d)' = Filled(s, d)
      BY DEF Filled
    <2>3. /\ \A q \in Runs : q # r => run'[q] = run[q]
          /\ run'[r].at = "history" /\ run'[r].cold = cold /\ run'[r].syms = syms
          /\ run'[r].allowed = allowed /\ run'[r].bars = bars /\ run'[r].settled = last
      BY <1>2 DEF IInv, TypeOK
    <2>4. ASSUME NEW s, NEW d, Helped(s, d) PROVE Helped(s, d)'
      <3>1. PICK q \in Runs : Coming(q, s, d) /\ (now.phase = Night \/ ~run[q].fresh)
        BY <2>4 DEF Helped
      <3>2. q # r /\ run'[q] = run[q]
        BY <2>3, <3>1 DEF Coming
      <3> QED
        BY <2>1, <2>4, <3>1, <3>2 DEF Helped, Coming
    <2>5. ASSUME Flawless, ~cold, NEW s \in syms, NEW d \in Trading,
                 d < now.day \/ (d = now.day /\ now.phase = Night)
          PROVE  \/ bars[d] = "final" \/ Filled(s, d) \/ Helped(s, d)
                 \/ bars = ClosedBars /\ d = now.day
      <3>1. CASE bars = ClosedBars
        BY <2>5, <3>1, DownloadIsWhole
      <3>2. ASSUME NEW f \in cache, f.span = span, f.syms = syms, f.bars = bars
            PROVE  f.bars[d] = "final" \/ Filled(s, d) \/ Helped(s, d)
        BY <2>5, <3>2 DEF FilesFill
      <3> QED
        BY <1>2, <3>1, <3>2
    <2>6. ASSUME Flawless, ~cold, NEW s \in syms, now.day \in Trading, now.phase = Night
          PROVE  Filled(s, now.day) \/ Helped(s, now.day)'
      <3>1. now.day \in Window /\ Settled(now.day)
        BY <2>6, TodayInWindow, PhasesAreNumbers DEF Settled
      <3>2. Filled(s, now.day) \/ now.day \in allowed[s]
        BY <2>6, <3>1
      <3>3. now.day \in allowed[s] => Coming(r, s, now.day)'
        BY <2>1, <2>3, <2>6 DEF Coming
      <3> QED
        BY <2>1, <2>6, <3>2, <3>3 DEF Helped
    <2>7. ASSUME Flawless, ~cold, NEW s \in syms, NEW d \in Window, d <= last, ~Filled(s, d)
          PROVE  d \in allowed[s] /\ (bars[d] = "final" \/ RunningBar[d] = "final")
      <3>1. d \in Trading /\ d \in Days /\ d \in Nat /\ d <= now.day
        BY <2>7, ClockTyped DEF Window
      <3>2. Settled(d)
        BY <2>7, <3>1, LastIsSettled DEF last
      <3>3. CASE d < now.day
        <4>1. bars[d] = "final" \/ Helped(s, d)
          BY <2>5, <2>7, <3>1, <3>3, ClockTyped
        <4>2. Helped(s, d) => RunningBar[d] = "final"
          BY <3>1, HelpedHasRunning
        <4> QED
          BY <2>7, <3>2, <4>1, <4>2
      <3>4. CASE d = now.day
        <4>1. now.phase >= Settling
          BY <3>2, <3>4, ClockTyped DEF Settled
        <4>2. RunningDay = d
          BY <3>1, <3>4, <4>1, ClockTyped, PhasesAreNumbers DEF RunningDay
        <4>3. RunningBar[d] = "final"
          BY <3>1, <4>1, <4>2, RunningBarIs, ClockTyped, PhasesAreNumbers
        <4> QED
          BY <2>7, <3>2, <4>3
      <3> QED
        BY <3>1, <3>3, <3>4, ClockTyped
    <2>8. RunsFill'
      <3> SUFFICES ASSUME Flawless, NEW q \in Runs, run'[q].at # "idle", ~run'[q].cold,
                          NEW s \in run'[q].syms, NEW d \in Window, d <= run'[q].settled, ~Filled(s, d)
                   PROVE  /\ d \in run'[q].allowed[s]
                          /\ \/ run'[q].bars[d] = "final"
                             \/ run'[q].at = "history" /\ RunningBar[d] = "final"
        BY <2>1, <2>2 DEF RunsFill
      <3>1. CASE q = r
        BY <2>3, <2>7, <3>1
      <3>2. CASE q # r
        BY <2>3, <3>2 DEF RunsFill
      <3> QED
        BY <3>1, <3>2
    <2>9. FreshFill'
      <3> SUFFICES ASSUME Flawless, now.phase = Before,
                          NEW q \in Runs, run'[q].at = "history", ~run'[q].cold, run'[q].fresh,
                          NEW s \in run'[q].syms, NEW d \in Trading, d < now.day,
                          run'[q].bars[d] # "final", ~Filled(s, d)
                   PROVE  Helped(s, d)'
        BY <2>1, <2>2 DEF FreshFill
      <3>1. CASE q = r
        BY <2>3, <2>4, <2>5, <3>1, ClockTyped
      <3>2. CASE q # r
        BY <2>3, <2>4, <3>2 DEF FreshFill
      <3> QED
        BY <3>1, <3>2
    <2>10. FilesFill'
      <3> SUFFICES ASSUME Flawless, NEW f \in cache', f.span # TwoYears, NEW s \in f.syms \cap Symbols,
                          NEW d \in Trading, d < now.day \/ (d = now.day /\ now.phase = Night),
                          f.bars[d] # "final", ~Filled(s, d)
                   PROVE  Helped(s, d)'
        BY <2>1, <2>2 DEF FilesFill
      <3>1. CASE f \in cache
        BY <2>4, <3>1 DEF FilesFill
      <3>2. CASE f = file
        <4>1. ~cold /\ f.bars = bars /\ s \in syms
          BY <3>2
        <4>2. CASE d < now.day
          BY <2>4, <2>5, <4>1, <4>2, ClockTyped
        <4>3. CASE d = now.day /\ now.phase = Night
          BY <2>6, <4>1, <4>3
        <4> QED
          BY <4>2, <4>3
      <3> QED
        BY <1>2, <3>1, <3>2
    <2> QED
      BY <2>8, <2>9, <2>10
  <1> QED
    BY <1>1, <1>2, BeginIs

\* When a session opens, whoever was helping has finished, because nobody
\* outlasts the phase.
LEMMA TickFills ==
    ASSUME CatchUpInv, Tick
    PROVE  RunsFill' /\ FreshFill' /\ FilesFill'
  <1> USE DEF CatchUpInv
  <1> SUFFICES ASSUME Flawless' PROVE RunsFill' /\ FreshFill' /\ FilesFill'
    BY DEF RunsFill, FreshFill, FilesFill
  <1>1. /\ Flawless /\ \A r \in Runs : run[r].at # "idle" => run[r].fresh
        /\ row' = row /\ cache' \subseteq cache /\ (now'.phase = Night => cache' = {})
    BY TickFacts
  <1>0. run' = [q \in Runs |-> [run[q] EXCEPT !.fresh = FALSE]] /\ TypeOK
    BY TickFacts DEF IInv
  <1>2. ASSUME NEW r \in Runs
        PROVE  /\ run'[r].at = run[r].at /\ run'[r].cold = run[r].cold /\ run'[r].syms = run[r].syms
               /\ run'[r].allowed = run[r].allowed /\ run'[r].bars = run[r].bars
               /\ run'[r].settled = run[r].settled /\ ~run'[r].fresh
    <2> HIDE DEF CatchUpInv
    <2>2. run'[r] = [run[r] EXCEPT !.fresh = FALSE]
      BY <1>0, Zenon
    <2>3. run[r] \in RunStates
      BY <1>0 DEF TypeOK
    <2> QED
      BY <2>2, <2>3 DEF RunStates
  <1>3. \A s, d : Filled(s, d)' = Filled(s, d)
    BY <1>1 DEF Filled
  <1>4. \A s, d : Helped(s, d) => now.phase = Night /\ d = now.day
    <2> TAKE s, d
    <2> HAVE Helped(s, d)
    <2>1. PICK q \in Runs : run[q].at # "idle" /\ (now.phase = Night \/ ~run[q].fresh)
      BY DEF Helped, Coming
    <2>2. now.phase = Night
      BY <1>1, <2>1, Zenon
    <2> QED
      BY <2>2, PhasesAreNumbers DEF Helped
  <1>5. ASSUME NEW s, NEW d, Helped(s, d) PROVE Helped(s, d)'
    <2>1. now.phase = Night /\ d = now.day /\ now' = [day |-> now.day + 1, phase |-> Before]
      BY <1>4, <1>5, TickFacts, ClockTyped, PhasesAreNumbers
    <2>2. PICK q \in Runs : Coming(q, s, d)
      BY <1>5 DEF Helped
    <2>3. Coming(q, s, d)' /\ ~run'[q].fresh
      BY <1>2, <2>2 DEF Coming
    <2>4. now'.phase = Before /\ d = now'.day - 1
      BY <2>1, ClockTyped
    <2> QED
      BY <2>3, <2>4 DEF Helped
  <1>6. RunsFill'
    <2> SUFFICES ASSUME NEW r \in Runs, run[r].at # "idle", ~run[r].cold,
                        NEW s \in run[r].syms, NEW d \in Window', d <= run[r].settled, ~Filled(s, d)
                 PROVE  /\ d \in run[r].allowed[s]
                        /\ \/ run[r].bars[d] = "final"
                           \/ run[r].at = "history" /\ (RunningBar[d])' = "final"
      BY <1>2, <1>3 DEF RunsFill
    <2>1. d \in Days /\ d \in Trading
      BY ClockTyped DEF Window
    <2>2. d <= now.day
      BY <2>1, ClockTyped, PhasesAreNumbers DEF LooksBack, Settled
    <2>3. d \in Window
      BY <2>2, WindowMovesOn
    <2>4. /\ d \in run[r].allowed[s]
          /\ run[r].bars[d] = "final" \/ (run[r].at = "history" /\ RunningBar[d] = "final")
      BY <1>1, <2>3 DEF RunsFill
    <2>5. CASE ~(now.phase = Before /\ now.day \in Trading)
      BY <2>1, <2>4, <2>5, RunningBarStays
    <2>6. CASE now.phase = Before /\ run[r].at = "history" /\ RunningBar[d] = "final"
      <3>1. RunningDay = d
        BY <2>1, <2>6, RunningBarIs
      <3>2. d < now.day
        <4> DEFINE S == {e \in Trading : e < now.day}
        <4>1. RunningDay = Max({0} \cup S)
          BY <2>6, PhasesAreNumbers DEF RunningDay
        <4>2. d \in {0} \cup S
          BY <3>1, <4>1, LatestDay
        <4> QED
          BY <2>1, <4>2, ClockTyped
      <3>3. run[r].bars[d] = "final" \/ Helped(s, d)
        BY <1>1, <2>1, <2>6, <3>2 DEF FreshFill
      <3> QED
        BY <1>4, <2>4, <2>6, <3>3, PhasesAreNumbers
    <2> QED
      BY <2>4, <2>5, <2>6
  <1>7. FreshFill'
    BY <1>2 DEF FreshFill
  <1>8. FilesFill'
    <2> SUFFICES ASSUME NEW f \in cache', f.span # TwoYears, NEW s \in f.syms \cap Symbols, NEW d \in Trading,
                        d < now'.day \/ (d = now'.day /\ now'.phase = Night), f.bars[d] # "final", ~Filled(s, d)
                 PROVE  Helped(s, d)'
      BY <1>3 DEF FilesFill
    <2>1. f \in cache /\ now'.phase # Night
      BY <1>1
    <2>2. d < now.day \/ (d = now.day /\ now.phase = Night)
      <3>1. CASE now' = [day |-> now.day, phase |-> now.phase + 1] \/ now' = [day |-> now.day, phase |-> Night]
        BY <2>1, <3>1
      <3>2. CASE now.phase = Night /\ now' = [day |-> now.day + 1, phase |-> Before]
        BY <2>1, <3>2, ClockTyped
      <3> QED
        BY <3>1, <3>2, TickFacts
    <2> QED
      BY <1>1, <1>5, <2>1, <2>2 DEF FilesFill
  <1> QED
    BY <1>6, <1>7, <1>8

\* The period of an update is shorter than two years.
LEMMA SpanIsShort ==
    ASSUME IInv, NEW all \in SUBSET Days, all # {}
    PROVE  LastTradingDay - Min(all) # TwoYears
  <1>1. LastTradingDay \in 0 .. MaxDay
    BY LatestDay DEF LastTradingDay
  <1>2. all \in SUBSET Nat
    BY ClockTyped
  <1>3. Min(all) \in Nat
    BY <1>2, MinIsLeast
  <1> QED
    BY <1>1, <1>3, ClockTyped DEF TwoYears

\* An update passes Begin everything that is not filled.
LEMMA UpdateFills ==
    ASSUME CatchUpInv, NEW r \in Runs, NEW trigger, UpdateStart(r, trigger)
    PROVE  RunsFill' /\ FreshFill' /\ FilesFill'
  <1> USE DEF CatchUpInv
  <1> DEFINE syms == Watched \cup SystemSymbols
             work == [s \in Symbols |-> IF s \in syms THEN Gaps(s) \cup Partials(s) ELSE {}]
             all  == UNION {work[s] : s \in syms}
             last == [s \in Symbols |-> IF s \in syms THEN {LastTradingDay} ELSE {}]
  <1>1. syms \in SUBSET Symbols /\ UNCHANGED <<now, row>> /\ run[r].at = "idle"
    BY BarsAssumption DEF Watched, UpdateStart
  <1>2. ASSUME Flawless, NEW s \in syms, NEW d \in Window, Settled(d)
        PROVE  Filled(s, d) \/ d \in work[s]
    BY <1>1, <1>2, AsksForAll DEF Flawless
  <1>3. CASE all # {} /\ Begin(r, FALSE, syms, work, LastTradingDay - Min(all))
    <2>1. all \in SUBSET Days
      <3>1. \A s \in syms : work[s] \in SUBSET Days
        BY <1>1, ClockTyped DEF Gaps, Partials, Window
      <3> HIDE DEF work, syms
      <3> QED
        BY <3>1
    <2>2. LastTradingDay - Min(all) # TwoYears
      <3> HIDE DEF all
      <3> QED
        BY <1>3, <2>1, SpanIsShort
    <2> HIDE DEF syms, work, all
    <2> QED
      BY <1>1, <1>2, <1>3, <2>2, BeginFills
  <1>4. CASE all = {} /\ Begin(r, FALSE, syms, last, 0)
    <2>1. ASSUME Flawless, NEW s \in syms, NEW d \in Window, Settled(d) PROVE Filled(s, d)
      <3>1. work[s] = {}
        BY <1>4
      <3> HIDE DEF work
      <3> QED
        BY <1>2, <2>1, <3>1
    <2>2. 0 # TwoYears
      BY ClockTyped DEF TwoYears
    <2> HIDE DEF syms, last
    <2> QED
      BY <1>1, <1>4, <2>1, <2>2, BeginFills
  <1> QED
    BY <1>3, <1>4 DEF UpdateStart

\* A cold start is no update; its files are of another period.
LEMMA ColdStartFills ==
    ASSUME CatchUpInv, NEW r \in Runs, NEW s \in queued, ColdStart(r, s)
    PROVE  RunsFill' /\ FreshFill' /\ FilesFill'
  <1> DEFINE allowed == [t \in Symbols |-> IF t = s THEN Trading ELSE {}]
  <1>1. {s} \in SUBSET Symbols /\ UNCHANGED <<now, row>> /\ run[r].at = "idle"
    BY DEF ColdStart, CatchUpInv, IInv, TypeOK
  <1>2. CASE Begin(r, TRUE, {s}, allowed, TwoYears)
    <2> HIDE DEF allowed
    <2> QED
      BY <1>1, <1>2, BeginFills
  <1>3. CASE UNCHANGED <<status, cache, run, used>>
    BY <1>1, <1>3, OthersFill
  <1> QED
    BY <1>2, <1>3 DEF ColdStart

\* Each action preserves what an update relies on.
LEMMA CatchUpStep == CatchUpInv /\ [Next]_vars /\ IInv' => CatchUpInv'
  <1> SUFFICES ASSUME CatchUpInv, [Next]_vars, IInv' PROVE RunsFill' /\ FreshFill' /\ FilesFill'
    BY TimesStay DEF CatchUpInv
  <1>1. CASE Tick
    BY <1>1, TickFills
  <1>2. ASSUME NEW s \in Symbols \ SystemSymbols, Add(s) PROVE RunsFill' /\ FreshFill' /\ FilesFill'
    BY <1>2, OthersFill DEF Add
  <1>3. ASSUME NEW r \in Runs, NEW trigger, UpdateStart(r, trigger) PROVE RunsFill' /\ FreshFill' /\ FilesFill'
    BY <1>3, UpdateFills
  <1>4. ASSUME NEW r \in Runs, NEW s \in queued, ColdStart(r, s) PROVE RunsFill' /\ FreshFill' /\ FilesFill'
    BY <1>4, ColdStartFills
  <1>5. ASSUME NEW r \in Runs, FetchRunning(r) PROVE RunsFill' /\ FreshFill' /\ FilesFill'
    BY <1>5, FetchFills
  <1>6. ASSUME NEW r \in Runs, MissRunning(r) PROVE RunsFill' /\ FreshFill' /\ FilesFill'
    <2>1. ~Flawless'
      BY <1>6 DEF MissRunning, Spend, Flawless, CatchUpInv, IInv, TypeOK
    <2> QED
      BY <2>1 DEF RunsFill, FreshFill, FilesFill
  <1>7. ASSUME NEW r \in Runs, Persist(r) PROVE RunsFill' /\ FreshFill' /\ FilesFill'
    BY <1>7, PersistFills
  <1>8. CASE UNCHANGED vars
    BY <1>8, OthersFill DEF vars
  <1> QED
    BY <1>1, <1>2, <1>3, <1>4, <1>5, <1>6, <1>7, <1>8 DEF Next

\* An update that writes leaves no settled hole in its window and no bar to be
\* looked at again, for any calendar, any tickers and any number of updates and
\* cold starts side by side, unless a download failed, a running bar was missed
\* or the machine slept.
THEOREM UpdatesFillTheirWindow == Spec => UpdatesCatchUp
  <1>1. Init => CatchUpInv
    <2> SUFFICES ASSUME Init PROVE CatchUpInv
      OBVIOUS
    <2>1. LateAreSettled /\ LooksBack /\ RunsFill /\ FreshFill /\ FilesFill
      BY DEF Init, LateAreSettled, LooksBack, RunsFill, FreshFill, FilesFill, NoBar, Idle
    <2> QED
      BY <2>1, InitHolds DEF CatchUpInv
  <1> DEFINE CaughtUp == \A r \in Runs :
          Persist(r) /\ ~run[r].cold /\ used.sleeps + used.misses + used.failures = 0
          => \A s \in run[r].syms, d \in Window :
               d <= run[r].settled => row'[s][d] = [data |-> "final", late |-> TRUE]
  <1>2. CatchUpInv => CaughtUp
    <2> SUFFICES ASSUME CatchUpInv, NEW r \in Runs, Persist(r), ~run[r].cold,
                        used.sleeps + used.misses + used.failures = 0,
                        NEW s \in run[r].syms, NEW d \in Window, d <= run[r].settled
                 PROVE  Filled(s, d)'
      BY DEF Filled
    <2>1. Flawless
      <3>1. used.sleeps \in Nat /\ used.misses \in Nat /\ used.failures \in Nat
        BY BarsAssumption DEF CatchUpInv, IInv, TypeOK
      <3>2. \A a, b, c \in Nat : a + b + c = 0 => a = 0 /\ b = 0 /\ c = 0
        OBVIOUS
      <3> QED
        BY <3>1, <3>2 DEF Flawless
    <2>2. run[r].at = "bars" /\ s \in Symbols /\ d \in Days
      <3>1. IInv /\ run[r].at = "bars"
        BY DEF Persist, CatchUpInv
      <3>2. run[r] \in RunStates
        BY <3>1 DEF IInv, TypeOK
      <3>3. s \in Symbols
        BY <3>2 DEF RunStates
      <3> QED
        BY <3>1, <3>3, ClockTyped DEF Window
    <2>3. Settled(d)
      BY <2>2 DEF CatchUpInv, LooksBack
    <2>4. Filled(s, d) \/ (d \in run[r].allowed[s] /\ run[r].bars[d] = "final")
      BY <2>1, <2>2 DEF CatchUpInv, RunsFill
    <2>5. Filled(s, d) => Filled(s, d)'
      <3>1. IInv /\ LateAreSettled /\ used.sleeps = 0
        BY <2>1 DEF CatchUpInv, Flawless
      <3>2. \E q \in Runs : Persist(q)
        OBVIOUS
      <3> QED
        BY <2>2, <3>1, <3>2, FilledStays
    <2> QED
      BY <2>1, <2>2, <2>3, <2>4, <2>5, ComingIsFilled
  <1> HIDE DEF CaughtUp
  <1>3. Spec => [][CaughtUp]_vars
    BY <1>1, <1>2, CatchUpStep, InvariantHolds, PTL DEF Spec
  <1> QED
    BY <1>3 DEF UpdatesCatchUp, CaughtUp

\* The sessions an update may leave alone stay as they are: a final bar is not
\* lost, nor written over by an update that fetched the running bar earlier.
TrustedBarsStay ==
    [][ used.sleeps = 0 =>
          \A s \in Symbols, d \in Days : Filled(s, d) => Filled(s, d)' ]_vars

\* Whatever updates and cold starts overlap, a bar that the freshness check
\* trusts is there for good, as long as no machine has slept through a phase.
THEOREM WhatIsTrustedStays == Spec => TrustedBarsStay
  <1> DEFINE Timed == IInv /\ LateAreSettled /\ LooksBack
  <1>1. Init => Timed
    <2> SUFFICES ASSUME Init PROVE LateAreSettled /\ LooksBack
      BY InitHolds
    <2> QED
      BY DEF Init, LateAreSettled, LooksBack, NoBar, Idle
  <1>2. Timed /\ IInv' /\ [Next]_vars => Timed'
    BY TimesStay
  <1>3. Timed /\ [Next]_vars =>
          (used.sleeps = 0 => \A s \in Symbols, d \in Days : Filled(s, d) => Filled(s, d)')
    <2> SUFFICES ASSUME Timed, [Next]_vars, used.sleeps = 0,
                        NEW s \in Symbols, NEW d \in Days, Filled(s, d)
                 PROVE  Filled(s, d)'
      OBVIOUS
    <2>1. row' = row \/ \E r \in Runs : Persist(r)
      BY DEF Next, vars, Add, UpdateStart, ColdStart, FetchRunning, MissRunning, Tick
    <2> QED
      BY <2>1, FilledStays
  <1> QED
    BY <1>1, <1>2, <1>3, InvariantHolds, PTL DEF Spec, TrustedBarsStay

-----------------------------------------------------------------------------
(* What a cold start brings *)

\* No running bar has been missed, and no run has slept.  Downloads may fail: a
\* cold start whose download fails writes nothing.
Patient == used.sleeps = 0 /\ used.misses = 0

\* A file of two years is that of a ticker whose cold start has begun, so that
\* a cold start finds none and downloads.
FilesAreSpent ==
    \A f \in cache : f.span = TwoYears =>
        \E s \in Symbols : f.syms = {s} /\ s \notin queued /\ status[s] # "none"
QueuedAreWatched == \A s \in queued : status[s] # "none"

\* It asks for every session,
ColdAsks ==
    \A r \in Runs : run[r].at # "idle" /\ run[r].cold =>
        \A s \in run[r].syms : run[r].allowed[s] = Trading

\* has those that were settled when it began, or gets the last of them with the
\* running bar,
ColdFill ==
    Patient =>
        \A r \in Runs : run[r].at # "idle" /\ run[r].cold =>
            \A d \in Trading : d <= run[r].settled =>
                \/ run[r].bars[d] = "final"
                \/ run[r].at = "history" /\ RunningBar[d] = "final"

\* and begun before the open it has them all.
ColdFresh ==
    now.phase = Before =>
        \A r \in Runs : run[r].at = "history" /\ run[r].cold /\ run[r].fresh =>
            \A d \in Trading : d < now.day => run[r].bars[d] = "final"

ColdInv ==
    /\ IInv /\ LateAreSettled /\ LooksBack
    /\ FilesAreSpent /\ QueuedAreWatched /\ ColdAsks /\ ColdFill /\ ColdFresh

\* A watched ticker stays watched.
LEMMA WatchedStay ==
    ASSUME IInv, [Next]_vars, NEW s \in Symbols, status[s] # "none"
    PROVE  status'[s] # "none"
  <1>1. ASSUME NEW syms, NEW outcome, outcome # "none", status' = Mark(syms, outcome)
        PROVE  status'[s] # "none"
    BY <1>1 DEF Mark
  <1>2. ASSUME NEW r \in Runs, NEW cold, NEW syms, NEW allowed, NEW span, Begin(r, cold, syms, allowed, span)
        PROVE  status'[s] # "none"
    <2>1. status' = status \/ status' = Mark(syms, IF cold THEN "failed" ELSE "delisted")
      BY <1>2 DEF Begin
    <2>2. (IF cold THEN "failed" ELSE "delisted") # "none"
      OBVIOUS
    <2> QED
      BY <1>1, <2>1, <2>2
  <1>3. ASSUME NEW r \in Runs, Persist(r) PROVE status'[s] # "none"
    <2>1. \E found \in BOOLEAN : status' = Mark(run[r].syms, IF found THEN "ready" ELSE "delisted")
      BY <1>3 DEF Persist
    <2>2. \A found \in BOOLEAN : (IF found THEN "ready" ELSE "delisted") # "none"
      OBVIOUS
    <2> QED
      BY <1>1, <2>1, <2>2
  <1>4. ASSUME NEW t \in Symbols, Add(t) PROVE status'[s] # "none"
    BY <1>4 DEF Add, IInv, TypeOK
  <1>5. CASE UNCHANGED status
    BY <1>5
  <1> QED
    BY <1>2, <1>3, <1>4, <1>5 DEF Next, vars, Tick, UpdateStart, ColdStart, FetchRunning, MissRunning

\* An update asks for such a period.
LEMMA UpdateSpan ==
    ASSUME IInv, NEW r \in Runs, NEW trigger, UpdateStart(r, trigger)
    PROVE  \E syms, allowed, span :
             span # TwoYears /\ Begin(r, FALSE, syms, allowed, span)
  <1> DEFINE syms == Watched \cup SystemSymbols
             work == [s \in Symbols |-> IF s \in syms THEN Gaps(s) \cup Partials(s) ELSE {}]
             all  == UNION {work[s] : s \in syms}
             last == [s \in Symbols |-> IF s \in syms THEN {LastTradingDay} ELSE {}]
  <1>1. syms \in SUBSET Symbols
    BY BarsAssumption DEF Watched
  <1>2. CASE all # {} /\ Begin(r, FALSE, syms, work, LastTradingDay - Min(all))
    <2>1. all \in SUBSET Days
      <3>1. \A s \in syms : work[s] \in SUBSET Days
        BY <1>1, ClockTyped DEF Gaps, Partials, Window
      <3> HIDE DEF work, syms
      <3> QED
        BY <3>1
    <2>2. LastTradingDay - Min(all) # TwoYears
      <3> HIDE DEF all
      <3> QED
        BY <1>2, <2>1, SpanIsShort
    <2> HIDE DEF syms, work, all
    <2> QED
      BY <1>1, <1>2, <2>2
  <1>3. CASE all = {} /\ Begin(r, FALSE, syms, last, 0)
    <2>1. 0 # TwoYears
      BY ClockTyped DEF TwoYears
    <2> HIDE DEF syms, last
    <2> QED
      BY <1>1, <1>3, <2>1
  <1> QED
    BY <1>2, <1>3 DEF UpdateStart

\* A run that waits through a phase has slept.
LEMMA TickPatience ==
    ASSUME IInv, Tick, Patient'
    PROVE  Patient /\ \A r \in Runs : run[r].at # "idle" => run[r].fresh
  <1> DEFINE stale == \E r \in Runs : run[r].at # "idle" /\ ~run[r].fresh
  <1>1. IF stale THEN Spend("sleeps") ELSE UNCHANGED used
    BY DEF Tick
  <1>2. used.sleeps \in Nat /\ used \in [misses : 0 .. MaxMisses, failures : 0 .. MaxFailures, sleeps : 0 .. MaxSleeps]
    BY BarsAssumption DEF IInv, TypeOK
  <1>3. ~stale
    BY <1>1, <1>2 DEF Spend, Patient
  <1> QED
    BY <1>1, <1>3 DEF Patient

\* The session that a run begun before the open gets with the running bar is an
\* earlier one.
LEMMA RunningIsEarlier ==
    ASSUME IInv, now.phase = Before, NEW d \in Trading, RunningBar[d] = "final"
    PROVE  d < now.day
  <1> DEFINE S == {e \in Trading : e < now.day}
  <1>1. d \in Days
    BY ClockTyped
  <1>2. RunningDay = d
    BY <1>1, RunningBarIs
  <1>3. RunningDay = Max({0} \cup S)
    BY PhasesAreNumbers DEF RunningDay
  <1>4. d \in {0} \cup S
    BY <1>2, <1>3, LatestDay
  <1> QED
    BY <1>1, <1>4, ClockTyped

\* A settled session is in a download, or is the running bar.
LEMMA SettledIsServed ==
    ASSUME IInv, NEW d \in Trading, d <= Max({0} \cup {e \in Trading : Settled(e)})
    PROVE  ClosedBars[d] = "final" \/ RunningBar[d] = "final"
  <1>1. d \in Days /\ d \in Nat
    BY ClockTyped
  <1>2. Settled(d)
    BY <1>1, LastIsSettled
  <1>3. CASE d < now.day
    BY <1>3, DownloadIsWhole
  <1>4. CASE d = now.day /\ now.phase >= Settling
    <2>1. RunningDay = d
      BY <1>1, <1>4, ClockTyped, PhasesAreNumbers DEF RunningDay
    <2> QED
      BY <1>1, <1>4, <2>1, RunningBarIs, ClockTyped, PhasesAreNumbers
  <1> QED
    BY <1>2, <1>3, <1>4 DEF Settled

\* A file of two years is written by a cold start, which takes its ticker off
\* the queue.
LEMMA FilesStaySpent ==
    ASSUME ColdInv, [Next]_vars
    PROVE  FilesAreSpent'
  <1> USE DEF ColdInv
  <1> SUFFICES ASSUME NEW f \in cache', f.span = TwoYears
               PROVE  \E s \in Symbols : f.syms = {s} /\ s \notin queued' /\ status'[s] # "none"
    BY DEF FilesAreSpent, TwoYears
  <1>1. ASSUME f \in cache, queued' \subseteq queued \cup {t \in Symbols : status[t] = "none"}
        PROVE  \E s \in Symbols : f.syms = {s} /\ s \notin queued' /\ status'[s] # "none"
    <2>1. PICK s \in Symbols : f.syms = {s} /\ s \notin queued /\ status[s] # "none"
      BY <1>1 DEF FilesAreSpent
    <2> QED
      BY <1>1, <2>1, WatchedStay
  <1>2. CASE Tick
    BY <1>1, <1>2, TickFacts DEF Tick
  <1>3. ASSUME NEW s \in Symbols, Add(s)
        PROVE  f \in cache /\ queued' \subseteq queued \cup {t \in Symbols : status[t] = "none"}
    BY <1>3 DEF Add
  <1>4. ASSUME NEW r \in Runs, NEW trigger, UpdateStart(r, trigger)
        PROVE  f \in cache /\ queued' \subseteq queued
    <2>1. PICK syms, allowed, span :
               span # TwoYears /\ Begin(r, FALSE, syms, allowed, span)
      BY <1>4, UpdateSpan
    <2>2. \A bars : [span |-> span, syms |-> syms, bars |-> bars].span # TwoYears
      BY <2>1
    <2>3. cache' = cache \/ \E bars : cache' = cache \cup {[span |-> span, syms |-> syms, bars |-> bars]}
      BY <2>1, BeginIs
    <2> QED
      BY <1>4, <2>2, <2>3 DEF UpdateStart
  <1>5. ASSUME NEW r \in Runs, NEW s \in queued, ColdStart(r, s), f \notin cache
        PROVE  f.syms = {s} /\ s \in Symbols /\ s \notin queued' /\ status'[s] # "none"
    <2> DEFINE allowed == [t \in Symbols |-> IF t = s THEN Trading ELSE {}]
    <2>1. Begin(r, TRUE, {s}, allowed, TwoYears)
      BY <1>5 DEF ColdStart
    <2> HIDE DEF allowed
    <2>2. \E bars : cache' = cache \cup {[span |-> TwoYears, syms |-> {s}, bars |-> bars]}
      BY <1>5, <2>1, BeginIs
    <2>3. s \in Symbols /\ status[s] # "none"
      BY DEF QueuedAreWatched, IInv, TypeOK
    <2> QED
      BY <1>5, <2>2, <2>3, WatchedStay DEF ColdStart
  <1>6. ASSUME NEW r \in Runs, NEW s \in queued, ColdStart(r, s) PROVE queued' \subseteq queued
    BY <1>6 DEF ColdStart
  <1>7. CASE UNCHANGED <<queued, cache>>
    BY <1>1, <1>7
  <1> QED
    BY <1>1, <1>2, <1>3, <1>4, <1>5, <1>6, <1>7 DEF Next, vars, FetchRunning, MissRunning, Persist

\* Only a watched ticker is queued.
LEMMA QueuedStayWatched ==
    ASSUME ColdInv, [Next]_vars
    PROVE  QueuedAreWatched'
  <1>1. queued' \subseteq queued \/ \E s \in Symbols : Add(s)
    BY DEF Next, vars, Tick, UpdateStart, ColdStart, FetchRunning, MissRunning, Persist
  <1>2. ASSUME NEW s \in Symbols, Add(s), NEW t \in queued' PROVE status'[t] # "none"
    <2>1. status' = [status EXCEPT ![s] = "pending"] /\ queued' = queued \cup {s}
      BY <1>2 DEF Add
    <2>2. t = s \/ (t \in queued /\ status[t] # "none")
      BY <1>2, <2>1 DEF ColdInv, QueuedAreWatched
    <2> QED
      BY <2>1, <2>2 DEF ColdInv, IInv, TypeOK
  <1>3. ASSUME NEW t \in queued PROVE status'[t] # "none"
    BY WatchedStay DEF ColdInv, QueuedAreWatched, IInv, TypeOK
  <1> QED
    BY <1>1, <1>2, <1>3 DEF QueuedAreWatched

\* Steps that leave the runs and the clock alone.
LEMMA OthersBring ==
    ASSUME ColdInv, UNCHANGED <<now, run, used>>
    PROVE  ColdAsks' /\ ColdFill' /\ ColdFresh'
  <1>1. Patient' = Patient /\ RunningBar' = RunningBar
    BY DEF Patient, RunningBar, RunningDay
  <1> QED
    BY <1>1 DEF ColdInv, ColdAsks, ColdFill, ColdFresh

\* A cold start that begins has downloaded; an update that begins is none.
LEMMA BeginBrings ==
    ASSUME ColdInv, NEW r \in Runs, NEW cold \in BOOLEAN, NEW syms, NEW allowed, NEW span,
           Begin(r, cold, syms, allowed, span), UNCHANGED now,
           cold => /\ \A s \in syms : allowed[s] = Trading
                   /\ \A f \in cache : ~(f.span = span /\ f.syms = syms)
    PROVE  ColdAsks' /\ ColdFill' /\ ColdFresh'
  <1> USE DEF ColdInv
  <1> DEFINE last == Max({0} \cup {d \in Trading : Settled(d)})
  <1>1. CASE Spend("failures") /\ UNCHANGED <<run, cache>>
    <2>1. Patient' = Patient /\ RunningBar' = RunningBar
      BY <1>1 DEF Spend, Patient, RunningBar, RunningDay, IInv, TypeOK
    <2> QED
      BY <1>1, <2>1 DEF ColdAsks, ColdFill, ColdFresh
  <1>2. ASSUME UNCHANGED used, NEW bars,
               \/ bars = ClosedBars
               \/ \E f \in cache : f.span = span /\ f.syms = syms /\ f.bars = bars,
               run' = [run EXCEPT ![r] =
                     [at |-> "history", cold |-> cold, syms |-> syms, allowed |-> allowed,
                      bars |-> bars, fresh |-> TRUE, settled |-> last]]
        PROVE  ColdAsks' /\ ColdFill' /\ ColdFresh'
    <2>1. cold => bars = ClosedBars
      BY <1>2
    <2>2. \A d \in Trading : d <= last => ClosedBars[d] = "final" \/ RunningBar[d] = "final"
      BY SettledIsServed
    <2> HIDE DEF last
    <2>3. Patient' = Patient /\ RunningBar' = RunningBar /\ now' = now
      BY <1>2 DEF Patient, RunningBar, RunningDay
    <2>4. /\ \A q \in Runs : q # r => run'[q] = run[q]
          /\ run'[r].at = "history" /\ run'[r].cold = cold /\ run'[r].syms = syms
          /\ run'[r].allowed = allowed /\ run'[r].bars = bars /\ run'[r].settled = last
      BY <1>2 DEF IInv, TypeOK
    <2>5. ColdAsks'
      BY <2>4 DEF ColdAsks
    <2>6. ColdFill'
      BY <2>1, <2>2, <2>3, <2>4 DEF ColdFill
    <2>7. ColdFresh'
      BY <2>1, <2>3, <2>4, DownloadIsWhole DEF ColdFresh
    <2> QED
      BY <2>5, <2>6, <2>7
  <1> QED
    BY <1>1, <1>2, BeginIs

\* With the running bar a cold start has every session it owes.
LEMMA FetchBrings ==
    ASSUME ColdInv, NEW r \in Runs, FetchRunning(r)
    PROVE  ColdAsks' /\ ColdFill' /\ ColdFresh'
  <1> USE DEF ColdInv
  <1>1. /\ UNCHANGED <<now, row, cache, used>> /\ run[r].at = "history"
        /\ \A q \in Runs : q # r => run'[q] = run[q]
        /\ run'[r].at = "bars" /\ run'[r].cold = run[r].cold /\ run'[r].syms = run[r].syms
        /\ run'[r].allowed = run[r].allowed /\ run'[r].settled = run[r].settled
    BY FetchIs
  <1>2. Patient' = Patient /\ RunningBar' = RunningBar /\ now' = now
    BY <1>1 DEF Patient, RunningBar, RunningDay
  <1>3. ColdAsks'
    BY <1>1 DEF ColdAsks
  <1>4. ColdFill'
    <2> SUFFICES ASSUME Patient, NEW q \in Runs, run'[q].at # "idle", run'[q].cold,
                        NEW d \in Trading, d <= run'[q].settled
                 PROVE  \/ run'[q].bars[d] = "final"
                        \/ run'[q].at = "history" /\ RunningBar[d] = "final"
      BY <1>2 DEF ColdFill
    <2>1. CASE q # r
      BY <1>1, <2>1 DEF ColdFill
    <2>2. CASE q = r
      <3>1. run[r].bars[d] = "final" \/ RunningBar[d] = "final"
        BY <1>1, <2>2 DEF ColdFill
      <3>2. d \in Days /\ Settled(d)
        BY <1>1, <2>2, ClockTyped DEF LooksBack
      <3> QED
        BY <2>2, <3>1, <3>2, MergedIsFinal
    <2> QED
      BY <2>1, <2>2
  <1>5. ColdFresh'
    BY <1>1, <1>2 DEF ColdFresh
  <1> QED
    BY <1>3, <1>4, <1>5

\* A cold start that misses it may lack the last session; one that writes is
\* over.
LEMMA MissBrings ==
    ASSUME ColdInv, NEW r \in Runs, MissRunning(r)
    PROVE  ColdAsks' /\ ColdFill' /\ ColdFresh'
  <1> USE DEF ColdInv
  <1> DEFINE rested == Rested(r)
             next == [run[r] EXCEPT !.at = "bars", !.fresh = rested]
  <1>1. run' = [run EXCEPT ![r] = next] /\ run[r].at = "history" /\ now' = now
    BY DEF MissRunning
  <1> HIDE DEF rested
  <1>2. run[r] \in RunStates /\ run \in [Runs -> RunStates]
    BY DEF IInv, TypeOK
  <1>3. next.at = "bars" /\ next.cold = run[r].cold /\ next.syms = run[r].syms /\ next.allowed = run[r].allowed
    BY <1>2 DEF RunStates
  <1> HIDE DEF next
  <1>4. run'[r] = next /\ \A q \in Runs : q # r => run'[q] = run[q]
    BY <1>1, <1>2
  <1>5. ~Patient'
    BY DEF MissRunning, Spend, Patient, IInv, TypeOK
  <1>6. ColdAsks'
    BY <1>1, <1>3, <1>4 DEF ColdAsks
  <1>7. ColdFresh'
    BY <1>1, <1>3, <1>4 DEF ColdFresh
  <1> QED
    BY <1>5, <1>6, <1>7 DEF ColdFill

LEMMA PersistBrings ==
    ASSUME ColdInv, NEW r \in Runs, Persist(r)
    PROVE  ColdAsks' /\ ColdFill' /\ ColdFresh'
  <1> USE DEF ColdInv
  <1>1. UNCHANGED <<now, used>> /\ run' = [run EXCEPT ![r] = Idle]
    BY DEF Persist
  <1>2. \A q \in Runs : run'[q].at # "idle" => run'[q] = run[q]
    BY <1>1 DEF IInv, TypeOK, Idle
  <1>3. Patient' = Patient /\ RunningBar' = RunningBar /\ now' = now
    BY <1>1 DEF Patient, RunningBar, RunningDay
  <1>4. \A q \in Runs : run'[q].at = "history" => run'[q].at # "idle"
    OBVIOUS
  <1> QED
    BY <1>2, <1>3, <1>4 DEF ColdAsks, ColdFill, ColdFresh

\* When the session opens, a cold start that waits for the running bar has begun
\* before the open, and downloaded what it loses.
LEMMA TickBrings ==
    ASSUME ColdInv, Tick
    PROVE  ColdAsks' /\ ColdFill' /\ ColdFresh'
  <1> USE DEF ColdInv
  <1>1. run' = [q \in Runs |-> [run[q] EXCEPT !.fresh = FALSE]] /\ TypeOK
    BY TickFacts DEF IInv
  <1>2. ASSUME NEW r \in Runs
        PROVE  /\ run'[r].at = run[r].at /\ run'[r].cold = run[r].cold /\ run'[r].syms = run[r].syms
               /\ run'[r].allowed = run[r].allowed /\ run'[r].bars = run[r].bars
               /\ run'[r].settled = run[r].settled /\ ~run'[r].fresh
    <2> HIDE DEF ColdInv
    <2>1. run'[r] = [run[r] EXCEPT !.fresh = FALSE]
      BY <1>1, Zenon
    <2>2. run[r] \in RunStates
      BY <1>1 DEF TypeOK
    <2> QED
      BY <2>1, <2>2 DEF RunStates
  <1>3. ColdAsks'
    BY <1>2 DEF ColdAsks
  <1>4. ColdFresh'
    BY <1>2 DEF ColdFresh
  <1>5. ColdFill'
    <2> SUFFICES ASSUME Patient', NEW r \in Runs, run[r].at # "idle", run[r].cold,
                        NEW d \in Trading, d <= run[r].settled, run[r].bars[d] # "final"
                 PROVE  run[r].at = "history" /\ (RunningBar[d])' = "final"
      BY <1>2 DEF ColdFill
    <2>1. Patient /\ run[r].fresh
      BY TickPatience
    <2>2. run[r].at = "history" /\ RunningBar[d] = "final"
      BY <2>1 DEF ColdFill
    <2>3. ~(now.phase = Before)
      BY <2>1, <2>2, RunningIsEarlier DEF ColdFresh
    <2>4. d \in Days
      BY ClockTyped
    <2> QED
      BY <2>2, <2>3, <2>4, RunningBarStays
  <1> QED
    BY <1>3, <1>4, <1>5

\* Each action preserves what a cold start relies on.
LEMMA ColdStep == ColdInv /\ [Next]_vars /\ IInv' => ColdInv'
  <1> SUFFICES ASSUME ColdInv, [Next]_vars, IInv' PROVE ColdAsks' /\ ColdFill' /\ ColdFresh'
    BY TimesStay, FilesStaySpent, QueuedStayWatched DEF ColdInv
  <1>1. CASE Tick
    BY <1>1, TickBrings
  <1>2. ASSUME NEW r \in Runs, NEW trigger, UpdateStart(r, trigger) PROVE ColdAsks' /\ ColdFill' /\ ColdFresh'
    <2>1. UNCHANGED now
      BY <1>2 DEF UpdateStart
    <2>2. PICK syms, allowed, span : Begin(r, FALSE, syms, allowed, span)
      BY <1>2, UpdateSpan DEF ColdInv
    <2> QED
      BY <2>1, <2>2, BeginBrings
  <1>3. ASSUME NEW r \in Runs, NEW s \in queued, ColdStart(r, s) PROVE ColdAsks' /\ ColdFill' /\ ColdFresh'
    <2> DEFINE allowed == [t \in Symbols |-> IF t = s THEN Trading ELSE {}]
    <2>1. s \in Symbols /\ now' = now
      BY <1>3 DEF ColdStart, ColdInv, IInv, TypeOK
    <2>2. CASE UNCHANGED <<status, cache, run, used>>
      BY <2>1, <2>2, OthersBring
    <2>3. CASE Begin(r, TRUE, {s}, allowed, TwoYears)
      <3>1. \A t \in {s} : allowed[t] = Trading
        BY <2>1
      <3>2. \A f \in cache : ~(f.span = TwoYears /\ f.syms = {s})
        BY DEF ColdInv, FilesAreSpent
      <3> HIDE DEF allowed
      <3> QED
        BY <2>1, <2>3, <3>1, <3>2, BeginBrings
    <2> QED
      BY <1>3, <2>2, <2>3 DEF ColdStart
  <1>4. ASSUME NEW r \in Runs, FetchRunning(r) \/ MissRunning(r) \/ Persist(r)
        PROVE  ColdAsks' /\ ColdFill' /\ ColdFresh'
    BY <1>4, FetchBrings, MissBrings, PersistBrings
  <1>5. CASE UNCHANGED <<now, run, used>>
    BY <1>5, OthersBring
  <1> QED
    BY <1>1, <1>2, <1>3, <1>4, <1>5 DEF Next, vars, Add

\* A cold start that writes leaves every session that was settled when it began
\* with a final bar.
ColdStartsFill ==
    [][ \A r \in Runs :
          Persist(r) /\ run[r].cold /\ used.sleeps + used.misses = 0
          => \A s \in run[r].syms, d \in Trading : d <= run[r].settled => Filled(s, d)' ]_vars

\* For any calendar, and whatever else is under way, the cold start of a new
\* ticker brings its whole history, unless a running bar was missed or the
\* machine slept.
THEOREM ColdStartsBringHistory == Spec => ColdStartsFill
  <1>1. Init => ColdInv
    <2> SUFFICES ASSUME Init PROVE ColdInv
      OBVIOUS
    <2>1. LateAreSettled /\ LooksBack /\ FilesAreSpent /\ QueuedAreWatched /\ ColdAsks /\ ColdFill /\ ColdFresh
      BY DEF Init, LateAreSettled, LooksBack, FilesAreSpent, QueuedAreWatched, ColdAsks, ColdFill, ColdFresh,
             NoBar, Idle
    <2> QED
      BY <2>1, InitHolds DEF ColdInv
  <1> DEFINE Brought == \A r \in Runs :
          Persist(r) /\ run[r].cold /\ used.sleeps + used.misses = 0
          => \A s \in run[r].syms, d \in Trading : d <= run[r].settled => Filled(s, d)'
  <1>2. ColdInv => Brought
    <2> SUFFICES ASSUME ColdInv, NEW r \in Runs, Persist(r), run[r].cold, used.sleeps + used.misses = 0,
                        NEW s \in run[r].syms, NEW d \in Trading, d <= run[r].settled
                 PROVE  Filled(s, d)'
      OBVIOUS
    <2>1. Patient
      <3>1. used.sleeps \in Nat /\ used.misses \in Nat
        BY BarsAssumption DEF ColdInv, IInv, TypeOK
      <3> QED
        BY <3>1 DEF Patient
    <2>2. run[r].at = "bars" /\ IInv
      BY DEF Persist, ColdInv
    <2>3. run[r] \in RunStates
      BY <2>2 DEF IInv, TypeOK
    <2>4. s \in Symbols /\ d \in Days
      BY <2>2, <2>3, ClockTyped DEF RunStates
    <2>5. Settled(d)
      BY <2>2, <2>4 DEF ColdInv, LooksBack
    <2>6. run[r].bars[d] = "final" /\ d \in run[r].allowed[s]
      BY <2>1, <2>2 DEF ColdInv, ColdFill, ColdAsks
    <2> QED
      BY <2>4, <2>5, <2>6 DEF Persist, Filled
  <1> HIDE DEF Brought
  <1>3. Spec => [][Brought]_vars
    BY <1>1, <1>2, ColdStep, InvariantHolds, PTL DEF Spec
  <1> QED
    BY <1>3 DEF ColdStartsFill, Brought
=============================================================================
