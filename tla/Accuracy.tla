------------------------------ MODULE Accuracy ------------------------------
(***************************************************************************)
(* The grading pages of api/v1/history_routes.py: what a stored call is    *)
(* worth, once enough days have passed to say.  The tables grow a day at a *)
(* time, and bars that were missing may still arrive; every page is a      *)
(* function of the tables.                                                 *)
(***************************************************************************)
EXTENDS Selection, FiniteSetsExt

CONSTANTS Closes, SpyCloses,   \* the closes a day may have, of the ticker and of SPY
          Calls,               \* the actions a snapshot may hold
          Missing,             \* no bar, or no snapshot
          Horizons,            \* calendar days ahead
          MinSplit,            \* snapshots below which there is no split (30)
          SplitPct,            \* the shares of the training half
          Rolling,             \* length of the rolling average (50, 200)
          GradeDays, MaxFills  \* days, and bars filled in later: bound the run

(* A split is in percent, and of at least two snapshots; an average is of  *)
(* one bar or more.                                                        *)
Horizoned == Horizons \subseteq Nat /\ MaxFills \in Nat
Splits == SplitPct \subseteq 1 .. 99 /\ MinSplit \in Nat /\ MinSplit >= 2
Averaged == SpyCloses \subseteq Int /\ Rolling \in Nat \ {0}
ASSUME AccuracyAssumption == Horizoned /\ Splits /\ Averaged

VARIABLES close,         \* for each day, the ticker's close or Missing
          spy,           \* SPY's
          call,          \* the stored action or Missing
          fills          \* bars that arrived late so far

gradeVars == <<close, spy, call, fills>>

TableDays == DOMAIN close
Priced(table) == {d \in DOMAIN table : table[d] # Missing}
Called == {d \in TableDays : call[d] # Missing}

(* Two per cent either way is flat.                                        *)
ClassifyMove(start, forward) ==
  IF 100 * (forward - start) > 2 * start THEN "up"
  ELSE IF 100 * (forward - start) < -2 * start THEN "down" ELSE "flat"

ExpectedMove(action) ==
  CASE action \in {"strong_buy", "buy"} -> "up"
    [] action \in {"reduce", "exit"} -> "down"
    [] action \in {"hold", "watch"} -> "flat"

(* Mutant: the latest bar there is, when none is late enough.              *)
LatestIfNone(table, target) ==
  LET later == {d \in Priced(table) : d >= target}
  IN  IF later # {} THEN Min(later) ELSE IF Priced(table) = {} THEN 0 ELSE Max(Priced(table))

(* The first bar on or after a date; 0 is None.                            *)
FirstOnOrAfter(table, target) ==
  LET later == {d \in Priced(table) : d >= target} IN IF later = {} THEN 0 ELSE Min(later)

(* The date a call is graded at, 0 if it is not.                           *)
GradedAt(table, d, h) == IF d \in Priced(table) THEN FirstOnOrAfter(table, d + h) ELSE 0
Move(table, d, h) == ClassifyMove(table[d], table[GradedAt(table, d, h)])

(* _eval_accuracy: the SPY side only adds returns, it never decides.       *)
Graded(h) == {d \in Called : GradedAt(close, d, h) # 0}

(* Mutant: over every day of the table.                                    *)
BaselineEveryDay(h) == {d \in TableDays : GradedAt(spy, d, h) # 0}

(* _eval_baseline over the dates of the calls.                             *)
BaselineDays(h) == {d \in Called : GradedAt(spy, d, h) # 0}
BaselineCount(h, move) == Cardinality({d \in BaselineDays(h) : Move(spy, d, h) = move})

(* posture_accuracy: the same dates, when the calls are postures of the    *)
(* market and the bars are SPY's.                                          *)
ExpectedOfPosture(p) ==
  CASE p = "offensive" -> "up" [] p = "defensive" -> "down" [] p = "normal" -> "flat"
PostureOf(action) ==
  CASE ExpectedMove(action) = "up" -> "offensive" [] ExpectedMove(action) = "down" -> "defensive"
    [] OTHER -> "normal"
PostureGraded(h, p) == {d \in Called : PostureOf(call[d]) = p /\ GradedAt(spy, d, h) # 0}
PostureCorrect(h, p) == {d \in PostureGraded(h, p) : Move(spy, d, h) = ExpectedOfPosture(p)}

(* _compute_event_study: both bars of both days.                           *)
EventDays(action, h) ==
  {d \in Called : call[d] = action /\ GradedAt(close, d, h) # 0 /\ GradedAt(spy, d, h) # 0}

(* time_split_validation: the snapshots in order, cut at split_idx.        *)
SplitIndex(n, pct) == Max({1, (n * pct) \div 100})
Nth(n) == NthOf(Called, n)
TrainDays(pct) == Nth(1)..Nth(SplitIndex(Cardinality(Called), pct))
(* Mutant: the day of the cut is in both halves.                           *)
TestFromCut(pct) == Nth(SplitIndex(Cardinality(Called), pct))..Max(Called)
TestDays(pct) == Nth(SplitIndex(Cardinality(Called), pct) + 1)..Max(Called)

(* _spy_moving_averages: the running sum over the bars that exist.         *)
Bars == Selected(spy, LAMBDA c : c # Missing)
RunningSum ==
  LET bars == Bars
      sum[k \in 0..Len(bars)] ==
        IF k = 0 THEN 0 ELSE sum[k - 1] + bars[k] - (IF k > Rolling THEN bars[k - Rolling] ELSE 0)
  IN  sum

---------------------------------------------------------------------------
GradeInit == close = <<>> /\ spy = <<>> /\ call = <<>> /\ fills = 0

(* A day of trading: whatever of the three tables gets its row.            *)
NewDay ==
  /\ Len(close) < GradeDays
  /\ \E c \in Closes \cup {Missing} : close' = Append(close, c)
  /\ \E s \in SpyCloses \cup {Missing} : spy' = Append(spy, s)
  /\ \E a \in Calls \cup {Missing} : call' = Append(call, a)
  /\ UNCHANGED fills

(* A gap scan fills a bar in.                                              *)
FillBar ==
  /\ fills < MaxFills
  /\ fills' = fills + 1
  /\ \E d \in TableDays :
       \/ close[d] = Missing /\ \E c \in Closes : close' = [close EXCEPT ![d] = c] /\ UNCHANGED spy
       \/ spy[d] = Missing /\ \E s \in SpyCloses : spy' = [spy EXCEPT ![d] = s] /\ UNCHANGED close
  /\ UNCHANGED call

GradeNext == NewDay \/ FillBar

GradeSpec == GradeInit /\ [][GradeNext]_gradeVars

---------------------------------------------------------------------------
GradeTypeOK ==
  /\ close \in Seq(Closes \cup {Missing}) /\ spy \in Seq(SpyCloses \cup {Missing})
  /\ call \in Seq(Calls \cup {Missing}) /\ fills \in 0..MaxFills
  /\ Len(spy) = Len(close) /\ Len(call) = Len(close)

(* A grade is final: once a call has been graded, no later day changes the *)
(* bar it is graded at, for the ticker or for SPY.  A bar that arrives     *)
(* late takes no grade away, and moves one only to an earlier date that    *)
(* has still waited the horizon out.                                       *)
GradesKept ==
  \A h \in Horizons :
    IF Len(call') > Len(call)
    THEN \A d \in Called :
           /\ GradedAt(close, d, h) # 0 => GradedAt(close', d, h) = GradedAt(close, d, h)
           /\ GradedAt(spy, d, h) # 0 => GradedAt(spy', d, h) = GradedAt(spy, d, h)
    ELSE \A d \in Graded(h) : GradedAt(close', d, h) \in (d + h)..GradedAt(close, d, h)
GradesFinal == [][GradesKept]_gradeVars

(* The posture page and the SPY baseline it is measured against, computed  *)
(* by separate loops, are about the same days, and what each posture got   *)
(* right is at most what the market gave that direction.                   *)
PostureOnBaseline ==
  \A h \in Horizons :
    /\ Cardinality(UNION {PostureGraded(h, p) : p \in {"offensive", "defensive", "normal"}})
         = BaselineCount(h, "up") + BaselineCount(h, "down") + BaselineCount(h, "flat")
    /\ \A p \in {"offensive", "defensive", "normal"} :
         Cardinality(PostureCorrect(h, p)) <= BaselineCount(h, ExpectedOfPosture(p))

(* The samples the studies are drawn from.  Events are nested: the longer  *)
(* the horizon, the fewer.  The two halves of a split share no day and     *)
(* leave no snapshot out.  The rolling sum, which only ever adds and takes *)
(* away one bar, is the sum of the last bars of the window.                *)
EventsNested ==
  \A a \in Calls : \A h, k \in Horizons : h <= k => EventDays(a, k) \subseteq EventDays(a, h)
HalvesApart ==
  Cardinality(Called) >= MinSplit =>
    \A pct \in SplitPct :
      /\ TrainDays(pct) # {} /\ TestDays(pct) # {} /\ TrainDays(pct) \cap TestDays(pct) = {}
      /\ Called \subseteq TrainDays(pct) \cup TestDays(pct)
RollingIsWindow ==
  LET bars == Bars
      sum == RunningSum
  IN  \A k \in 1..Len(bars) : sum[k] = MapThenSumSet(LAMBDA i : bars[i], Max({1, k - Rolling + 1})..k)
StudySamples == EventsNested /\ HalvesApart /\ RollingIsWindow
=============================================================================
