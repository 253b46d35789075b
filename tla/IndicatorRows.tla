--------------------------- MODULE IndicatorRows ---------------------------
(***************************************************************************)
(* One indicator over time: observations come in day by day, some of them  *)
(* late; the daily update judges the day that has just closed and stores a *)
(* row; a revalidation judges a past day again from the rows stored since; *)
(* the chart page draws the same frames.                                   *)
(***************************************************************************)
EXTENDS Charts

CONSTANTS Subjects,      \* the indicators a run follows
          Left, Right,   \* for each indicator, the values its first and second frame take
          Windows,       \* the chart windows asked for
          Watched,       \* the days whose row a behaviour may follow
          MaxDay,        \* days of a behaviour: bounds the run
          MaxLate,       \* values that may arrive after their day: bounds the run
          Missing        \* what a table holds for a day without a value

(* A chart's window is longer than a MACD cross is fresh (21 days).        *)
Read == \A n \in Subjects : Left[n] \subseteq Readings(n) /\ (n \in Paired => Right[n] \subseteq Readings(n))
Bounds == MaxDay \in Nat /\ MaxLate \in Nat /\ \A w \in Windows : w \in Nat /\ w > MacdBack
ASSUME RowsAssumption == Subjects \subseteq PerTicker \cup MarketRegime /\ Read /\ Bounds

VARIABLES name,          \* the indicator this behaviour is about
          left, right,   \* what the price and macro tables hold for each day, or Missing
          row,           \* the daily signal row of the watched day, or NoRow
          watched,       \* that day
          late,          \* values that arrived after their day so far
          stale          \* one of them is dated on or before the row's day and came after the row

rowVars == <<name, left, right, row, watched, late, stale>>

NoRow == [day |-> 0, res |-> Insufficient(0)]
now == Len(left)

(* A day without a value has no row.                                       *)
Known(o) == o.v # Missing

(* Mutant: the whole table, later days included.                           *)
FrameUncut(table, d) ==
  Selected([i \in DOMAIN table |-> [d |-> i, v |-> table[i]]], Known)

(* The frame as loaded up to a day: the rows dated on or before it.        *)
FrameTo(table, d) ==
  Selected([i \in 1..d |-> [d |-> i, v |-> table[i]]], Known)

JudgedAt(d) == Compute(name, FrameTo(left, d), FrameTo(right, d))

RowsInit ==
  /\ name \in Subjects
  /\ left = <<>> /\ right = <<>>
  /\ row = NoRow
  /\ watched \in Watched
  /\ late = 0
  /\ stale = FALSE

(* A day passes; its value may be missing: not published yet, or the fetch *)
(* failed.                                                                 *)
NewDay ==
  /\ now < MaxDay
  /\ \E x \in Left[name] \cup {Missing} : left' = Append(left, x)
  /\ \E y \in (IF name \in Paired THEN Right[name] \cup {Missing} ELSE {Missing}) : right' = Append(right, y)
  /\ UNCHANGED <<name, row, watched, late, stale>>

(* The daily update of the day: the row is written, or overwritten by a    *)
(* later run of the same day.  Without a frame there is nothing to write.  *)
DailyUpdate ==
  /\ now = watched
  /\ FrameTo(left, now) # <<>>
  /\ row' = [day |-> now, res |-> JudgedAt(now)]
  /\ stale' = FALSE
  /\ UNCHANGED <<name, left, right, watched, late>>

(* A value published, or filled in by a gap scan, after its day.           *)
Arrive ==
  /\ late < MaxLate
  /\ \E d \in 1..(now - 1) :
       /\ left[d] = Missing
       /\ \E x \in Left[name] : left' = [left EXCEPT ![d] = x]
       /\ stale' = (stale \/ (row # NoRow /\ d <= row.day))
  /\ late' = late + 1
  /\ UNCHANGED <<name, right, row, watched>>

(* revalidate_all_snapshots at the watched day: the same computation, with *)
(* the context cut at that day.                                            *)
Revalidate ==
  /\ row # NoRow
  /\ row' = [day |-> row.day, res |-> JudgedAt(row.day)]
  /\ stale' = FALSE
  /\ UNCHANGED <<name, left, right, watched, late>>

RowsNext == NewDay \/ DailyUpdate \/ Arrive \/ Revalidate

RowsSpec == RowsInit /\ [][RowsNext]_rowVars

---------------------------------------------------------------------------
RowsTypeOK ==
  /\ name \in Subjects
  /\ left \in Seq(Left[name] \cup {Missing}) /\ Len(right) = Len(left)
  /\ row.res.tone \in Tones /\ row.res.ok \in BOOLEAN /\ row.res.as_of \in 0..MaxDay
  /\ watched \in Watched /\ late \in 0..MaxLate /\ stale \in BOOLEAN

(* The chart page and the stored tone of the same day never contradict     *)
(* each other, whatever window is asked for: they are computed by separate *)
(* code, each with thresholds and cross detection of its own.              *)
ChartAgrees ==
  LET F == FrameTo(left, now)
      G == FrameTo(right, now)
      judged == Compute(name, F, G)
  IN  judged.ok =>
        \A w \in Windows :
          Drawn(name, F, G, w) => SameVerdict(name, judged.tone, F, G, w)

(* Judging a day again gives what was judged on that day, however many     *)
(* days have passed, if no value of that day or before came in since.      *)
SameAgain == Revalidate /\ ~stale => row' = row
Reproduces == [][SameAgain]_rowVars

(* The as_of cut of the macro series keeps what came out after a day away  *)
(* from the judgement of that day: once the day is over, judging it again  *)
(* gives the same tone.  The cut is by the date of the value, though, not  *)
(* by the day it was published: this is what the comments say, and not     *)
(* what the code does.                                                     *)
SameTone ==
  row # NoRow /\ row'.day = row.day /\ now > row.day /\ row.res.ok => row'.res.tone = row.res.tone
NoLookAhead == [][SameTone]_rowVars
=============================================================================
