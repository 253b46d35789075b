------------------------------ MODULE Verdicts ------------------------------
(***************************************************************************)
(* The last stage of the daily update and the pages that show it: the      *)
(* day's tones are stored row by row, then composed into one snapshot, and *)
(* the two are read back separately.  `side` says whose verdict it is, one *)
(* ticker's or the market's.                                               *)
(***************************************************************************)
EXTENDS Votes

CONSTANTS VerdictDays,   \* the days of a behaviour: bounds the run
          Outcomes,      \* for each voter, the tones the run lets it take
          Torn           \* voters that may change while the compose fails: bounds the run

Stored == {"green", "yellow", "red", "neutral"}
ASSUME VotersHaveTones == \A n \in TickerVoters \cup MarketVoters : Outcomes[n] \subseteq Stored

VARIABLES side, today,
          rows,          \* the tones stored last
          rowsDay,       \* the date of those rows
          snap,          \* the newest snapshot, or NoSnapshot
          torn           \* the newest compose left older rows' counts beside newer rows

verdictVars == <<side, today, rows, rowsDay, snap, torn>>

Voters == IF side = "ticker" THEN TickerVoters ELSE MarketVoters
Said == {"strong_buy", "buy", "hold", "watch", "reduce", "exit", "offensive", "normal", "defensive", "none"}
NoSnapshot == [day |-> 0, main |-> "none", near |-> "none", greens |-> 0, reds |-> 0,
               nearGreens |-> 0, nearReds |-> 0, timing |-> "none", showTiming |-> FALSE]

(* compose_and_persist_ticker and compose_and_persist_market.              *)
ComposeTicker(tones) ==
  [day |-> today, main |-> Action(tones), near |-> ActionShort(tones),
   greens |-> Greens(tones, DirectionNames), reds |-> Reds(tones, DirectionNames),
   nearGreens |-> Greens(tones, ShortNames), nearReds |-> Reds(tones, ShortNames),
   timing |-> Timing(tones), showTiming |-> Action(tones) \in BuySide]
ComposeMarket(tones) ==
  [day |-> today, main |-> Posture(tones), near |-> PostureShort(tones),
   greens |-> Greens(tones, RegimeNames), reds |-> Reds(tones, RegimeNames),
   nearGreens |-> Greens(tones, RegimeShortNames), nearReds |-> Reds(tones, RegimeShortNames),
   timing |-> "none", showTiming |-> FALSE]
Compose(tones) == IF side = "ticker" THEN ComposeTicker(tones) ELSE ComposeMarket(tones)

(* No rows are stored yet; the first update starts from some day's tones.  *)
VerdictInit ==
  /\ side \in {"ticker", "market"}
  /\ today = 1
  /\ rows = [n \in Voters |-> IF "yellow" \in Outcomes[n] THEN "yellow" ELSE "red"]
  /\ rowsDay = 0
  /\ snap = NoSnapshot
  /\ torn = FALSE

(* A run of the update in which at most one indicator changed its mind:    *)
(* the rows of today are overwritten, then the snapshot of today.          *)
Update(n, t) ==
  /\ rows' = [rows EXCEPT ![n] = t]
  /\ rowsDay' = today
  /\ snap' = Compose(rows')
  /\ torn' = FALSE
  /\ UNCHANGED <<side, today>>

(* The compose raised: its savepoint is rolled back, the rows stay in the  *)
(* transaction the update commits.  Not twice in a row: bounds the run.    *)
UpdateWithoutSnapshot(n, t) ==
  /\ snap # NoSnapshot /\ ~torn
  /\ rows' = [rows EXCEPT ![n] = t]
  /\ rowsDay' = today
  /\ torn' = (side = "ticker" \/ snap.day = today)
  /\ UNCHANGED <<side, today, snap>>

NextDay ==
  /\ today < VerdictDays
  /\ today' = today + 1
  /\ UNCHANGED <<side, rows, rowsDay, snap, torn>>

VerdictNext ==
  \/ \E n \in Voters : \E t \in Outcomes[n] : Update(n, t)
  \/ \E n \in Voters \cap Torn : \E t \in Outcomes[n] : UpdateWithoutSnapshot(n, t)
  \/ NextDay

VerdictSpec == VerdictInit /\ [][VerdictNext]_verdictVars

---------------------------------------------------------------------------
(* Mutant: the market page shows rows of any date.                         *)
ShownOfAnyDate == IF snap = NoSnapshot THEN {} ELSE Listed(Voters)

(* The pages.  The market page drops rows that are not of its snapshot's   *)
(* date; the ticker page shows the newest rows whatever their date.        *)
Shown == IF snap = NoSnapshot THEN {}
         ELSE IF side = "ticker" THEN Listed(Voters)
         ELSE IF rowsDay = snap.day THEN Listed(Voters) ELSE {}
On(page, names, s) == Cardinality({n \in page \cap names : Side(rows[n]) = s})
Main == IF side = "ticker" THEN DirectionNames ELSE RegimeNames
Near == IF side = "ticker" THEN ShortNames ELSE RegimeShortNames

Snapshots ==
  [day : Nat, main : Said, near : Said, greens : Nat, reds : Nat, nearGreens : Nat, nearReds : Nat,
   timing : {"favorable", "unfavorable", "mixed", "none"}, showTiming : BOOLEAN]

VerdictTypeOK ==
  /\ side \in {"ticker", "market"}
  /\ today \in Nat
  /\ rows \in [Voters -> Stored]
  /\ rowsDay \in Nat
  /\ snap \in Snapshots
  /\ torn \in BOOLEAN

(* What a page lists adds up to what its snapshot counted: the rows shown  *)
(* for and against are the votes behind the verdict beside them, unless    *)
(* the compose of those very rows failed.                                  *)
PageAddsUp ==
  Shown # {} /\ ~torn =>
    /\ On(Shown, Main, "pro") = snap.greens /\ On(Shown, Main, "con") = snap.reds
    /\ On(Shown, Near, "pro") = snap.nearGreens /\ On(Shown, Near, "con") = snap.nearReds

(* The two horizons of a ticker share voters, and the gaps of their table  *)
(* are set so that they never advise the opposite of each other: a strong  *)
(* buy on one never stands beside a reduce or an exit on the other, and    *)
(* the timing badge never beside a short horizon of the other kind.        *)
NeverOpposed ==
  snap # NoSnapshot /\ side = "ticker" =>
    /\ snap.main = "strong_buy" => ActionRank(snap.near) >= ActionRank("watch")
    /\ snap.near = "strong_buy" => ActionRank(snap.main) >= ActionRank("watch")
    /\ snap.timing = "unfavorable" => ActionRank(snap.near) <= ActionRank("watch")
    /\ snap.timing = "favorable" => ActionRank(snap.near) >= ActionRank("watch")

(* No verdict improves because a vote got worse: composing rows in which   *)
(* one tone turned for the worse, and the others stayed, never raises the  *)
(* action or the posture of either horizon.                                *)
Rank(v) == IF side = "ticker" THEN ActionRank(v) ELSE PostureRank(v)
OneWorse ==
  /\ rows' # rows
  /\ \E n \in Voters : Worse(rows[n], rows'[n]) /\ rows' = [rows EXCEPT ![n] = rows'[n]]
ComposedFrom(tones, s) == s # NoSnapshot /\ s = [Compose(tones) EXCEPT !.day = s.day]
NotBetter ==
  OneWorse /\ ComposedFrom(rows, snap) /\ ComposedFrom(rows', snap') =>
    Rank(snap'.main) <= Rank(snap.main) /\ Rank(snap'.near) <= Rank(snap.near)
WorseNeverBetter == [][NotBetter]_verdictVars
=============================================================================
