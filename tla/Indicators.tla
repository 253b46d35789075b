---------------------------- MODULE Indicators ----------------------------
(***************************************************************************)
(* The indicators of backend/app/indicators: what each one makes of the    *)
(* frames it is given.  A frame is a sequence of observations [d, v] in    *)
(* date order; v is an integer (a close, a macro value) or a record with   *)
(* the readings the indicator looks at.                                    *)
(*                                                                         *)
(* Moving averages, returns and streaks are exact: averages are compared   *)
(* by cross-multiplication.  Where the code first smooths a series (RSI,   *)
(* MACD, Bollinger bands, ADX, ATR, squeeze momentum, the Chaikin          *)
(* oscillator) the smoothed reading of each day is an input, and what is   *)
(* modelled is everything the code decides from it.                        *)
(*                                                                         *)
(* Window lengths are constants, so that a few days reach every branch.    *)
(***************************************************************************)
EXTENDS Selection, FiniteSetsExt

CONSTANTS FastMA, SlowMA,   \* 50 and 200
          CrossBack,        \* bars a moving-average cross stays recent (10)
          MacdBack,         \* bars a MACD cross stays recent (3)
          FireBack,         \* bars a squeeze release stays recent (5)
          Win,              \* the 20-bar window
          Slope,            \* bars between the two ends of a slope (5)
          Trend,            \* VIX and SKEW trend window (10)
          Streak,           \* strict moves of the dollar average (5)
          AdWin,            \* accumulation days window (25)
          RateDays,         \* calendar days back for the policy rate (30)
          Months,           \* months of the unemployment low (12)
          MinBars           \* for each indicator, the rows it needs

PerTicker == {"price_vs_ma", "rsi", "volume_anomaly", "relative_strength", "macd",
              "bollinger", "adx", "atr", "ttm_squeeze", "cho", "dxy", "fed_rate"}
MarketRegime == {"spx_ma", "ad_day", "vix", "yield_spread", "spx_adx", "vix_term",
                 "rsp_spy", "hyg_ief", "skew", "unrate"}
Paired == {"relative_strength", "yield_spread", "vix_term", "rsp_spy", "hyg_ief"}

Tones == {"green", "yellow", "red", "neutral"}

(* Windows have a length, and an indicator asks for the rows its rule      *)
(* looks back over.                                                        *)
Lengths == {FastMA, SlowMA, CrossBack, MacdBack, FireBack, Win, Slope, Trend, Streak, AdWin, RateDays, Months}
EnoughRows ==
  /\ \A n \in PerTicker \cup MarketRegime : MinBars[n] \in Nat \ {0}
  /\ MinBars["price_vs_ma"] >= SlowMA /\ MinBars["cho"] >= 2
  /\ MinBars["relative_strength"] > Win /\ MinBars["dxy"] >= Win + Streak
ASSUME IndicatorAssumption == Lengths \subseteq Nat \ {0} /\ EnoughRows

(* What an indicator reads from a row: a number, or the readings named at  *)
(* its definition below.                                                   *)
Readings(name) ==
  CASE name = "rsi" -> [day : Int, week : Int]
    [] name = "volume_anomaly" -> [c : Int, vol : Int]
    [] name = "ad_day" -> [move : Int, vol : Int]
    [] name \in {"adx", "spx_adx"} -> [adx : Int, di : Int]
    [] name = "ttm_squeeze" -> [on : BOOLEAN, mom : Int]
    [] name = "cho" -> [cho : Int, vol : Int]
    [] name \in {"relative_strength", "vix_term"} -> Nat
    [] OTHER -> Int

(* The date of the last row of a frame; 0 stands for None.                 *)
FrameAsOf(F) == IF F = <<>> THEN 0 ELSE F[Len(F)].d
OldestOf(a, b) == IF a = 0 THEN b ELSE IF b = 0 \/ a < b THEN a ELSE b

(* Mutant: a tone of its own for too little data.                          *)
InsufficientTone(date) == [tone |-> "insufficient", ok |-> FALSE, as_of |-> date]
Insufficient(date) == [tone |-> "neutral", ok |-> FALSE, as_of |-> date]
Result(tone, date) == [tone |-> tone, ok |-> TRUE, as_of |-> date]

(* The value n places before the end: Back(F, 0) is the latest.            *)
Back(F, n) == F[Len(F) - n].v
SumOver(F, from, to, V(_)) == MapThenSumSet(LAMBDA i : V(F[i].v), from..to)
Value(v) == v

(* Sum of the n values that end at position i: n times the moving average. *)
SumTo(F, i, n) == SumOver(F, i - n + 1, i, Value)

(* The sign-carrying distance of two averages of different lengths.        *)
AboveMA(F, i, n) == n * F[i].v - SumTo(F, i, n)
MAGap(F) == [k \in 1..(Len(F) - SlowMA + 1) |->
               LET i == k + SlowMA - 1
               IN  SlowMA * SumTo(F, i, FastMA) - FastMA * SumTo(F, i, SlowMA)]

(* Crosses of a gap series through zero, between places i - 1 and i.       *)
CrossUp(g, i) == g[i - 1] <= 0 /\ g[i] > 0
CrossDown(g, i) == g[i - 1] >= 0 /\ g[i] < 0
RecentPlaces(g, back) == {i \in 2..Len(g) : i > Len(g) - back}
RecentUp(g, back) == \E i \in RecentPlaces(g, back) : CrossUp(g, i)
RecentDown(g, back) == \E i \in RecentPlaces(g, back) : CrossDown(g, i)

(* The newest cross among the last `back` steps, as the loops that walk    *)
(* backwards find it: "bullish", "bearish" or "none".                      *)
LatestCross(g, back) ==
  LET at == {i \in RecentPlaces(g, back) : CrossUp(g, i) \/ CrossDown(g, i)}
  IN  IF at = {} THEN "none" ELSE IF CrossUp(g, Max(at)) THEN "bullish" ELSE "bearish"

(* Rows of two frames on the dates both have.                              *)
Shared(F, G) == {F[i].d : i \in DOMAIN F} \cap {G[i].d : i \in DOMAIN G}
OnDates(F, D) == Selected(F, LAMBDA o : o.d \in D)

---------------------------------------------------------------------------
(* Trend and volume of one close series.                                   *)

PriceVsMA(F) ==
  IF Len(F) < MinBars["price_vs_ma"] THEN Insufficient(FrameAsOf(F))
  ELSE Result(IF AboveMA(F, Len(F), FastMA) > 0 /\ AboveMA(F, Len(F), SlowMA) > 0 THEN "green"
              ELSE IF AboveMA(F, Len(F), SlowMA) >= 0 THEN "yellow" ELSE "red",
              FrameAsOf(F))

MACrosses(F) == [golden |-> RecentUp(MAGap(F), CrossBack), death |-> RecentDown(MAGap(F), CrossBack)]

(* v: [c, vol]; the average is of the Win bars before the last.            *)
VolumeAnomaly(F) ==
  LET avg == SumOver(F, Len(F) - Win, Len(F) - 1, LAMBDA v : v.vol)
      spike == avg > 0 /\ Win * Back(F, 0).vol >= 2 * avg
  IN  IF Len(F) < MinBars["volume_anomaly"] THEN Insufficient(FrameAsOf(F))
      ELSE Result(IF spike /\ Back(F, 0).c > Back(F, 1).c THEN "green"
                  ELSE IF spike /\ Back(F, 0).c < Back(F, 1).c THEN "red" ELSE "yellow",
                  FrameAsOf(F))

(* v: [move, vol]: the close against the open, and the volume.             *)
Expanding(F, i) == i > 1 /\ F[i].v.vol > F[i - 1].v.vol
NetDays(F, n) ==
  Cardinality({i \in (Len(F) - n + 1)..Len(F) : F[i].v.move > 0 /\ Expanding(F, i)})
    - Cardinality({i \in (Len(F) - n + 1)..Len(F) : F[i].v.move < 0 /\ Expanding(F, i)})

AdDay(F) ==
  IF Len(F) < MinBars["ad_day"] THEN Insufficient(FrameAsOf(F))
  ELSE Result(IF NetDays(F, AdWin) >= 3 THEN "green" ELSE IF NetDays(F, AdWin) <= -3 THEN "red" ELSE "yellow",
              FrameAsOf(F))

---------------------------------------------------------------------------
(* Smoothed readings.                                                      *)

(* v: [day, week]; week is None (-1) until there is enough weekly history. *)
NoReading == -1
Rsi(F) ==
  LET v == Back(F, 0)
  IN  IF Len(F) < MinBars["rsi"] THEN Insufficient(FrameAsOf(F))
      ELSE Result(IF v.week # NoReading /\ v.day > 70 /\ v.week > 70 THEN "red"
                  ELSE IF v.week # NoReading /\ v.day < 30 /\ v.week < 30 THEN "green" ELSE "yellow",
                  FrameAsOf(F))

(* v: the histogram, MACD line minus signal line.                          *)
Histogram(F) == [i \in 1..Len(F) |-> F[i].v]
Macd(F) ==
  LET cross == LatestCross(Histogram(F), MacdBack)
  IN  IF Len(F) < MinBars["macd"] THEN Insufficient(FrameAsOf(F))
      ELSE Result(CASE cross = "bullish" -> "green" [] cross = "bearish" -> "red" [] OTHER -> "yellow",
                  FrameAsOf(F))

(* Mutant: a close on the band counts as beyond it.                        *)
BollingerAtBand(F) ==
  IF Len(F) < MinBars["bollinger"] THEN Insufficient(FrameAsOf(F))
  ELSE Result(IF Back(F, 0) >= 100 THEN "red" ELSE IF Back(F, 0) <= 0 THEN "green" ELSE "yellow",
              FrameAsOf(F))

(* v: the place of the close between the bands, in hundredths of the       *)
(* width: below 0 is under the lower band, above 100 over the upper.       *)
Bollinger(F) ==
  IF Len(F) < MinBars["bollinger"] THEN Insufficient(FrameAsOf(F))
  ELSE Result(IF Back(F, 0) > 100 THEN "red" ELSE IF Back(F, 0) < 0 THEN "green" ELSE "yellow",
              FrameAsOf(F))

(* v: [adx, di]: strength, and plus minus directional index.  The slope    *)
(* threshold of half a point a day is compared over Slope days.            *)
Adx(F) ==
  LET fading == Len(F) > Slope /\ 2 * (Back(F, 0).adx - Back(F, Slope).adx) < -Slope
  IN  IF Len(F) < MinBars["adx"] THEN Insufficient(FrameAsOf(F))
      ELSE Result(IF Back(F, 0).adx >= 25 /\ ~fading THEN "green" ELSE "yellow", FrameAsOf(F))
AdxDirection(F) == IF Back(F, 0).di > 0 THEN "up" ELSE "down"

(* v: the average true range in tenths of a percent of the close.          *)
Atr(F) ==
  IF Len(F) < MinBars["atr"] THEN Insufficient(FrameAsOf(F))
  ELSE Result(IF Back(F, 0) >= 35 THEN "red" ELSE IF Back(F, 0) >= 15 THEN "yellow" ELSE "green",
              FrameAsOf(F))

(* v: [on, mom]: squeeze on, and the momentum.  The release that counts is *)
(* the newest of the last FireBack + 1 bars; the first of them has no      *)
(* predecessor in the window.                                              *)
Fires(F) == {i \in 2..Len(F) : i > Len(F) - FireBack /\ F[i - 1].v.on /\ ~F[i].v.on}
TtmSqueeze(F) ==
  IF Len(F) < MinBars["ttm_squeeze"] THEN Insufficient(FrameAsOf(F))
  ELSE Result(IF Fires(F) = {} THEN "yellow"
              ELSE IF F[Max(Fires(F))].v.mom > 0 THEN "green" ELSE "red",
              FrameAsOf(F))

(* v: [cho, vol]: the oscillator, and the average volume it is held        *)
(* against; within 5 % of that volume it is near zero.                     *)
Magnitude(x) == IF x < 0 THEN -x ELSE x
Cho(F) ==
  LET now == Back(F, 0)
      before == IF Len(F) > 1 THEN Back(F, 1).cho ELSE now.cho
      flat == 20 * Magnitude(now.cho) < now.vol
  IN  IF Len(F) < MinBars["cho"] THEN Insufficient(FrameAsOf(F))
      ELSE Result(IF flat THEN "yellow"
                  ELSE IF now.cho > 0 /\ now.cho > before THEN "green"
                  ELSE IF now.cho < 0 /\ now.cho < before THEN "red" ELSE "yellow",
                  FrameAsOf(F))

---------------------------------------------------------------------------
(* Levels and macro series.                                                *)

Vix(F) ==
  IF Len(F) < MinBars["vix"] THEN Insufficient(FrameAsOf(F))
  ELSE Result(IF Back(F, 0) < 12 THEN "yellow" ELSE IF Back(F, 0) <= 20 THEN "green"
              ELSE IF Back(F, 0) <= 30 THEN "yellow" ELSE "red", FrameAsOf(F))

Skew(F) ==
  IF Len(F) < MinBars["skew"] THEN Insufficient(FrameAsOf(F))
  ELSE Result(IF Back(F, 0) <= 130 THEN "green" ELSE IF Back(F, 0) < 145 THEN "yellow" ELSE "red",
              FrameAsOf(F))

LevelTrend(F) ==
  LET move == Back(F, 0) - Back(F, Trend)
  IN  IF move > 1 THEN "rising" ELSE IF move < -1 THEN "falling" ELSE "flat"

(* Steps of the dollar average, newest last: positive is a rise.           *)
DollarSteps(F) == [k \in 1..(Len(F) - Win) |-> SumTo(F, k + Win, Win) - SumTo(F, k + Win - 1, Win)]
LastSteps(F) == {k \in DOMAIN DollarSteps(F) : k > Len(F) - Win - Streak}
Dxy(F) ==
  IF Len(F) < MinBars["dxy"] THEN Insufficient(FrameAsOf(F))
  ELSE Result(IF \A k \in LastSteps(F) : DollarSteps(F)[k] > 0 THEN "red"
              ELSE IF \A k \in LastSteps(F) : DollarSteps(F)[k] < 0 THEN "green" ELSE "yellow",
              FrameAsOf(F))

(* v in hundredths of a percent.                                           *)
FedRate(F) ==
  LET before == {i \in DOMAIN F : F[i].d <= FrameAsOf(F) - RateDays}
      delta == Back(F, 0) - F[Max(before)].v
  IN  IF before = {} THEN Insufficient(FrameAsOf(F))
      ELSE Result(IF delta < -25 THEN "green" ELSE IF delta > 25 THEN "red" ELSE "yellow", FrameAsOf(F))

(* v in tenths of a percent; 3 months are compared with the low, so the    *)
(* thresholds 0.3 and 0.5 are 9 and 15.                                    *)
Sahm(F) == SumTo(F, Len(F), 3) - 3 * Min({F[i].v : i \in (Len(F) - Months + 1)..Len(F)})
Unrate(F) ==
  IF Len(F) < MinBars["unrate"] THEN Insufficient(FrameAsOf(F))
  ELSE Result(IF Sahm(F) >= 15 THEN "red" ELSE IF Sahm(F) >= 9 THEN "yellow" ELSE "green", FrameAsOf(F))

---------------------------------------------------------------------------
(* Two frames.                                                             *)

(* Returns over Win bars, each frame counted on its own; 2 % apart.        *)
RelativeStrength(F, G) ==
  LET a == Back(F, 0) * Back(G, Win)
      b == Back(G, 0) * Back(F, Win)
      unit == Back(F, Win) * Back(G, Win)
      date == OldestOf(FrameAsOf(F), FrameAsOf(G))
  IN  IF F = <<>> \/ G = <<>> THEN Insufficient(0)
      ELSE IF Len(F) < MinBars["relative_strength"] \/ Len(G) < MinBars["relative_strength"]
           THEN Insufficient(date)
      ELSE Result(IF 50 * (a - b) > unit THEN "green" ELSE IF 50 * (a - b) < -unit THEN "red" ELSE "yellow",
                  date)

(* v in tenths of a percent.                                               *)
YieldSpread(F, G) ==
  LET D == Shared(F, G)
      spread == Back(OnDates(F, D), 0) - Back(OnDates(G, D), 0)
  IN  IF D = {} THEN Insufficient(0)
      ELSE Result(IF spread > 2 THEN "green" ELSE IF spread > 0 THEN "yellow" ELSE "red",
                  OldestOf(FrameAsOf(F), FrameAsOf(G)))

(* The last value of each series, whatever their dates.                    *)
VixTerm(F, G) ==
  LET date == OldestOf(FrameAsOf(F), FrameAsOf(G))
  IN  IF F = <<>> \/ G = <<>> THEN Insufficient(0)
      ELSE IF Len(F) < MinBars["vix_term"] \/ Len(G) < MinBars["vix_term"] THEN Insufficient(date)
      ELSE Result(IF Back(F, 0) >= Back(G, 0) THEN "red"
                  ELSE IF 100 * Back(F, 0) < 95 * Back(G, 0) THEN "green" ELSE "yellow", date)

(* rsp_spy and hyg_ief: the change of the ratio over the last Win shared   *)
(* dates, per row; the thresholds are 0.05 % a row.                        *)
RatioSlope(F, G) ==
  LET D == Shared(F, G)
      A == OnDates(F, D)
      B == OnDates(G, D)
      rows == IF Len(A) < Win THEN Len(A) ELSE Win
      last == Back(A, 0) * Back(B, rows - 1)
      first == Back(A, rows - 1) * Back(B, 0)
  IN  IF rows < 2 THEN "flat"
      ELSE IF 2000 * (last - first) >= rows * first THEN "up"
      ELSE IF 2000 * (last - first) <= -(rows * first) THEN "down" ELSE "flat"

RatioTone(F, G) ==
  LET date == OldestOf(FrameAsOf(F), FrameAsOf(G))
  IN  IF F = <<>> \/ G = <<>> THEN Insufficient(0)
      ELSE IF \E n \in {Len(F), Len(G), Cardinality(Shared(F, G))} : n < MinBars["hyg_ief"]
           THEN Insufficient(date)
      ELSE Result(CASE RatioSlope(F, G) = "up" -> "green" [] RatioSlope(F, G) = "down" -> "red"
                    [] OTHER -> "yellow", date)

(* The same rules on SPY, and on the ratio of the two equity funds, each   *)
(* written out again in a module of its own.                               *)
SpxMA(F) == PriceVsMA(F)
SpxAdx(F) == Adx(F)
RspSpy(F, G) == RatioTone(F, G)
HygIef(F, G) == RatioTone(F, G)

(* compute_all and compute_market_regime, for one name: the orchestrator   *)
(* calls the function registered for it.                                   *)
Compute(name, F, G) ==
  CASE name = "price_vs_ma" -> PriceVsMA(F)
    [] name = "spx_ma" -> SpxMA(F)
    [] name = "rsi" -> Rsi(F)
    [] name = "volume_anomaly" -> VolumeAnomaly(F)
    [] name = "relative_strength" -> RelativeStrength(F, G)
    [] name = "macd" -> Macd(F)
    [] name = "bollinger" -> Bollinger(F)
    [] name = "adx" -> Adx(F)
    [] name = "spx_adx" -> SpxAdx(F)
    [] name = "atr" -> Atr(F)
    [] name = "ttm_squeeze" -> TtmSqueeze(F)
    [] name = "cho" -> Cho(F)
    [] name = "dxy" -> Dxy(F)
    [] name = "fed_rate" -> FedRate(F)
    [] name = "ad_day" -> AdDay(F)
    [] name = "vix" -> Vix(F)
    [] name = "skew" -> Skew(F)
    [] name = "unrate" -> Unrate(F)
    [] name = "yield_spread" -> YieldSpread(F, G)
    [] name = "vix_term" -> VixTerm(F, G)
    [] name = "rsp_spy" -> RspSpy(F, G)
    [] name = "hyg_ief" -> HygIef(F, G)
=============================================================================
