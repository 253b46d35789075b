------------------------------- MODULE Votes -------------------------------
(***************************************************************************)
(* The verdicts of backend/app/signals: which indicators vote on what, and *)
(* what their green and red votes add up to.  A vote is a stored tone;     *)
(* "neutral" is what an indicator without enough data stores, and is not   *)
(* counted.                                                                *)
(***************************************************************************)
EXTENDS Integers, FiniteSets

DirectionNames == {"price_vs_ma", "rsi", "volume_anomaly", "relative_strength", "cho"}
ShortNames == {"rsi", "macd", "bollinger", "volume_anomaly", "ttm_squeeze"}
TimingNames == {"macd", "bollinger"}
RegimeNames == {"spx_ma", "ad_day", "vix", "yield_spread", "hyg_ief", "unrate"}
RegimeShortNames == {"vix", "ad_day", "vix_term", "skew"}
TickerVoters == DirectionNames \cup ShortNames
MarketVoters == RegimeNames \cup RegimeShortNames

Greens(tones, V) == Cardinality({n \in V : tones[n] = "green"})
Reds(tones, V) == Cardinality({n \in V : tones[n] = "red"})

(* Mutants: reduce reaches into watch; reduce ends at three reds.          *)
ReduceEarlier(g, r) ==
  IF g = 5 /\ r = 0 THEN "strong_buy"
  ELSE IF g = 4 /\ r <= 1 THEN "buy"
  ELSE IF g = 3 /\ r <= 1 THEN "hold"
  ELSE IF g \in 1..3 /\ r \in 1..2 THEN "watch"
  ELSE IF g <= 2 /\ r \in 3..4 THEN "reduce"
  ELSE IF g = 0 /\ r = 5 THEN "exit" ELSE "watch"
ReduceAtThreeOnly(g, r) ==
  IF g = 5 /\ r = 0 THEN "strong_buy"
  ELSE IF g = 4 /\ r <= 1 THEN "buy"
  ELSE IF g = 3 /\ r <= 1 THEN "hold"
  ELSE IF g \in 1..3 /\ r \in 1..2 THEN "watch"
  ELSE IF g <= 1 /\ r = 3 THEN "reduce"
  ELSE IF g = 0 /\ r = 5 THEN "exit" ELSE "watch"

(* The table of both horizons, first matching row; the counts no row names *)
(* mean watch.                                                             *)
ActionFor(g, r) ==
  IF g = 5 /\ r = 0 THEN "strong_buy"
  ELSE IF g = 4 /\ r <= 1 THEN "buy"
  ELSE IF g = 3 /\ r <= 1 THEN "hold"
  ELSE IF g \in 1..3 /\ r \in 1..2 THEN "watch"
  ELSE IF g <= 1 /\ r \in 3..4 THEN "reduce"
  ELSE IF g = 0 /\ r = 5 THEN "exit" ELSE "watch"

Action(tones) == ActionFor(Greens(tones, DirectionNames), Reds(tones, DirectionNames))
ActionShort(tones) == ActionFor(Greens(tones, ShortNames), Reds(tones, ShortNames))

Timing(tones) ==
  IF \A n \in TimingNames : tones[n] = "green" THEN "favorable"
  ELSE IF \A n \in TimingNames : tones[n] = "red" THEN "unfavorable" ELSE "mixed"
BuySide == {"strong_buy", "buy", "hold"}

PostureFor(g, r) == IF g >= 5 THEN "offensive" ELSE IF r >= 4 THEN "defensive" ELSE "normal"
Posture(tones) == PostureFor(Greens(tones, RegimeNames), Reds(tones, RegimeNames))
(* Two reds are looked for before four greens.                             *)
PostureShortFor(g, r) == IF r >= 2 THEN "defensive" ELSE IF g >= 4 THEN "offensive" ELSE "normal"
PostureShort(tones) == PostureShortFor(Greens(tones, RegimeShortNames), Reds(tones, RegimeShortNames))

(* What is read off a verdict: how much of the market it says to hold.     *)
ActionRank(a) ==
  CASE a = "strong_buy" -> 5 [] a = "buy" -> 4 [] a = "hold" -> 3
    [] a = "watch" -> 2 [] a = "reduce" -> 1 [] a = "exit" -> 0
PostureRank(p) == CASE p = "offensive" -> 2 [] p = "normal" -> 1 [] p = "defensive" -> 0

(* A vote that turned for the worse; losing one's data is neither.         *)
Worse(old, new) == \/ old = "green" /\ new \in {"yellow", "red"}
                   \/ old = "yellow" /\ new = "red"

(* The side a row is listed on, and the group it is listed under.          *)
Side(tone) == IF tone = "green" THEN "pro" ELSE IF tone = "red" THEN "con" ELSE "neutral"
TimingGroup == {"macd", "bollinger", "adx", "atr", "ttm_squeeze"}
MacroGroup == {"dxy", "fed_rate", "spx_ma", "ad_day", "vix", "yield_spread", "spx_adx",
               "vix_term", "rsp_spy", "hyg_ief", "skew", "unrate"}
Listed(names) == names \cap (DirectionNames \cup TimingGroup \cup MacroGroup)
=============================================================================
