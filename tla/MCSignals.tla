----------------------------- MODULE MCSignals -----------------------------
(* A behaviour is either one indicator's history or one verdict's: the two *)
(* share a run, not a state.  The lengths of windows are scaled down with  *)
(* the rows each indicator and page asks for; thresholds are the code's,   *)
(* and the values lie on both sides of each.                               *)
EXTENDS Verdicts, IndicatorRows

CONSTANT Parts
VARIABLE part

Prices == {"price_vs_ma", "spx_ma"}
Ratios == {"rsp_spy", "hyg_ief"}
Names == Prices \cup Ratios \cup
  {"rsi", "volume_anomaly", "relative_strength", "macd", "bollinger", "adx", "atr", "ttm_squeeze", "cho",
   "dxy", "fed_rate", "ad_day", "vix", "yield_spread", "spx_adx", "vix_term", "skew", "unrate"}

FewestBars == [n \in Names |->
  CASE n \in Prices \cup {"macd"} -> SlowMA
    [] n \in {"volume_anomaly", "ttm_squeeze"} -> Win + 2
    [] n = "dxy" -> Win + Streak + 1
    [] n = "ad_day" -> AdWin + 1
    [] n = "unrate" -> Months + 1
    [] n \in {"yield_spread", "fed_rate"} -> 1
    [] n \in {"rsi", "vix_term", "vix", "skew"} -> 2
    [] OTHER -> Win + 1]
PageWarmUp == [n \in Names |->
  CASE n \in {"volume_anomaly", "cho"} -> Win - 1
    [] n \in {"adx", "atr", "ad_day", "ttm_squeeze", "relative_strength"} -> 1
    [] n \in {"spx_ma", "dxy", "unrate", "skew", "fed_rate"} -> FewestBars[n]
    [] n \in {"price_vs_ma", "rsi", "macd", "bollinger"} -> 0
    [] OTHER -> SeriesDays]

FirstValues == [n \in Names |->
  CASE n \in Prices \cup {"dxy"} -> 1..3
    [] n \in Ratios -> {1998, 2000, 2002}
    [] n = "rsi" -> {[day |-> 29, week |-> 29], [day |-> 29, week |-> 30],
                     [day |-> 70, week |-> 71], [day |-> 71, week |-> 71], [day |-> 71, week |-> -1]}
    [] n = "macd" -> -1..2
    [] n = "bollinger" -> {-1, 0, 100, 101}
    [] n \in {"adx", "spx_adx"} -> {[adx |-> 19, di |-> 1], [adx |-> 24, di |-> -1], [adx |-> 25, di |-> 0],
                                    [adx |-> 27, di |-> 1]}
    [] n = "atr" -> {14, 15, 34, 35}
    [] n = "ttm_squeeze" -> [on : BOOLEAN, mom : {-1, 1}]
    [] n = "cho" -> [cho : {-2000, 0, 60, 2000}, vol : {1000}] \cup {[cho |-> 2000, vol |-> 50000]}
    [] n = "volume_anomaly" -> [c : 1..2, vol : {1, 2}]
    [] n = "ad_day" -> {[move |-> 1, vol |-> 1]} \cup [move : {-1, 1}, vol : 2..4]
    [] n = "relative_strength" -> {100, 103}
    [] n = "fed_rate" -> {400, 425, 426, 451}
    [] n = "vix" -> {11, 20, 30, 31}
    [] n = "skew" -> {130, 131, 144, 145}
    [] n = "unrate" -> {40, 43, 45, 48}
    [] n = "yield_spread" -> {10, 12, 13}
    [] n = "vix_term" -> {18, 19, 20}]
SecondValues == [n \in Names |->
  CASE n \in Ratios -> {1000} [] n = "relative_strength" -> {100} [] n = "yield_spread" -> {10}
    [] n = "vix_term" -> {20} [] OTHER -> {}]

(* One voter both horizons share also loses its data; some are never       *)
(* undecided.                                                              *)
VoterTones == [n \in Names |->
  IF n \in {"rsi", "vix"} THEN {"green", "yellow", "red", "neutral"}
  ELSE IF n \in {"macd", "bollinger", "unrate", "yield_spread", "hyg_ief"} THEN {"green", "red"} ELSE {"green", "yellow", "red"}]

vars == <<part, rowVars, verdictVars>>

(* A behaviour of one part leaves the other as it starts.                  *)
Init ==
  /\ part \in Parts
  /\ RowsInit /\ VerdictInit
  /\ part = "rows" => side = "ticker"
  /\ part = "verdicts" => name = CHOOSE n \in Subjects : TRUE
Next ==
  /\ \/ part = "rows" /\ RowsNext /\ UNCHANGED verdictVars
     \/ part = "verdicts" /\ VerdictNext /\ UNCHANGED rowVars
  /\ UNCHANGED part
Spec == Init /\ [][Next]_vars

(* Both keep their types.                                                  *)
TypeOK == RowsTypeOK /\ VerdictTypeOK
=============================================================================
