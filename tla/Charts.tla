------------------------------ MODULE Charts ------------------------------
(***************************************************************************)
(* The chart pages of api/v1/_indicator_series.py and _market_series.py:   *)
(* the "current" block and the headline each page derives, on its own and  *)
(* from the stored frames, about the same series the indicator has judged. *)
(* The list of points, rounding and wording are left out; what is kept is  *)
(* which of its fixed headlines a page picks.                              *)
(***************************************************************************)
EXTENDS Indicators

CONSTANTS SeriesDays,      \* the default window of a page (60)
          WarmUp           \* for each page, rows beyond the window it insists on


(* The page is refused below these many rows.  `days` is the window asked  *)
(* for; some pages take the smaller of it and the default.                 *)
FullWindow == {"volume_anomaly", "adx", "atr", "ttm_squeeze", "cho", "ad_day"}
DefaultWindow == {"price_vs_ma", "rsi", "macd", "bollinger", "relative_strength"}
PageRows(name, days) ==
  WarmUp[name] + (IF name \in FullWindow THEN days
                  ELSE IF name \in DefaultWindow THEN Min({days, SeriesDays}) ELSE 0)
Drawn(name, F, G, days) ==
  /\ Len(F) >= PageRows(name, days)
  /\ name \in Paired => Len(G) >= PageRows(name, days)
  /\ name \in {"relative_strength", "yield_spread"} =>
        Cardinality(Shared(F, G)) >= Min({days, SeriesDays})

InWindow(F, days) == {i \in DOMAIN F : i > Len(F) - days}

(* Length of the run of places with property P that ends at the last row,  *)
(* within the window.                                                      *)
RunOf(F, days, P(_)) ==
  Max({0} \cup {n \in 1..Len(F) : \A i \in (Len(F) - n + 1)..Len(F) : i \in InWindow(F, days) /\ P(i)})

MASays(F, days) ==
  [above |-> RunOf(F, days, LAMBDA i : i >= SlowMA /\ AboveMA(F, i, FastMA) > 0 /\ AboveMA(F, i, SlowMA) > 0),
   cross |-> LatestCross(MAGap(F), CrossBack)]

SpxMASays(F, days) == MASays(F, days)

RsiSays(F) ==
  [zone |-> IF Back(F, 0).day < 30 THEN "oversold" ELSE IF Back(F, 0).day < 50 THEN "neutral_weak"
            ELSE IF Back(F, 0).day <= 70 THEN "neutral_strong" ELSE "overbought"]

(* The newest cross in the window and its age in bars.                     *)
MacdSays(F, days) ==
  LET h == Histogram(F)
      at == {i \in RecentPlaces(h, days - 1) : CrossUp(h, i) \/ CrossDown(h, i)}
  IN  [cross |-> LatestCross(h, days - 1),
       age |-> IF at = {} THEN 0 ELSE Len(h) - Max(at),
       streak |-> IF Back(F, 0) = 0 THEN 1
                  ELSE RunOf(F, days, LAMBDA i : F[i].v * Back(F, 0) > 0),
       expanding |-> /\ Back(F, 0) # 0
                     /\ Len(F) = 1 \/ Magnitude(Back(F, 0)) > Magnitude(Back(F, 1))]

BollingerSays(F) ==
  LET p == Back(F, 0)
  IN  [zone |-> IF p < 0 THEN "under" ELSE IF p < 20 THEN "near_lower" ELSE IF p < 40 THEN "below_middle"
                ELSE IF p < 60 THEN "near_middle" ELSE IF p < 80 THEN "above_middle"
                ELSE IF p <= 100 THEN "near_upper" ELSE "over"]

VolumeSays(F) ==
  LET avg == SumOver(F, Len(F) - Win, Len(F) - 1, LAMBDA v : v.vol)
  IN  [spike |-> avg > 0 /\ Win * Back(F, 0).vol >= 2 * avg]

(* The lead over the window, half a percent apart, and the return          *)
(* difference over Win of the shared dates (in units of the product).      *)
Lead(A, B, n) == Back(A, 0) * Back(B, n) - Back(B, 0) * Back(A, n)
StrengthSays(F, G, days) ==
  LET A == OnDates(F, Shared(F, G))
      B == OnDates(G, Shared(F, G))
      n == IF Len(A) < days THEN Len(A) - 1 ELSE days - 1
      lead == 200 * Lead(A, B, n)
      unit == Back(A, n) * Back(B, n)
  IN  [head |-> IF lead > unit THEN "ahead" ELSE IF lead < -unit THEN "behind" ELSE "level",
       diff |-> IF Len(A) > Win THEN Lead(A, B, Win) ELSE 0]

AdxSays(F) ==
  [zone |-> IF Back(F, 0).adx < 20 THEN "choppy" ELSE IF Back(F, 0).adx < 25 THEN "ambiguous" ELSE "trending",
   direction |-> IF Back(F, 0).di >= 0 THEN "up" ELSE "down"]

SpxAdxSays(F) == AdxSays(F)

AtrSays(F) ==
  [band |-> IF Back(F, 0) < 15 THEN "calm" ELSE IF Back(F, 0) < 35 THEN "elevated" ELSE "high"]

TtmSays(F) ==
  [head |-> IF Back(F, 0).on THEN "squeezed" ELSE IF Back(F, 0).mom > 0 THEN "released_up"
            ELSE IF Back(F, 0).mom < 0 THEN "released_down" ELSE "neutral"]

ChoSays(F) ==
  LET now == Back(F, 0).cho
      before == Back(F, 1).cho
  IN  [head |-> IF Magnitude(now) < 1000 THEN "near_zero" ELSE IF now > 0 THEN "buyers" ELSE "sellers",
       arrow |-> IF now > before THEN "up" ELSE IF now < before THEN "down" ELSE "flat"]

---------------------------------------------------------------------------
VixSays(F) ==
  [zone |-> IF Back(F, 0) < 12 THEN "low" ELSE IF Back(F, 0) <= 20 THEN "normal"
            ELSE IF Back(F, 0) <= 30 THEN "elevated" ELSE "panic",
   trend |-> IF Len(F) > Trend THEN LevelTrend(F) ELSE "unknown"]

SkewSays(F) ==
  [zone |-> IF Back(F, 0) <= 130 THEN "normal" ELSE IF Back(F, 0) < 145 THEN "elevated" ELSE "high"]

UnrateSays(F) ==
  [zone |-> IF Sahm(F) >= 15 THEN "recession" ELSE IF Sahm(F) >= 9 THEN "warning" ELSE "healthy"]

AdLabel(net) == IF net > 1 THEN "accumulation" ELSE IF net < -1 THEN "distribution" ELSE "neutral"
AdSays(F) == [head |-> AdLabel(NetDays(F, AdWin))]

(* The run of rises or falls that ends at the last step, at least Streak.  *)
DxySays(F) ==
  LET steps == DollarSteps(F)
      run(sign) == Max({0} \cup {n \in 1..Len(steps) :
                         \A k \in (Len(steps) - n + 1)..Len(steps) : sign * steps[k] > 0})
  IN  [rising |-> run(1) >= Streak, falling |-> run(-1) >= Streak]

(* The rates of the window, carried forward to every calendar day.         *)
RateOn(F, d) == F[Max({i \in DOMAIN F : F[i].d <= d})].v
FedSays(F, days) ==
  LET end == FrameAsOf(F)
      known == {d \in (end - days + 1)..end : \E i \in DOMAIN F : F[i].d <= d}
      prior == IF Cardinality(known) <= RateDays THEN Min(known) ELSE end - RateDays
      moves == {d \in known : d - 1 \in known /\ RateOn(F, d) # RateOn(F, d - 1)}
  IN  [delta |-> RateOn(F, end) - RateOn(F, prior),
       last |-> IF moves = {} THEN "none"
                ELSE IF RateOn(F, Max(moves)) > RateOn(F, Max(moves) - 1) THEN "hike" ELSE "cut"]

YieldSays(F, G, days) ==
  LET A == OnDates(F, Shared(F, G))
      B == OnDates(G, Shared(F, G))
      inverted == {i \in InWindow(A, days) : A[i].v < B[i].v}
  IN  [head |-> IF Back(A, 0) < Back(B, 0) THEN "inverted"
                ELSE IF inverted = {} THEN "positive" ELSE "recovered",
       since |-> IF inverted = {} THEN 0 ELSE Len(A) - Max(inverted)]

VixTermSays(F, G) ==
  LET A == OnDates(F, Shared(F, G))
      B == OnDates(G, Shared(F, G))
  IN  [zone |-> IF 100 * Back(A, 0) < 95 * Back(B, 0) THEN "contango"
                ELSE IF Back(A, 0) < Back(B, 0) THEN "flat" ELSE "inverted"]

RatioSays(F, G) == [head |-> RatioSlope(F, G)]

---------------------------------------------------------------------------
(* What the stored tone and the page of the same day have to do with each  *)
(* other.  Rows whose two frames end on different dates are compared only  *)
(* where both sides join the frames.                                       *)
Aligned(F, G) == [i \in DOMAIN F |-> F[i].d] = [i \in DOMAIN G |-> G[i].d]

SameVerdict(name, tone, F, G, days) ==
  CASE name \in {"price_vs_ma", "spx_ma"} ->
         LET page == IF name = "spx_ma" THEN SpxMASays(F, days) ELSE MASays(F, days)
         IN  /\ (tone = "green") <=> page.above > 0
             /\ page.cross = "bullish" => MACrosses(F).golden
             /\ page.cross = "bearish" => MACrosses(F).death
    [] name = "rsi" -> /\ tone = "red" => RsiSays(F).zone = "overbought"
                       /\ tone = "green" => RsiSays(F).zone = "oversold"
    [] name = "macd" ->
         LET fresh == MacdSays(F, days).age < MacdBack
         IN  /\ (tone = "green") <=> (MacdSays(F, days).cross = "bullish" /\ fresh)
             /\ (tone = "red") <=> (MacdSays(F, days).cross = "bearish" /\ fresh)
    [] name = "bollinger" -> /\ (tone = "red") <=> (BollingerSays(F).zone = "over")
                             /\ (tone = "green") <=> (BollingerSays(F).zone = "under")
    [] name = "volume_anomaly" -> tone \in {"green", "red"} => VolumeSays(F).spike
    [] name = "relative_strength" ->
         Aligned(F, G) => /\ tone = "green" => StrengthSays(F, G, days).diff > 0
                          /\ tone = "red" => StrengthSays(F, G, days).diff < 0
    [] name \in {"adx", "spx_adx"} ->
         LET page == IF name = "spx_adx" THEN SpxAdxSays(F) ELSE AdxSays(F)
         IN  /\ tone = "green" => page.zone = "trending"
             /\ AdxDirection(F) = "up" => page.direction = "up"
    [] name = "atr" -> /\ (tone = "red") <=> (AtrSays(F).band = "high")
                       /\ (tone = "green") <=> (AtrSays(F).band = "calm")
    [] name = "ttm_squeeze" -> TRUE  \* the page speaks of today, the tone of the newest release
    [] name = "cho" -> /\ tone = "green" => ChoSays(F).arrow = "up" /\ ChoSays(F).head # "sellers"
                       /\ tone = "red" => ChoSays(F).arrow = "down" /\ ChoSays(F).head # "buyers"
    [] name = "dxy" -> /\ (tone = "red") <=> DxySays(F).rising
                       /\ (tone = "green") <=> DxySays(F).falling
    [] name = "fed_rate" -> days > RateDays =>
                               /\ (tone = "red") <=> FedSays(F, days).delta > 25
                               /\ (tone = "green") <=> FedSays(F, days).delta < -25
    [] name = "ad_day" -> /\ tone = "green" => AdSays(F).head = "accumulation"
                          /\ tone = "red" => AdSays(F).head = "distribution"
    [] name = "vix" -> /\ (tone = "green") <=> (VixSays(F).zone = "normal")
                       /\ (tone = "red") <=> (VixSays(F).zone = "panic")
    [] name = "skew" -> /\ (tone = "green") <=> (SkewSays(F).zone = "normal")
                        /\ (tone = "red") <=> (SkewSays(F).zone = "high")
    [] name = "unrate" -> /\ (tone = "green") <=> (UnrateSays(F).zone = "healthy")
                          /\ (tone = "red") <=> (UnrateSays(F).zone = "recession")
    [] name = "yield_spread" -> YieldSays(F, G, days).head = "inverted" => tone = "red"
    [] name = "vix_term" ->
         Aligned(F, G) => /\ (tone = "green") <=> (VixTermSays(F, G).zone = "contango")
                          /\ (tone = "red") <=> (VixTermSays(F, G).zone = "inverted")
    [] name \in {"rsp_spy", "hyg_ief"} -> /\ (tone = "green") <=> (RatioSays(F, G).head = "up")
                                          /\ (tone = "red") <=> (RatioSays(F, G).head = "down")
=============================================================================
