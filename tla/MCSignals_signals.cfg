\* Every indicator over five days, and the verdicts over two.
SPECIFICATION Spec
CONSTANTS
  FastMA = 2
  SlowMA = 3
  CrossBack = 2
  MacdBack = 2
  FireBack = 2
  Win = 2
  Slope = 1
  Trend = 1
  Streak = 2
  AdWin = 3
  RateDays = 2
  Months = 3
  SeriesDays = 3
  MinBars <- FewestBars
  WarmUp <- PageWarmUp
  Left <- FirstValues
  Right <- SecondValues
  Subjects = {"price_vs_ma", "rsi", "volume_anomaly", "relative_strength", "macd", "bollinger", "adx", "atr",
              "ttm_squeeze", "cho", "dxy", "fed_rate", "ad_day", "spx_ma", "spx_adx", "vix", "yield_spread", "vix_term", "hyg_ief",
              "skew", "unrate"}
  Windows = {3, 4}
  Watched = {4}
  MaxDay = 5
  MaxLate = 1
  Missing = Missing
  VerdictDays = 2
  Outcomes <- VoterTones
  Torn = {"rsi", "vix"}
  Parts = {"rows", "verdicts"}
INVARIANTS TypeOK ChartAgrees PageAddsUp NeverOpposed
PROPERTIES Reproduces WorseNeverBetter
CHECK_DEADLOCK FALSE
