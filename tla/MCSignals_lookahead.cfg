\* A monthly value that comes out after the day it is dated.
SPECIFICATION Spec
CONSTANTS
  FastMA = 2
  SlowMA = 3
  CrossBack = 2
  MacdBack = 2
  FireBack = 2
  Win = 2
  Slope = 1
  Trend = 1
  Streak = 2
  AdWin = 3
  RateDays = 2
  Months = 3
  SeriesDays = 3
  MinBars <- FewestBars
  WarmUp <- PageWarmUp
  Left <- FirstValues
  Right <- SecondValues
  Subjects = {"unrate"}
  Windows = {3, 4}
  Watched = {5}
  MaxDay = 6
  MaxLate = 1
  Missing = Missing
  VerdictDays = 2
  Outcomes <- VoterTones
  Torn = {"rsi", "vix"}
  Parts = {"rows"}
PROPERTIES NoLookAhead
CHECK_DEADLOCK FALSE
