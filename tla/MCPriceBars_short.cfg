\* A ticker added while a daily update is about to look at the watchlist.
SPECIFICATION Spec
CONSTANTS
    Symbols = {spy, tick}
    SystemSymbols = {spy}
    MaxDay = 4
    Trading <- FridayOn
    Lookback = 2
    Runs = {r1, r2}
    MaxMisses = 0
    MaxFailures = 0
    MaxSleeps = 0
INVARIANTS ReadyTickersHaveHistory
SYMMETRY Alike
\* The calendar ends.
CHECK_DEADLOCK FALSE
