\* Two runs side by side around a weekend.
SPECIFICATION Spec
CONSTANTS
    Symbols = {spy, tick}
    SystemSymbols = {spy}
    MaxDay = 4
    Trading <- FridayOn
    Lookback = 2
    Runs = {r1, r2}
    MaxMisses = 1
    MaxFailures = 1
    MaxSleeps = 0
INVARIANTS TypeOK UnflaggedBarsAreFinal
PROPERTIES UpdatesCatchUp
SYMMETRY Alike
\* The calendar ends.
CHECK_DEADLOCK FALSE
