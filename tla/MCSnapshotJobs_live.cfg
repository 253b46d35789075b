\* Two jobs, a daily update and an unexpected exception, with fairness.
SPECIFICATION FairSpec
CONSTANTS
    Symbols = {AAPL}
    MaxJobs = 2
    MaxDay = 1
    FirstPriced <- AlwaysPriced
    WatchlistMax = 2
    MaxDailies = 1
    MaxRestarts = 0
    MaxFaults = 1
    NoOne = NoOne
    Daily = Daily
PROPERTIES JobsEnd LoopUnblocks
\* Every bound spent and every job ended, the model stops.
CHECK_DEADLOCK FALSE
