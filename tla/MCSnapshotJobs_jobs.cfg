\* Two jobs of one ticker beside a daily update and a restart, two days.
SPECIFICATION Spec
CONSTANTS
    Symbols = {AAPL}
    MaxJobs = 2
    MaxDay = 2
    FirstPriced <- AlwaysPriced
    WatchlistMax = 2
    MaxDailies = 1
    MaxRestarts = 1
    MaxFaults = 0
    NoOne = NoOne
    Daily = Daily
INVARIANTS TypeOK JobsMatchThreads OneSnapshotWriter RevalidationRunsAlone ProgressAddsUp
PROPERTIES CompletedOnboardingLeavesNoHole FinishedJobsStayFinished ImplementsJobBoard
\* Every bound spent and every job ended, the model stops.
CHECK_DEADLOCK FALSE
