\* The job and a probe, with fairness; replies lost until the retries run out.
SPECIFICATION FairSpec
CONSTANTS
    Callers = {job, probe1}
    Job = job
    MaxTokens = 2
    MaxDisconnects = 1
    MaxConnects = 1
    MaxLosses = 3
    MaxFaults = 0
    MaxCrashes = 0
    Nobody = Nobody
    InvalidGrant = InvalidGrant
    OtherError = OtherError
INVARIANTS TypeOK
PROPERTIES CallsReturn DeadCredentialDropped
\* Every bound spent, the model stops.
CHECK_DEADLOCK FALSE
