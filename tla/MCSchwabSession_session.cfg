\* The job and a probe, two connections, a disconnect and every failure once.
SPECIFICATION Spec
CONSTANTS
    Callers = {job, probe1}
    Job = job
    MaxTokens = 3
    MaxDisconnects = 1
    MaxConnects = 2
    MaxLosses = 1
    MaxFaults = 1
    MaxCrashes = 1
    Nobody = Nobody
    InvalidGrant = InvalidGrant
    OtherError = OtherError
INVARIANTS OneRefreshUntilDisconnect RowsStayComplete CredentialKept
\* Every bound spent, the model stops.
CHECK_DEADLOCK FALSE
