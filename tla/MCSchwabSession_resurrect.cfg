\* A disconnect while a refresh is in flight.
SPECIFICATION Spec
CONSTANTS
    Callers = {job}
    Job = job
    MaxTokens = 2
    MaxDisconnects = 1
    MaxConnects = 1
    MaxLosses = 0
    MaxFaults = 0
    MaxCrashes = 0
    Nobody = Nobody
    InvalidGrant = InvalidGrant
    OtherError = OtherError
PROPERTIES OnlyCallbackCreatesRow
\* Every bound spent, the model stops.
CHECK_DEADLOCK FALSE
