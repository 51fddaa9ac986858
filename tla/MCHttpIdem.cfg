CONSTANTS
    Call = {c1, c2}
    Key = {k1}
    Fingerprint = {f1}
    None = None
    LeaseTTL = 1
    RecordTTL = 1
    DefaultLeaseTTL = 1
    DefaultRecordTTL = 1
    MaxTime = 1
    MaxLate = 1
    Header = {"Location"}
    StoreHeaders = {"Location"}
    AlwaysExcluded = {}
    MaxResponseBody = 1
    Statuses = {204, 429}
    MaxWrites = 2
    HeaderBytes = 1
    MaxOverhead = 1
    Second = 2
    Require = TRUE
    BypassLargeBody = FALSE
    FailOpen = FALSE
    Errtrail = TRUE
    Errors = {"retryable", "permanent"}
SPECIFICATION HttpSpec
SYMMETRY Symmetric
INVARIANTS HttpInv ReplaySame ReplayAllowed Released
CHECK_DEADLOCK FALSE
