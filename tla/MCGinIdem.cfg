CONSTANTS
    Call = {c1, c2}
    Key = {k1}
    Fingerprint = {f1, f2}
    None = None
    LeaseTTL = 3
    RecordTTL = 1
    DefaultLeaseTTL = 1
    DefaultRecordTTL = 1
    MaxTime = 1
    MaxLate = 1
    Header = {"Location"}
    StoreHeaders = {"Location"}
    AlwaysExcluded = {}
    MaxResponseBody = 1
    Statuses = {204}
    MaxWrites = 1
    HeaderBytes = 2
    MaxOverhead = 1
    Second = 2
    Require = FALSE
    BypassLargeBody = TRUE
    FailOpen = TRUE
    Errtrail = TRUE
    Errors = {"retryable"}
    GinCalls = {c2}
SPECIFICATION GinFairSpec
INVARIANTS ReplaySame RetryAfterCovers
PROPERTIES RequestEnds
CHECK_DEADLOCK FALSE
