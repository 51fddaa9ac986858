CONSTANTS
    Call = {c1, c2}
    Key = {k1}
    Fingerprint = {f1}
    None = None
    LeaseTTL = 1
    RecordTTL = 1
    DefaultLeaseTTL = 1
    DefaultRecordTTL = 1
    MaxTime = 1
    MaxLate = 1
    Header = {"Location"}
    StoreHeaders = {"Location"}
    AlwaysExcluded = {}
    MaxResponseBody = 1
    Statuses = {204}
    MaxWrites = 2
    HeaderBytes = 2
    MaxOverhead = 1
    Second = 2
    Require = TRUE
    BypassLargeBody = FALSE
    FailOpen = FALSE
    Errtrail = FALSE
    Errors = {}
SPECIFICATION HttpSpec
SYMMETRY Symmetric
INVARIANTS CaptureWithinLimits
CHECK_DEADLOCK FALSE
