SPECIFICATION Spec
CONSTANTS
    Call = {c1, c2}
    Key = {k1}
    Fingerprint = {f1, f2}
    None = None
    LeaseTTL = 1
    RecordTTL = 2
    DefaultLeaseTTL = 1
    DefaultRecordTTL = 1
    MaxTime = 3
    MaxLate = 1
    MaxRetries = 1
    Skews = {0, 2}
SYMMETRY Symmetry
INVARIANT LeaseLostNotReplayed
CHECK_DEADLOCK FALSE
