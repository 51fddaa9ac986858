SPECIFICATION FairSpec
CONSTANTS
    Call = {c1, c2, c3, c4}
    Key = {k1}
    Fingerprint = {f1}
    None = None
    LeaseTTL = 1
    RecordTTL = 1
    DefaultLeaseTTL = 1
    DefaultRecordTTL = 1
    MaxTime = 0
    MaxSweeps = 0
PROPERTIES ReserveReturns
CHECK_DEADLOCK FALSE
