SPECIFICATION Spec
CONSTANTS
    Call = {c1, c2, c3}
    Key = {k1}
    Fingerprint = {f1}
    None = None
    LeaseTTL = 1
    RecordTTL = 1
    DefaultLeaseTTL = 1
    DefaultRecordTTL = 1
    MaxTime = 2
    MaxSweeps = 1
SYMMETRY Symmetry
INVARIANTS LeaseExclusive
CHECK_DEADLOCK FALSE
