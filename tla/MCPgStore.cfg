SPECIFICATION Spec
CONSTANTS
    Call = {c1, c2, c3}
    Key = {k1}
    Fingerprint = {f1}
    None = None
    LeaseTTL = 1
    RecordTTL = 2
    DefaultLeaseTTL = 1
    DefaultRecordTTL = 1
    MaxTime = 2
    MaxSweeps = 1
SYMMETRY Symmetry
INVARIANTS IInv LockProtects UnsweptExclusive OneCommit
PROPERTIES CompletedStable ConflictNeverStored
CHECK_DEADLOCK FALSE
