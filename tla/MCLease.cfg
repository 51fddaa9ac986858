SPECIFICATION Spec
CONSTANTS
    Call = {c1, c2, c3}
    Key = {k1}
    Fingerprint = {f1}
    None = None
    LeaseTTL = 1
    RecordTTL = 0
    DefaultLeaseTTL = 2
    DefaultRecordTTL = 2
    MaxTime = 3
    MaxLate = 1
SYMMETRY Symmetry
INVARIANTS LeaseExclusive ReplayFaithful IInv
PROPERTIES CompletedStable RejectionJustified Implements
CHECK_DEADLOCK FALSE
