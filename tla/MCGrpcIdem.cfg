CONSTANTS
    Call = {c1, c2}
    Key = {k1}
    Fingerprint = {f1, f2}
    None = None
    LeaseTTL = 1
    RecordTTL = 1
    DefaultLeaseTTL = 1
    DefaultRecordTTL = 1
    MaxTime = 1
    MaxLate = 1
    Message = {m1, m2}
    Encodable = {m1, m2}
    Registered = {m1}
    Configs = {{"Require"}, {"FailOpen"}}
SPECIFICATION GrpcFairSpec
INVARIANTS GrpcInv ReplaySame ErrorLeavesNothing
PROPERTIES SuccessSealed CallEnds
CHECK_DEADLOCK FALSE
