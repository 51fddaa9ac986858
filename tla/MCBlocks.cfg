CONSTANTS
    Header = {"Location", "SetCookie", "XTrace"}
    StoreHeaders = {"Location", "SetCookie"}
    AlwaysExcluded = {"SetCookie"}
    MaxResponseBody = 2
    Statuses = {103, 201, 204, 503}
    MaxCalls = 7
    GinStatuses = {103, 201, 204, 503}
    Presets = {200, 404}
    MaxGinCalls = 5
    MaxKey = 3
    MaxValue = 6
    MaxPart = 2
    Base = 3
    MaxVarintLen = 3
    maxHeaderNames = 2
    maxHeaderValues = 2
SPECIFICATION BlocksSpec
INVARIANTS
    CaptureFaithful StatusJudged IInv
    GinFaithful
    KeyGrammatical ScopesApart FingerprintTells
    RoundTrip CorruptRefused
CHECK_DEADLOCK FALSE
