CONSTANTS
    Header = {"Location"}
    StoreHeaders = {"Location"}
    AlwaysExcluded = {}
    MaxResponseBody = 1
    GinStatuses = {201}
    Presets = {200, 404}
    MaxGinCalls = 2
SPECIFICATION GinSpec
INVARIANTS GinMirrored
CHECK_DEADLOCK FALSE
