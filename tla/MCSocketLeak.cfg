SPECIFICATION Spec
CONSTANTS
    Timeouts = {"none", "some"}
    MayKeepAlive = TRUE
    MaxCalls = 2
    RequestParts = 2
    ResponseParts = 3
    BufferParts = 2
    PipeParts = 3
INVARIANT EverySocketCloses
CHECK_DEADLOCK FALSE
