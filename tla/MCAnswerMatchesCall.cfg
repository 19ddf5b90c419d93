SPECIFICATION Spec
CONSTANTS
    Timeouts = {"none", "zero", "some"}
    MayKeepAlive = TRUE
    MaxCalls = 3
    RequestParts = 2
    ResponseParts = 3
    BufferParts = 4
    PipeParts = 3
INVARIANT AnswerMatchesCall
CHECK_DEADLOCK FALSE
