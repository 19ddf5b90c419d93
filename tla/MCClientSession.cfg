SPECIFICATION FairSpec
CONSTANTS
    Timeouts = {"none", "zero", "some"}
    MayKeepAlive = TRUE
    MaxCalls = 4
    RequestParts = 2
    ResponseParts = 3
    BufferParts = 2
    PipeParts = 3
INVARIANTS TypeOK OnlyRefusedSocketsLeak WaitsForItsOwn
PROPERTIES AnswerBelongsToCall CallReturns
