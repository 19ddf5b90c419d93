\* A message fits on the wire, or does not.  At the end all calls are made.
SPECIFICATION FairSpec
CONSTANTS
    Flights = 4
    Parts = 3
    WireSizes = {2, 3}
    MaxCalls = 3
INVARIANTS
    TypeOK
    Attended
PROPERTIES
    AnswerBelongsToCall
    FailuresExplained
    CallReturns
    ServerFollows
CHECK_DEADLOCK FALSE
