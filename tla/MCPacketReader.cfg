\* An empty line of two bytes, so that it may be cut; limits at, below and above
\* the sizes of the requests.  A closed connection does nothing more.
SPECIFICATION Spec
CONSTANTS
    Requests <- SmallRequests
    Separator = 2
    MaxSizes = {0, 1, 5, 7, 8, 9}
    Lower <- LowerCase
    XNames = {"X-A", "x-a", "x-b"}
    XmlTypes = {"text/xml"}
    Continues = {"100-continue"}
    MaxUnsigned = 9
INVARIANTS
    TypeOK
    CachesSound
    VerdictIndependentOfPieces
    HeadersUnderstood
CHECK_DEADLOCK FALSE
