\* What the library writes of values two levels deep, and well-formed or
\* truncated documents near to four of them.  A parse ends.
SPECIFICATION Spec
CONSTANTS
    Docs <- AllDocs
    Legal <- LegalTexts
    Levels <- LevelsOf
    Blank <- BlankTexts
    DefaultInt = "absent"
    DefaultInt64 = "1"
    OmitStringTag = TRUE
INVARIANTS
    TypeOK
    RoundTrip
    NoNullTaken
    AcceptedReadToItsEnd
PROPERTY
    ParseEnds
CHECK_DEADLOCK FALSE
