\* Messages with nil among their parameters, elements or members.
SPECIFICATION Spec
CONSTANTS
    Docs <- NilDocs
    Legal <- LegalTexts
    Levels <- NilLevels
    Blank <- BlankTexts
    DefaultInt = "absent"
    DefaultInt64 = "absent"
    OmitStringTag = FALSE
INVARIANT AcceptedIsWhatWasSent
CHECK_DEADLOCK FALSE
