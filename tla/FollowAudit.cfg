SPECIFICATION Spec
CONSTANTS
    Cap = 1
    MaxItems = 3
    CloseAfter = 1
    Err = Err
    Lines <- AuditLines
    Kept <- KeptMessages
    HostNotes <- NoNotes
    SourceNotes <- AuditTotals
    RunNotes <- NoNotes
    HasReport = TRUE
INVARIANTS Prompt Answered
PROPERTIES SigintEnds EofEnds LinesFlow SequentialLive
