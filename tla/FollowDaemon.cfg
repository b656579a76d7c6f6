SPECIFICATION Spec
CONSTANTS
    Cap = 1
    MaxItems = 3
    CloseAfter = 1
    Err = Err
    Lines <- DaemonLines
    Kept <- KeptMessages
    HostNotes <- OneNote
    SourceNotes <- NoNotes
    RunNotes <- Placement
    HasReport = FALSE
INVARIANTS TypeOK Conserved Backpressure Answered ExitStatus PromptStop
PROPERTIES Sequential
