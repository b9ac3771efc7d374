CONSTANTS
    AnswerLimit = 2
    PipeSize = 1
    MostWritten = 4
SPECIFICATION FairRelaySpec
PROPERTIES
    DeadlineBoundsTheWait
CHECK_DEADLOCK FALSE
