CONSTANTS
    Lines = 3
    Blank = {2}
    QueueMax = 1
    offset = 0
    LogMax = 3
SPECIFICATION PipelineSpec
INVARIANTS
    Accounted
    InOrder
    NothingForeign
    Released
PROPERTIES
    Finishes
    Delivered
    StopTerminates
\* both programs end
CHECK_DEADLOCK FALSE
