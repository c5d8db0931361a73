CONSTANT MaxSignals = 3
SPECIFICATION FairSpec
INVARIANTS
    PromptStop
    FiveTries
PROPERTY
    StopTerminates
\* the process ends
CHECK_DEADLOCK FALSE
