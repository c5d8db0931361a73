CONSTANTS
    MaxAccepts = 3
    MaxReceives = 3
SPECIFICATION FairSpec
INVARIANT
    NothingUncounted
PROPERTY
    ImplementsServer
\* the program may terminate in StopDht
CHECK_DEADLOCK FALSE
