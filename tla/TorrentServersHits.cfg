CONSTANTS
    MaxAccepts = 3
    MaxReceives = 3
SPECIFICATION FairSpec
INVARIANT
    HitsAreConnections
CHECK_DEADLOCK FALSE
