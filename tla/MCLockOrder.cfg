CONSTANTS
    t1 = t1
    t2 = t2
    l1 = l1
    l2 = l2
    l3 = l3
    NoThread = NoThread
    NoLock = NoLock
    Threads <- TwoThreads
    Locks <- ThreeLocks
    MaxDepth = 4
SPECIFICATION Spec
SYMMETRY LockSymm
INVARIANTS
    PairsSound
    StackIsHeld
    WaitsRecorded
    InversionDetected
\* the program stops at assert(false)
CHECK_DEADLOCK FALSE
