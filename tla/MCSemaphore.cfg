CONSTANTS
    t1 = t1
    t2 = t2
    t3 = t3
    s1 = s1
    s2 = s2
    g1 = g1
    g2 = g2
    g3 = g3
    g4 = g4
    Null = Null
    Threads <- ThreeThreads
    Sems <- TwoSems
    Grants <- FourGrants
    Owner <- OwnerOfFour
    Capacity <- TwoAndOne
SPECIFICATION FairSpec
INVARIANTS
    Conserved
    NoLostWakeUp
PROPERTIES
    ImplementsPool
    SleepersServed
