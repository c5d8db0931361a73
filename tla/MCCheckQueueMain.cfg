CONSTANTS
    Main = Main
    w1 = w1
    w2 = w2
    w3 = w3
    c1 = c1
    c2 = c2
    c3 = c3
    c4 = c4
    NoOwner = NoOwner
    Workers <- ThreeWorkers
    Masters <- OnlyMain
    Checks <- FourChecks
    Fails = {}
    nBatchSize = 128
    MaxAdd = 1
    ReuseAfterWait = FALSE
SPECIFICATION MainSpec
INVARIANTS
    ChecksKept
    PoolCountsExact
    AllChecksRun
PROPERTY
    MainFinishes
\* main ends and the threads stop with it
CHECK_DEADLOCK FALSE
