CONSTANTS
    w1 = w1
    w2 = w2
    m1 = m1
    m2 = m2
    c1 = c1
    c2 = c2
    c3 = c3
    c4 = c4
    NoOwner = NoOwner
    Workers <- OneWorker
    Masters <- TwoMasters
    Checks <- FourChecks
    Fails <- OneFails
    nBatchSize = 2
    MaxAdd = 2
    ReuseAfterWait = FALSE
SPECIFICATION FairSpec
INVARIANTS
    TypeOK
    VerdictCorrect
    NoLostWakeUp
    FinishedOnRelease
    IInv
PROPERTIES
    ImplementsService
    WaitReturns
