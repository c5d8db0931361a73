CONSTANT MaxDatagrams = 4
SPECIFICATION FairSpec
INVARIANTS
    DeafOnlyIfRefused
    Answered
PROPERTIES
    StopReturns
