CONSTANTS
    Jobs <- FourJobs
    Workers = 1
    Size = 1
    MaxRemembered <- ExactMemory
SPECIFICATION FairSpec
INVARIANTS
    Bounded
    WaitingIsRemembered
    ToldTruth
PROPERTIES
    EveryoneIsServed
CHECK_DEADLOCK FALSE
