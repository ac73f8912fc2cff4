SPECIFICATION FairSpec
CONSTANTS
    a1 = a1
    a2 = a2
    a3 = a3
    a4 = a4
    a5 = a5
    Attempts <- FiveSlots
    Modules <- TwoModules
    Skeleton = Skeleton
    NoAttempt = NoAttempt
    NoJob = NoJob
    MaxRequests = 2
    Forms <- OneOrAll
INVARIANTS OneLivePerUnit LastUnlessEarly OutcomesStand
PROPERTIES ChainContinues
CHECK_DEADLOCK FALSE
