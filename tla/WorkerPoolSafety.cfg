SPECIFICATION Spec
CONSTANTS
    o1 = o1  o2 = o2  b1 = b1  b2 = b2  b3 = b3  B = B  D = D
    Jobs = {o1, b1, b2}
    Threads = {t1, t2}
    Clients = {c1}
    Batch <- MCBatch
    Scope <- MCScope
    Module <- MCModule
    NoBatch = NoBatch
    NoModule = NoModule
    NoJob = NoJob
    Sentinel = Sentinel
    StopModes = {}
    MaxCrashes = 1
CHECK_DEADLOCK FALSE
SYMMETRY PoolSymmetry
INVARIANTS OneBatchAtATime NothingLost RecordTellsTruth HookOnce
PROPERTY ImplementsRecords
