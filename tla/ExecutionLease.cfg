SPECIFICATION FairSpec
CONSTANTS
    e1 = e1
    e2 = e2
    e3 = e3
    NoOwner = NoOwner
    Executors = {e1, e2, e3}
    TTL = 3
    HeartbeatEvery = 1
    MaxDelay = 3
INVARIANTS
    ExecutorOwnsRecord
    SingleExecutor
PROPERTIES
    ExclusiveSpec
    NoEarlyTakeover
    CrashedOwnerIsReplaced
    LossEndsExecution
