SPECIFICATION FairSpec
CONSTANTS
    r1 = r1
    r2 = r2
    r3 = r3
    r4 = r4
    narrow = narrow
    wide = wide
    Runs = {r1, r2, r3, r4}
    Providers = {narrow, wide}
    Provider <- MCProvider
    MaxGlobal = 2
    Limit <- MCLimit
INVARIANTS
    UnitsAreOwned
    NoLostWakeup
    QueueIsExact
PROPERTIES
    FirstComeFirstServed
    WaitingEnds
