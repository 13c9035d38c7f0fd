SPECIFICATION FairSpec
CONSTANTS
    b1 = b1
    b2 = b2
    Backgrounds = {b1, b2}
    Nobody = Nobody
    Dead = Dead
    CanRerun = TRUE
    MayCrash = TRUE
INVARIANTS
    WorkIsMarked
    StrandedOnlyIfExcused
    CompletedMeansApproved
PROPERTIES
    OneExecution
    QueuedIsServed
CHECK_DEADLOCK FALSE
