SPECIFICATION Spec
CONSTANTS
    MaxRuns = 2
INVARIANTS
    ThreadStatusIsTrue
    TurnsHaveADriver
PROPERTIES
    SessionFollowsTheTurns
    TurnsSpec
    QueuedIsServed
CHECK_DEADLOCK FALSE
