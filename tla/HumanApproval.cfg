SPECIFICATION FairSpec
CONSTANTS
    c1 = c1
    c2 = c2
    approve = approve
    reject = reject
    Callers = {c1, c2}
    Decisions = {approve, reject}
    Absent = Absent
    NoDecision = NoDecision
    EarlyWake = FALSE
    SlowRecovery = FALSE
INVARIANTS
    OneWinner
    AnswersHold
    ExpiryNotEarly
PROPERTIES
    OutcomeSpec
    EveryWaitEnds
