SPECIFICATION Spec
CONSTANTS
    report = report
    review = review
    design = design
    check = check
    assess = assess
    v1 = v1
    v2 = v2
    e1 = e1
    Nodes <- MCNodes
    Order <- MCOrder
    Deps <- MCDeps
    Kind <- MCKind
    Policy <- MCPolicy
    Professional = {assess}
    Blocking = {design, assess}
    Generating = {design}
    Versions = {v1, v2}
    Executors = {e1}
    Overlap = FALSE
    ReuseSettings = {TRUE, FALSE}
    Interrupts = {"cancel", "deadline", "exception", "suspension"}
    MaxStarts = 4
INVARIANTS
    KeysTellTheTruth
    CommittedWorkIsKept
PROPERTIES
    DagSpec
    DeliversWhatItCommitted
    ReadyMeansJudged
CHECK_DEADLOCK FALSE
