SPECIFICATION Spec
CONSTANTS
    report = report
    review = review
    design = design
    check = check
    assess = assess
    v1 = v1
    v2 = v2
    e1 = e1
    Nodes <- MCNodes
    Order <- MCOrder
    Deps <- MCDeps
    Kind <- MCGovernanceKind
    Policy <- MCPolicy
    Professional = {}
    Blocking = {design, assess}
    Generating = {design, assess}
    Versions = {v1, v2}
    Executors = {e1}
    Overlap = FALSE
    ReuseSettings = {TRUE}
    Interrupts = {"cancel", "deadline", "exception", "suspension"}
    MaxStarts = 2
INVARIANTS
    BlockingFailureBlocks
CHECK_DEADLOCK FALSE
