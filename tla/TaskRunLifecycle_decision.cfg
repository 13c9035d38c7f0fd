SPECIFICATION Spec
CONSTANTS
    b1 = b1
    b2 = b2
    Backgrounds = {b1, b2}
    Nobody = Nobody
    Dead = Dead
    CanRerun = FALSE
    MayCrash = FALSE
INVARIANTS
    DecisionResumes
CHECK_DEADLOCK FALSE
