SPECIFICATION JournalSpec
CONSTANTS
    c1 = c1
    c2 = c2
    c3 = c3
    a1 = a1
    a2 = a2
    ok = ok
    other = other
    failure = failure
    ToolCallers = {c1, c2, c3}
    Actions = {a1, a2}
    Outputs = {ok, other}
    Errors = {failure}
    Unrecorded = Unrecorded
    Prepared = Prepared
INVARIANTS
    AtMostOneCall
    OutcomesAreTrue
    CommitMeetsNoConflict
PROPERTIES
    ActionSpec
