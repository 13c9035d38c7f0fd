SPECIFICATION Spec
CONSTANTS
    w1 = w1
    w2 = w2
    r1 = r1
    Writers = {w1, w2}
    Readers = {r1}
    NodeCount = 1
    PageSize = 1
    MaxLines = 4
    MaxTears = 1
INVARIANTS
    RestoredIsTold
PROPERTIES
    FeedSpec
    DeliveredAtLast
CHECK_DEADLOCK FALSE
