SPECIFICATION UpdateSpec
CONSTANTS
    Calls = {c1, c2}
    Statuses = {"scanning", "failed", "completed"}
    NoRow = NoRow
    NoExpectation = NoExpectation
    MaxRetries = 1
    MaxDirect = 2
    MaxRejections = 1
    MayDelete = TRUE
INVARIANT NeverStarved
PROPERTIES BuildsOnWhatItRead ImplementsAtomicUpdate
CHECK_DEADLOCK FALSE
