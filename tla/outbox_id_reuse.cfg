SPECIFICATION Spec
CONSTANTS
    Keys = {k1, k2}
    Contents = {c1}
    Workers = {w1, w2}
    NoKey = NoKey
    NoContent = NoContent
    MaxId = 2
    MaxRows = 3
    MaxTime = 2
    MaxAttempts = 2
    MaxFailures = 1
    LeaseDuration = 1
    ClaimLimit = 1
    MaxStaleness = 1
SYMMETRY WorkerSymmetry
INVARIANTS SentWasDelivered
CHECK_DEADLOCK FALSE
