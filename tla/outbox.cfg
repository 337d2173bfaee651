SPECIFICATION LiveSpec
CONSTANTS
    Keys = {k1, k2}
    Contents = {c1}
    Workers = {w1, w2}
    NoKey = NoKey
    NoContent = NoContent
    MaxId = 2
    MaxRows = 2
    MaxTime = 2
    MaxAttempts = 5
    MaxFailures = 1
    LeaseDuration = 1
    ClaimLimit = 1
    MaxStaleness = 1
INVARIANTS RowsDecodable AttemptExclusive FirstUseSentWasDelivered
PROPERTIES LeaseRespected EventuallySent
CHECK_DEADLOCK FALSE
