SPECIFICATION LiveSpec
CONSTANTS
    Keys = {k1, k2}
    OpKeys = {o1, o2}
    Calls = {a, b}
    Starts = {3}
    TaskLength = 2
    OwnerBooks <- Others
    ValidFor = 1
    NoOp = NoOp
    MaxTime = 1
    MaxFaults = 1
    FirstKey = k1
    LastOp = o2
CONSTRAINT OneNaming
INVARIANTS TypeOK NoTaskOverKnownEvent SubmittedIsComplete
PROPERTIES ImplementsEffect CreatedIsRecorded
CHECK_DEADLOCK FALSE
