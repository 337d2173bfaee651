SPECIFICATION Spec
CONSTANTS
    n1 = n1
    n2 = n2
    n3 = n3
    Nonces = {n1, n2, n3}
    Messages <- MCMessages
    Handlers = {h1, h2}
    NoMessage = NoMessage
    Skew = 1
    Retention = 4
    Capacity = 2
    MaxWait = 1
    MaxTime = 7
SYMMETRY HandlerSymmetry
INVARIANTS NoReplay NoncesAreEarned
CHECK_DEADLOCK FALSE
