SPECIFICATION Spec
CONSTANTS
    Kinds = {"phone_book", "snapshot", "database"}
    Writers = {a, b, c}
    MaxFiles = 5
    MaxBook = 5
    MaxFaults = 2
SYMMETRY WriterSymmetry
INVARIANTS TypeOK PublishedIsWhole AcknowledgedSurvives QuietBookIsStored NothingLeftBehind
PROPERTY NothingOlder
CHECK_DEADLOCK FALSE
