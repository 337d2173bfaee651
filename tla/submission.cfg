SPECIFICATION LiveSpec
CONSTANTS
    Quotes = {q1}
    Calls = {a, b}
    Starts = {5}
    SlotLength = 1
    MeetingBuffer = 0
    MinimumNotice = 2
    QuoteLifetime = 2
    OwnerStarts = {5}
    Answers = {"deleted"}
    Outcomes = {"declined"}
    Second = 2
    MaxTime = 1
    MaxFaults = 1
    MaxDisturbances = 2
CONSTRAINT FewDisturbances
INVARIANTS TypeOK SubmittedIsRecorded ConsumedWhileValid NoBookingOverKnownEvent
PROPERTIES ImplementsEffect RecordedUnlessDisturbed
CHECK_DEADLOCK FALSE
