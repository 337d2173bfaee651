SPECIFICATION LiveSpec
CONSTANTS
    Quotes = {q1}
    Calls = {a}
    Starts = {5}
    SlotLength = 1
    MeetingBuffer = 0
    MinimumNotice = 2
    QuoteLifetime = 2
    OwnerStarts = {}
    Answers = {}
    Outcomes = {}
    Second = 2
    MaxTime = 0
    MaxFaults = 1
PROPERTIES EventIsRecorded
CHECK_DEADLOCK FALSE
