SPECIFICATION LiveSpec
CONSTANTS
    Clients = {c1, c2}
    Modes = {"realtime"}
    Codecs = {"PCMU", "other"}
    MaxFaults = 1

PROPERTIES LostSessionEndsCall
CHECK_DEADLOCK FALSE
