SPECIFICATION LiveSpec
CONSTANTS
    Clients = {c1, c2}
    Modes = {"split"}
    Codecs = {"PCMU", "other"}
    MaxFaults = 0

PROPERTIES MediaIsBridged
CHECK_DEADLOCK FALSE
