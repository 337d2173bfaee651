SPECIFICATION LiveSpec
CONSTANTS
    Clients = {c1, c2}
    Modes = {"split", "realtime"}
    Codecs = {"PCMU", "other"}
    MaxFaults = 2
INVARIANTS OneBridge OneBye
PROPERTIES SessionReleased LossEndsCall EndIsHonoured
CHECK_DEADLOCK FALSE
