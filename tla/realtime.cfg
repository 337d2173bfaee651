SPECIFICATION Spec
CONSTANTS
    FrameUnits = 2
    MaxQueued = 2
    MaxDelta = 2
    MaxUnits = 3
    MaxResponses = 2
    MaxSpeech = 2
    MaxSpeak = 1
    InFlight = 2
INVARIANTS TruncateWithinPlayed HeardIsExact SpeechWouldCancel
PROPERTY TailIsPlayed
CHECK_DEADLOCK FALSE
