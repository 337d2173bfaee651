SPECIFICATION LiveSpec
CONSTANTS
    Clients = {"turn", "prompt", "speak"}
    SilenceFrames = 1
    MinFrames = 1
    PreRollFrames = 1
    Post = 1
    IdleAfter = 1
    EndBuffer = 0
    MaxSegments = 2
    SpeakSegments = 1
    MaxSpeaks = 1
    MaxTime = 5
INVARIANTS TypeOK UtteranceIsContiguous EchoUnheard SaysItsOwn
PROPERTIES FarewellIsPlayed PromptsBreakSilence ThreadEnds
CHECK_DEADLOCK FALSE
