\* A sound effect playing across one audio engine destroy/create cycle.
CONSTANTS
    FrameCount = 2
    DecodedCounts = {2}
    DecodeCanFail = FALSE
    Music = FALSE
    Starts = {0}
    LoopRanges <- MCLoopRanges
    Calls = {"play", "stop"}
    MaxEngineRestarts = 1
    NULL = NULL
    NONE = NONE
SPECIFICATION Spec
PROPERTY PlaybackStarts
