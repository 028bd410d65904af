\* A music player: pause() before decodeAll finishes, resume() after.
CONSTANTS
    FrameCount = 2
    DecodedCounts = {2}
    DecodeCanFail = FALSE
    Music = TRUE
    Starts = {0}
    LoopRanges <- MCLoopRanges
    Calls = {"play", "pause", "resume", "stop"}
    MaxEngineRestarts = 0
    NULL = NULL
    NONE = NONE
SPECIFICATION Spec
PROPERTY PlaybackStarts
