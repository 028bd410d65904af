\* A music player: stop() while decodeAll is between its m_state load and its locked start.
CONSTANTS
    FrameCount = 2
    DecodedCounts = {2}
    DecodeCanFail = FALSE
    Music = TRUE
    Starts = {0}
    LoopRanges <- MCLoopRanges
    Calls = {"play", "stop"}
    MaxEngineRestarts = 0
    NULL = NULL
    NONE = NONE
SPECIFICATION Spec
INVARIANT SilentUnlessPlaying
