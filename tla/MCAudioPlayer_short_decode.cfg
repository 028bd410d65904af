\* A music player whose decoder delivers fewer frames than getFrameCount() announced, played from the announced end.
CONSTANTS
    FrameCount = 2
    DecodedCounts = {1, 2}
    DecodeCanFail = FALSE
    Music = TRUE
    Starts = {0, 2}
    LoopRanges <- MCLoopRanges
    Calls = {"play", "stop"}
    MaxEngineRestarts = 0
    NULL = NULL
    NONE = NONE
SPECIFICATION Spec
INVARIANT SubmittedRangeInBounds
