\* A sound effect: play() again while XAudio2 is inside OnStreamEnd of the previous buffer.
CONSTANTS
    FrameCount = 2
    DecodedCounts = {2}
    DecodeCanFail = FALSE
    Music = FALSE
    Starts = {0}
    LoopRanges <- MCLoopRanges
    Calls = {"play", "stop"}
    MaxEngineRestarts = 0
    NULL = NULL
    NONE = NONE
SPECIFICATION Spec
INVARIANT SilentUnlessPlaying
