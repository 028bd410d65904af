\* A music player: play() and stop() racing decodeAll, whose read may fail.
CONSTANTS
    FrameCount = 2
    DecodedCounts = {2}
    DecodeCanFail = TRUE
    Music = TRUE
    Starts = {0, 1}
    LoopRanges <- MCLoopRanges
    Calls = {"play", "stop", "setLoop"}
    MaxEngineRestarts = 0
    NULL = NULL
    NONE = NONE
SPECIFICATION Spec
PROPERTY PlaybackStarts
