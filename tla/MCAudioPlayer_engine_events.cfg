\* A music player under every IAudioPlayer call and its destructor, a decode that may fail or
\* come up one frame short, and one audio engine destroy/create cycle.
CONSTANTS
    FrameCount = 2
    DecodedCounts = {1, 2}
    DecodeCanFail = TRUE
    Music = TRUE
    Starts = {0, 1, 2}
    LoopRanges <- MCLoopRanges
    Calls = {"play", "pause", "resume", "stop", "setLoop", "destroy"}
    MaxEngineRestarts = 1
    NULL = NULL
    NONE = NONE
SPECIFICATION Spec
INVARIANT PcmNotSharedWhileDecoding
INVARIANT FailedPlayerStaysStopped
PROPERTY NothingRunsAfterDestroy
PROPERTY DestructorReturns
\* A destroyed player takes no more steps.
CHECK_DEADLOCK FALSE
