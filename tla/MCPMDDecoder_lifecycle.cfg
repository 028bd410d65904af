\* One decoder opened, opened again, read, seeked and destroyed; music_load may fail.
CONSTANTS
    Decoders = {d1}
    SongFrames = 4
    FramesPerMs = 1
    ReadSizes = {1, 2}
    SeekTargets = {0, 1, 3, 5}
    LoadCanFail = TRUE
    Calls = {"open", "reopen", "read", "seek", "destroy"}
    NONE = NONE
    d1 = d1
    d2 = d2
SPECIFICATION Spec
PROPERTY IndependentStreams
\* Once the decoder is destroyed nothing more is called.
CHECK_DEADLOCK FALSE
