\* One decoder at two output frames per millisecond, seeked to a frame between two milliseconds.
CONSTANTS
    Decoders = {d1}
    SongFrames = 4
    FramesPerMs = 2
    ReadSizes = {1, 2}
    SeekTargets = {1}
    LoadCanFail = FALSE
    Calls = {"open", "read", "seek"}
    NONE = NONE
    d1 = d1
    d2 = d2
SPECIFICATION Spec
PROPERTY IndependentStreams
