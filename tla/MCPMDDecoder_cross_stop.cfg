\* Two decoders, each opened once; one is destroyed while the other holds the engine.
CONSTANTS
    Decoders = {d1, d2}
    SongFrames = 2
    FramesPerMs = 1
    ReadSizes = {1, 2}
    SeekTargets = {0}
    LoadCanFail = FALSE
    Calls = {"open", "read", "destroy"}
    NONE = NONE
    d1 = d1
    d2 = d2
SPECIFICATION Spec
SYMMETRY DecoderSymmetry
PROPERTY IndependentStreams
CHECK_DEADLOCK FALSE
