\* Two decoders, each opened once, whose users read and seek in any interleaving; every song loads.
CONSTANTS
    Decoders = {d1, d2}
    SongFrames = 3
    FramesPerMs = 1
    ReadSizes = {1, 2}
    SeekTargets = {0, 1, 4}
    LoadCanFail = FALSE
    Calls = {"open", "read", "seek"}
    NONE = NONE
    d1 = d1
    d2 = d2
SPECIFICATION Spec
SYMMETRY DecoderSymmetry
INVARIANT TypeOK
PROPERTY IndependentStreams
