\* Two decoders, each opened once; a song file may be missing from disk when music_load reads it.
CONSTANTS
    Decoders = {d1, d2}
    SongFrames = 2
    FramesPerMs = 1
    ReadSizes = {1, 2}
    SeekTargets = {0}
    LoadCanFail = TRUE
    Calls = {"open", "read"}
    NONE = NONE
    d1 = d1
    d2 = d2
SPECIFICATION Spec
SYMMETRY DecoderSymmetry
PROPERTY IndependentStreams
\* When every open() fails the users have nothing more to call.
CHECK_DEADLOCK FALSE
