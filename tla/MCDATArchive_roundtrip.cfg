\* create() then open() and readFile() with no I/O failure, same build; at most one block of the output damaged on disk in between.
CONSTANTS
    Paths <- MCPaths
    MasterKey <- MCMasterKey
    LegacyHeaderKey <- MCLegacyHeaderKey
    Contents = {c1, c2}
    Sizes = {0, 255, 256}
    CompressMin = 256
    WriterWchar = 2
    ReaderWchar = 2
    MaxFiles = 2
    MaxIoFailures = 0
    MaxDamage = 1
    OffsetLimit = 65536
    RemoveOpenFileFails = TRUE
    MISSING = MISSING
    NPOS = NPOS
    NONE = NONE
    ZEROS = ZEROS
    THREW = THREW
SPECIFICATION Spec
INVARIANT TypeOK
INVARIANT RoundTrip
INVARIANT ReadIntegrity
\* The modelled program ends: create() returns, open() returns, reads end.
CHECK_DEADLOCK FALSE
