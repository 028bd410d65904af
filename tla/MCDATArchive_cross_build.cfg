\* Archive written by a build with 4-byte wchar_t, read by one with 2-byte wchar_t.
CONSTANTS
    Paths <- MCPaths
    MasterKey <- MCMasterKey
    LegacyHeaderKey <- MCLegacyHeaderKey
    Contents = {c1, c2}
    Sizes = {0, 256}
    CompressMin = 256
    WriterWchar = 4
    ReaderWchar = 2
    MaxFiles = 2
    MaxIoFailures = 0
    MaxDamage = 0
    OffsetLimit = 65536
    RemoveOpenFileFails = TRUE
    MISSING = MISSING
    NPOS = NPOS
    NONE = NONE
    ZEROS = ZEROS
    THREW = THREW
SPECIFICATION Spec
INVARIANT RoundTrip
\* The modelled program ends: create() returns, open() returns, reads end.
CHECK_DEADLOCK FALSE
