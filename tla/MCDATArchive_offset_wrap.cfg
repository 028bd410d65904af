\* An archive that outgrows the uint32_t offsets (2^32 scaled to 512 bytes): does create() still return true for an archive that does not round-trip?
CONSTANTS
    Paths <- MCPaths
    MasterKey <- MCMasterKey
    LegacyHeaderKey <- MCLegacyHeaderKey
    Contents = {c1, c2}
    Sizes = {256}
    CompressMin = 256
    WriterWchar = 2
    ReaderWchar = 2
    MaxFiles = 2
    MaxIoFailures = 0
    MaxDamage = 0
    OffsetLimit = 512
    RemoveOpenFileFails = TRUE
    MISSING = MISSING
    NPOS = NPOS
    NONE = NONE
    ZEROS = ZEROS
    THREW = THREW
SPECIFICATION Spec
INVARIANT RoundTrip
\* The modelled program ends: create() returns, open() returns, reads end.
CHECK_DEADLOCK FALSE
