\* Two threads; an enumerator may be handed to, and dropped by, the other thread.
CONSTANTS
    Threads = {t1, t2}
    a = a  b = b  c = c  d = d  e = e
    Entries <- MCEntries
    Dirs <- MCDirs
    MaxCalls = 2
    UnlockOutcomes = {"release", "ignore"}
    NONE = NONE
SPECIFICATION SharedSpec
PROPERTY CallsReturn
CHECK_DEADLOCK FALSE
