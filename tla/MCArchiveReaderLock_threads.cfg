\* Two threads sharing one archive, each making up to two readFile,
\* createEnumerator or enumerator readFile calls; every enumerator is
\* dropped on the thread that created it.
CONSTANTS
    Threads = {t1, t2}
    a = a  b = b  c = c  d = d  e = e
    Entries <- MCEntries
    Dirs <- MCDirs
    MaxCalls = 2
    UnlockOutcomes = {"release", "ignore"}
    NONE = NONE
SPECIFICATION Spec
INVARIANT TypeOK
INVARIANT ReadsGetOwnEntry
PROPERTY CallsReturn
\* A thread stops once its calls are made and its enumerator dropped.
CHECK_DEADLOCK FALSE
