--------------------------- MODULE ArchiveReaderLock ---------------------------
(***************************************************************************)
(* The locking of an opened FileSystemDATArchive                          *)
(* (src/engine/file-system/core/FileSystemDATArchive.cpp) by several      *)
(* threads.  Every public call takes the std::recursive_mutex m_mutex;    *)
(* createEnumerator locks it and only the enumerator's destructor unlocks *)
(* it, so an enumerator holds the lock for its lifetime, and its readFile *)
(* calls readEntryData without locking.  readEntryData seeks the one      *)
(* shared m_file and then reads it: two threads between those two steps   *)
(* read each other's bytes.                                               *)
(* The archive is opened before it is shared (createFromFile), so         *)
(* m_entries and m_directories are fixed here.  A path is a sequence of   *)
(* names; a directory is the sequence of names before its trailing '/'.   *)
(***************************************************************************)
EXTENDS Naturals, Sequences, FiniteSets

CONSTANTS
    Threads,         \* threads sharing the archive (model values)
    Entries,         \* the paths of m_entries
    Dirs,            \* normalised directory arguments of createEnumerator
    MaxCalls,        \* bound on the readFile/createEnumerator calls of a thread
    UnlockOutcomes,  \* what unlock() by a thread that does not own m_mutex does:
                     \* "release" (the count drops) or "ignore" (EPERM)
    NONE

VARIABLES
    owner,   \* the thread owning m_mutex, or NONE
    depth,   \* m_mutex's recursion count
    filePos, \* the entry m_file was last seeked to, or NONE
    pc,      \* per thread: "idle", "lock" (in readFile), "query" (in a query),
             \* "enumLock" (in createEnumerator), "read" (in readEntryData,
             \* between seekg and read)
    arg,     \* per thread: the path, or [dir, rec], of the call in progress
    via,     \* per thread: "archive" or "enum", whose readFile is in readEntryData
    enum,    \* per thread: the enumerator it holds a reference to, or NONE
    got,     \* per thread: [want, data] of its last successful read, or NONE
    calls    \* per thread: calls made so far

vars == <<owner, depth, filePos, pc, arg, via, enum, got, calls>>

\* collectParentDirectories: every proper prefix of a path ending in '/'.
Parents(p) == {SubSeq(p, 1, k) : k \in 1..(Len(p) - 1)}

\* m_directories after open().
Directories == UNION {Parents(p) : p \in Entries}

\* isPathMatched (FileSystemCommon, not in this repository; spec 4.3): x
\* lies under dir, directly unless recursive.
IsPathMatched(x, dir, rec) ==
    /\ Len(x) > Len(dir)
    /\ SubSeq(x, 1, Len(dir)) = dir
    /\ rec \/ Len(x) = Len(dir) + 1

\* The enumerator's constructor: the matching entries, then the matching
\* synthetic directories.
Items(dir, rec) ==
    {[name |-> x, isDir |-> FALSE] : x \in {e \in Entries : IsPathMatched(e, dir, rec)}}
    \cup {[name |-> x, isDir |-> TRUE] : x \in {d \in Directories : IsPathMatched(d, dir, rec)}}

\* m_mutex.lock() by t: free, or already t's own (recursive).
CanLock(t) == owner \in {NONE, t}

Lock(t) == /\ owner' = t
           /\ depth' = depth + 1

\* m_mutex.unlock() by the owner.
Unlock == /\ depth' = depth - 1
          /\ owner' = IF depth = 1 THEN NONE ELSE owner

-----------------------------------------------------------------------------
\* readFile(name): entering the call; lock_guard blocks while another
\* thread holds m_mutex.
CallReadFile(t, p) ==
    /\ pc[t] = "idle"
    /\ calls[t] < MaxCalls
    /\ pc' = [pc EXCEPT ![t] = "lock"]
    /\ arg' = [arg EXCEPT ![t] = p]
    /\ calls' = [calls EXCEPT ![t] = @ + 1]
    /\ UNCHANGED <<owner, depth, filePos, via, enum, got>>

\* Mutant: readFile without its lock_guard.
ReadFileLockedUnguarded(t) ==
    /\ pc[t] = "lock"
    /\ filePos' = arg[t]
    /\ pc' = [pc EXCEPT ![t] = "read"]
    /\ via' = [via EXCEPT ![t] = "enum"]
    /\ UNCHANGED <<owner, depth, arg, enum, got, calls>>

\* readFile, holding the lock: the lookup, then readEntryData's clear and
\* seekg to the entry.  A name not in m_entries returns false.
ReadFileLocked(t) ==
    /\ pc[t] = "lock"
    /\ CanLock(t)
    /\ IF arg[t] \in Entries
         THEN /\ Lock(t)
              /\ filePos' = arg[t]
              /\ pc' = [pc EXCEPT ![t] = "read"]
              /\ via' = [via EXCEPT ![t] = "archive"]
         ELSE /\ pc' = [pc EXCEPT ![t] = "idle"]
              /\ UNCHANGED <<owner, depth, filePos, via>>
    /\ UNCHANGED <<arg, enum, got, calls>>

\* readEntryData from the m_file.read on: it reads the bytes at the stream
\* position, decrypts, inflates and wraps them; readFile's lock_guard then
\* unlocks.  The enumerator's readFile holds no lock of its own.
ReadData(t) ==
    /\ pc[t] = "read"
    /\ got' = [got EXCEPT ![t] = [want |-> arg[t], data |-> filePos]]
    /\ IF via[t] = "archive" THEN Unlock ELSE UNCHANGED <<owner, depth>>
    /\ pc' = [pc EXCEPT ![t] = "idle"]
    /\ UNCHANGED <<filePos, arg, via, enum, calls>>

\* hasNode, getNodeType, hasFile, getFileSize, hasDirectory: entering the
\* call.  They only look m_entries and m_directories up under a lock_guard.
CallQuery(t) ==
    /\ pc[t] = "idle"
    /\ calls[t] < MaxCalls
    /\ pc' = [pc EXCEPT ![t] = "query"]
    /\ calls' = [calls EXCEPT ![t] = @ + 1]
    /\ UNCHANGED <<owner, depth, filePos, arg, via, enum, got>>

\* The query, once m_mutex is free or t's own, locks, looks up and unlocks.
QueryLocked(t) ==
    /\ pc[t] = "query"
    /\ CanLock(t)
    /\ pc' = [pc EXCEPT ![t] = "idle"]
    /\ UNCHANGED <<owner, depth, filePos, arg, via, enum, got, calls>>

\* createEnumerator(directory, recursive): entering the call.
CallCreateEnumerator(t, d, r) ==
    /\ pc[t] = "idle"
    /\ enum[t] = NONE
    /\ calls[t] < MaxCalls
    /\ pc' = [pc EXCEPT ![t] = "enumLock"]
    /\ arg' = [arg EXCEPT ![t] = [dir |-> d, rec |-> r]]
    /\ calls' = [calls EXCEPT ![t] = @ + 1]
    /\ UNCHANGED <<owner, depth, filePos, via, enum, got>>

\* Mutant: createEnumerator without its m_mutex.lock().
CreateEnumeratorUnlocked(t) ==
    /\ pc[t] = "enumLock"
    /\ enum' = [enum EXCEPT ![t] = [items |-> Items(arg[t].dir, arg[t].rec), cur |-> NONE]]
    /\ pc' = [pc EXCEPT ![t] = "idle"]
    /\ UNCHANGED <<owner, depth, filePos, arg, via, got, calls>>

\* m_mutex.lock(), then the enumerator's constructor snapshots the items.
CreateEnumeratorLocked(t) ==
    /\ pc[t] = "enumLock"
    /\ CanLock(t)
    /\ Lock(t)
    /\ enum' = [enum EXCEPT ![t] = [items |-> Items(arg[t].dir, arg[t].rec), cur |-> NONE]]
    /\ pc' = [pc EXCEPT ![t] = "idle"]
    /\ UNCHANGED <<filePos, arg, via, got, calls>>

\* next(): the enumerator moves to its next item, or past the last one,
\* where the accessors and readFile find no item.  The item order is the
\* map's and the set's; the model moves to any item not yet visited.
EnumNext(t) ==
    /\ pc[t] = "idle"
    /\ enum[t] # NONE
    /\ \/ \E i \in enum[t].items :
            enum' = [enum EXCEPT ![t] = [items |-> @.items \ {i}, cur |-> i]]
       \/ /\ enum[t].items = {}
          /\ enum[t].cur # NONE
          /\ enum' = [enum EXCEPT ![t].cur = NONE]
    /\ UNCHANGED <<owner, depth, filePos, pc, arg, via, got, calls>>

\* The enumerator's readFile: a file item found in m_entries goes straight
\* to readEntryData, whose seekg runs without taking m_mutex.
EnumReadFile(t) ==
    /\ pc[t] = "idle"
    /\ calls[t] < MaxCalls
    /\ enum[t] # NONE
    /\ enum[t].cur # NONE
    /\ ~enum[t].cur.isDir
    /\ filePos' = enum[t].cur.name
    /\ pc' = [pc EXCEPT ![t] = "read"]
    /\ arg' = [arg EXCEPT ![t] = enum[t].cur.name]
    /\ via' = [via EXCEPT ![t] = "enum"]
    /\ calls' = [calls EXCEPT ![t] = @ + 1]
    /\ UNCHANGED <<owner, depth, enum, got>>

\* The last reference to an enumerator is passed to another thread.
HandOff(t, u) ==
    /\ pc[t] = "idle"
    /\ enum[t] # NONE
    /\ enum[u] = NONE
    /\ enum' = [enum EXCEPT ![t] = NONE, ![u] = enum[t]]
    /\ UNCHANGED <<owner, depth, filePos, pc, arg, via, got, calls>>

\* Mutant: the destructor leaves m_mutex locked.
ReleaseKeepsLock(t) ==
    /\ pc[t] = "idle"
    /\ enum[t] # NONE
    /\ enum' = [enum EXCEPT ![t] = NONE]
    /\ UNCHANGED <<owner, depth, filePos, pc, arg, via, got, calls>>

\* The enumerator's destructor, on the thread dropping the last reference:
\* m_archive->m_mutex.unlock().  Unlocking a mutex the thread does not own
\* is undefined; the builds either drop the count (MSVC release) or refuse
\* (pthreads, EPERM).
Release(t) ==
    /\ pc[t] = "idle"
    /\ enum[t] # NONE
    /\ enum' = [enum EXCEPT ![t] = NONE]
    /\ IF owner = t
         THEN Unlock
         ELSE \E o \in UnlockOutcomes :
                IF o = "release" THEN Unlock ELSE UNCHANGED <<owner, depth>>
    /\ UNCHANGED <<filePos, pc, arg, via, got, calls>>

-----------------------------------------------------------------------------
Init ==
    /\ owner = NONE
    /\ depth = 0
    /\ filePos = NONE
    /\ pc = [t \in Threads |-> "idle"]
    /\ arg = [t \in Threads |-> NONE]
    /\ via = [t \in Threads |-> NONE]
    /\ enum = [t \in Threads |-> NONE]
    /\ got = [t \in Threads |-> NONE]
    /\ calls = [t \in Threads |-> 0]

\* The steps of a call in progress, and dropping a held enumerator.
Finish(t) ==
    \/ ReadFileLocked(t)
    \/ ReadData(t)
    \/ QueryLocked(t)
    \/ CreateEnumeratorLocked(t)
    \/ Release(t)

Next ==
    \E t \in Threads :
        \/ \E p \in Entries \cup Directories : CallReadFile(t, p)
        \/ CallQuery(t)
        \/ \E d \in Dirs, r \in BOOLEAN : CallCreateEnumerator(t, d, r)
        \/ Finish(t)
        \/ EnumNext(t)
        \/ EnumReadFile(t)

\* A thread runs a call it has entered to its end once it can, and drops
\* an enumerator it holds (a scoped reference); starting calls, moving an
\* enumerator on and reading through it are the program's choice.
Fairness == \A t \in Threads : WF_vars(Finish(t))

Spec == Init /\ [][Next]_vars /\ Fairness

\* The same threads when an enumerator may also end up with, and be
\* dropped by, a thread other than its creator: SmartReference lets the
\* last reference go anywhere, and spec 4.3 allows sharing a reader only
\* when every consumer takes the lock.
SharedNext == Next \/ \E t, u \in Threads : t # u /\ HandOff(t, u)

SharedSpec == Init /\ [][SharedNext]_vars /\ Fairness

-----------------------------------------------------------------------------
(* Properties                                                              *)

TypeOK ==
    /\ owner \in Threads \cup {NONE}
    /\ depth \in 0..(MaxCalls * Cardinality(Threads))
    /\ filePos \in Entries \cup {NONE}
    /\ pc \in [Threads -> {"idle", "lock", "query", "enumLock", "read"}]
    /\ calls \in [Threads -> 0..MaxCalls]
    /\ \A t \in Threads : got[t] = NONE \/ got[t].want \in Entries

\* Every read through readFile or an enumerator returns the bytes of the
\* entry it asked for: no other thread moves m_file between a thread's
\* seekg and its read (spec 5: only one reader operation at a time while
\* an enumerator is alive).
ReadsGetOwnEntry == \A t \in Threads : got[t] # NONE => got[t].data = got[t].want

\* Every readFile, query and createEnumerator call eventually returns: m_mutex is
\* released by every enumerator once it is dropped, so no thread waits on
\* it forever.
CallsReturn == \A t \in Threads : pc[t] # "idle" ~> pc[t] = "idle"

=============================================================================
