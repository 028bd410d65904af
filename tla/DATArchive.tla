------------------------------ MODULE DATArchive ------------------------------
(***************************************************************************)
(* DATArchiveCreator::create writes an LSTGRETROARC v2 archive through a   *)
(* temp file; FileSystemDATArchive::open and readFile read it back.        *)
(* Source: src/engine/file-system/core/FileSystemDATArchive.cpp.           *)
(*                                                                         *)
(* Data abstraction.  A file maps byte offsets to the blocks written       *)
(* there.  A block is a record tagged by t:                                *)
(*   "data"   the bytes of a source file (content id and size),            *)
(*   "zlib"   a zlib stream that inflates to the block "of",               *)
(*   "header" a DATArchiveHeader,  "dir" the serialised entry records,     *)
(*   "enc"    block p XORed with the keystream of seed <<kind,base,step>>, *)
(*   "junk"   bytes that are none of these (misaligned or wrong key),      *)
(*   "short"  a read that hit end of file after "size" bytes.              *)
(* Decrypting an "enc" block with its own seed gives p back and with any   *)
(* other seed gives junk; only the 8 magic bytes of the header are         *)
(* compared through the real keystreams (trial decryption in open()).      *)
(***************************************************************************)
EXTENDS Naturals, Sequences, FiniteSets, TLC, ArchiveCipher

CONSTANTS
    Paths,           \* relative paths as bytes, already '/'-normalised
    Contents,        \* identities of the bytes a source file can hold
    Sizes,           \* sizes a source file can have
    CompressMin,     \* 0x100: create() deflates files of at least this size
    MasterKey,       \* ArchiveEncryption::ENCRYPTION_KEY as bytes
    LegacyHeaderKey, \* getKeyHashHeaderLegacy(masterKey) of the reading build
    WriterWchar,     \* sizeof(wchar_t) of the build that writes the archive
    ReaderWchar,     \* sizeof(wchar_t) of the build that reads it
    MaxFiles,        \* bound on addFile calls
    MaxIoFailures,   \* bound on injected I/O failures (disk full, read error)
    MaxDamage,       \* bound on blocks of the archive damaged after create()
    OffsetLimit,     \* 2^32, scaled: offsets are stored as uint32_t
    RemoveOpenFileFails, \* remove() of a file the process holds open fails (Windows)
    MISSING,         \* a source file that cannot be opened
    NPOS,            \* (uint32_t)tellp() of a stream in badbit: 0xFFFFFFFF
    NONE,            \* no value / no result yet
    ZEROS,           \* content of a buffer a failed read left zero-filled
    THREW            \* create() left by an exception instead of returning

ASSUME CompressMin \in Nat /\ MaxFiles \in Nat /\ MaxIoFailures \in Nat /\ MaxDamage \in Nat
\* Source files stay below 4 GiB: the uint32_t fileSize cast is not modelled.
ASSUME OffsetLimit \in Nat \ {0} /\ \A s \in Sizes : s < OffsetLimit
ASSUME {WriterWchar, ReaderWchar} \subseteq {2, 4}
ASSUME RemoveOpenFileFails \in BOOLEAN

VARIABLES
    files,       \* DATArchiveCreator::m_files
    source,      \* the files under baseDir: path -> [size, id] or MISSING
    wpc,         \* where create() is: "idle", "files", "encrypt", "done"
    wi,          \* index of the next file of the phase-1 loop
    entries,     \* create()'s std::vector<DATArchiveEntry>
    header,      \* create()'s in-memory DATArchiveHeader
    tmp,         \* outputPath + ".tmp": [exists, bad (badbit), segs]
    out,         \* outputPath
    created,     \* create()'s return value, NONE while it runs
    ioFailures,  \* I/O failures injected so far
    rpc,         \* where the reader is: "closed", "inflating", "parsing",
                 \* "spinning" (stuck in zlibInflate), "open" (open()
                 \* returned true), "failed" (returned false)
    rkind,       \* cipher kind found by trial decryption (isLegacy)
    rhdr,        \* the decoded header
    rdir,        \* the directory block being inflated, then parsed
    index,       \* m_entries: path -> entry
    reads,       \* readFile(p) results
    damaged      \* blocks of the output damaged on disk so far

writerVars == <<files, source, wpc, wi, entries, header, tmp, created>>
readerVars == <<rpc, rkind, rhdr, rdir, index, reads, damaged>>
vars == <<writerVars, out, ioFailures, readerVars>>

-----------------------------------------------------------------------------
HeaderBytes == 24                                  \* sizeof(DATArchiveHeader)

HeaderKey == KeyHashHeader(Fnv1a32(MasterKey))     \* getKeyHashHeader(masterKey)

\* getKeyHashFile(path, keyBase, keyStep) of every path create() can add.
FileKey == [p \in Paths |-> KeyHashFile(Fnv1a32(p), HeaderKey)]

\* The seed that encrypts (and decrypts) the metadata block: the header
\* keystream of a cipher kind and header key, advanced past the 24 header bytes.
DirSeed(kind, key) == <<kind, Advance(kind, key[1], key[2], HeaderBytes), key[2]>>
WriterDirSeed == DirSeed("v2", HeaderKey)

\* The header key open() tries for each cipher kind, and its metadata seed.
ReaderKey     == [k \in CipherKinds |-> IF k = "v2" THEN HeaderKey ELSE LegacyHeaderKey]
ReaderDirSeed == [k \in CipherKinds |-> DirSeed(k, ReaderKey[k])]

Empty    == [t |-> "data", id |-> NONE, size |-> 0]
Buf(c, n) == IF n = 0 THEN Empty ELSE [t |-> "data", id |-> c, size |-> n]
Zip(b, n) == [t |-> "zlib", of |-> b, size |-> n]
Junk(n)  == [t |-> "junk", size |-> n]
Short(n) == [t |-> "short", size |-> n]

\* compress2 output sizes: smaller for redundant bytes, larger (up to
\* compressBound) for incompressible ones.
DeflatedSizes(n) == {n \div 16, n + 11}
DirDeflatedSize(es) == 8 + 16 * Len(es)

\* crc32 of the empty buffer is 0 (NoCrc, also the "no CRC" value of v1
\* records); otherwise the bytes stand for their CRC.
NoCrc == Empty
Crc(b) == IF b.size = 0 THEN NoCrc ELSE b

Seed(kind, key) == <<kind, key[1], key[2]>>
Encrypt(b, seed) == [t |-> "enc", p |-> b, seed |-> seed, size |-> b.size]
Decrypt(b, seed) ==
    CASE b.t = "enc" /\ b.seed = seed -> b.p
      [] b.t \in {"enc", "junk"}      -> Junk(b.size)
      [] OTHER                        -> b

NoFile == [exists |-> FALSE, bad |-> FALSE, segs |-> <<>>]
FileLen(f) ==
    LET ends == {o + f.segs[o].size : o \in DOMAIN f.segs}
    IN  IF ends = {} THEN 0 ELSE CHOOSE e \in ends : \A x \in ends : x <= e
\* static_cast<uint32_t>(tellp()): -1 in badbit, the position modulo 2^32.
Tell(f) == IF f.bad THEN NPOS ELSE FileLen(f) % OffsetLimit

\* ostream::write at the end of the file: a full disk sets badbit, and a
\* stream in badbit writes nothing.
Write(f, b, fails) ==
    IF f.bad \/ fails THEN [f EXCEPT !.bad = TRUE]
    ELSE [f EXCEPT !.segs = @ @@ (FileLen(f) :> b)]

\* seekg + read of n bytes: the block written at off, junk inside the file
\* but off a block boundary, short past the end of the file.
ReadAt(f, off, n) ==
    CASE n = 0                                       -> Empty
      [] off = NPOS \/ off >= FileLen(f)             -> Short(0)
      [] off + n > FileLen(f)                        -> Short(FileLen(f) - off)
      [] off \in DOMAIN f.segs /\ f.segs[off].size = n -> f.segs[off]
      [] OTHER                                       -> Junk(n)

\* Whether the next I/O operation fails, within the failure budget.
IoOutcome == IF ioFailures < MaxIoFailures THEN BOOLEAN ELSE {FALSE}
CountFailure(fails) == ioFailures' = ioFailures + (IF fails THEN 1 ELSE 0)

-----------------------------------------------------------------------------
(***************************************************************************)
(* Writer: DATArchiveCreator::addFile and create.                          *)
(***************************************************************************)
AddFile(p) ==
    /\ wpc = "idle"
    /\ Len(files) < MaxFiles
    /\ files' = Append(files, p)
    /\ UNCHANGED <<source, wpc, wi, entries, header, tmp, created, out,
                   ioFailures, readerVars>>

\* create() up to the header stub: open the temp file, write magic, version
\* and entryCount with headerOffset/headerSize still zero.
CreateBegin ==
    /\ wpc = "idle"
    /\ \E fails \in IoOutcome, stubFails \in IoOutcome :
         /\ ~(fails /\ stubFails)
         /\ CountFailure(fails \/ stubFails)
         /\ \/ /\ fails                        \* temp file cannot be created
               /\ created' = FALSE
               /\ wpc' = "done"
               /\ UNCHANGED <<header, tmp>>
            \/ /\ ~fails
               /\ header' = [header EXCEPT !.version = 2, !.entryCount = Len(files)]
               /\ tmp' = Write([NoFile EXCEPT !.exists = TRUE], header', stubFails)
               /\ wpc' = "files"
               /\ UNCHANGED created
    /\ UNCHANGED <<files, source, wi, entries, out, readerVars>>

\* An early exit of create(): std::filesystem::remove(tmpPath) while tmpFile
\* still holds the file open, then return false.  POSIX unlinks the open
\* file.  On Windows the stream's handle does not share delete access, so
\* remove throws filesystem_error out of create() and the file stays.
RemoveTmpAndFail ==
    IF RemoveOpenFileFails THEN tmp' = tmp /\ created' = THREW
                           ELSE tmp' = NoFile /\ created' = FALSE

\* Loop body, source file missing: remove the temp file and return false.
SourceMissing ==
    /\ source[files[wi]] = MISSING
    /\ RemoveTmpAndFail
    /\ wpc' = "done"
    /\ UNCHANGED <<wi, entries, ioFailures>>

\* Loop body, source file present: read it, take offsetPos = tellp(), the
\* CRC, the per-file key, deflate when size >= 0x100 (falling back to no
\* compression when compress2 fails) and append the plaintext to the temp file.
StageFile ==
    LET p   == files[wi]
        src == source[p]
    IN
    /\ src # MISSING
    /\ \E readFails \in IoOutcome, writeFails \in IoOutcome,
          deflated \in IF src.size >= CompressMin THEN BOOLEAN ELSE {FALSE} :
       \E zsize \in IF deflated THEN DeflatedSizes(src.size) ELSE {0} :
         LET content == Buf(IF readFails THEN ZEROS ELSE src.id, src.size)
             stored  == IF deflated THEN Zip(content, zsize) ELSE content
         IN /\ ~(readFails /\ writeFails)
            /\ readFails => src.size > 0
            /\ writeFails => stored.size > 0
            /\ CountFailure(readFails \/ writeFails)
            /\ entries' = Append(entries,
                  [path |-> p, ct |-> IF deflated THEN 1 ELSE 0,
                   sizeFull |-> src.size, sizeStored |-> stored.size,
                   offsetPos |-> Tell(tmp),
                   key |-> FileKey[p],
                   crc |-> Crc(content)])
            /\ tmp' = IF stored.size > 0 THEN Write(tmp, stored, writeFails) ELSE tmp
    /\ wi' = wi + 1
    /\ UNCHANGED <<created, wpc>>

WriteFile ==
    /\ wpc = "files"
    /\ wi <= Len(files)
    /\ SourceMissing \/ StageFile
    /\ UNCHANGED <<files, source, header, out, readerVars>>

\* seekp to offsetof(headerOffset) and overwrite headerOffset, headerSize;
\* a stream in badbit does nothing.  The bytes exist, so no new space is used.
PatchHeader(f, hdr) == IF f.bad THEN f ELSE [f EXCEPT !.segs[0] = hdr]

\* Phase 2: serialise the records, deflate them, append, patch the header.
WriteMeta ==
    LET metaBegin == Tell(tmp)
        comp      == Zip([t |-> "dir", records |-> entries, wchar |-> WriterWchar],
                         DirDeflatedSize(entries))
        hdr       == [header EXCEPT !.headerOffset = metaBegin,
                                    !.headerSize   = comp.size]
    IN
    /\ wpc = "files"
    /\ wi > Len(files)
    /\ \/ /\ RemoveTmpAndFail                \* compress2 failed
          /\ wpc' = "done"
          /\ UNCHANGED <<header, ioFailures>>
       \/ \E fails \in IoOutcome :
            /\ CountFailure(fails)
            /\ header' = hdr
            /\ tmp' = PatchHeader(Write(tmp, comp, fails), hdr)
            /\ wpc' = "encrypt"
            /\ UNCHANGED created
    /\ UNCHANGED <<files, source, wi, entries, out, readerVars>>

\* Mutant: the metadata block restarts the header keystream at keyBase
\* instead of continuing it from headerBase.
CopyPlanDirSeedReset(hdr, es) ==
    << [off |-> 0, n |-> HeaderBytes, seed |-> Seed("v2", HeaderKey), checked |-> FALSE] >>
    \o [i \in 1..Len(es) |->
          [off |-> es[i].offsetPos, n |-> es[i].sizeStored,
           seed |-> Seed("v2", es[i].key), checked |-> TRUE]]
    \o << [off |-> hdr.headerOffset, n |-> hdr.headerSize,
           seed |-> Seed("v2", HeaderKey), checked |-> TRUE] >>

\* The blocks encryptArchive copies from the temp file, in order: the header
\* with the header key, each body with its own key, and the directory
\* continuing the header keystream (headerBase advanced past 24 bytes).
\* Only the header read is unchecked.
CopyPlan(hdr, es) ==
    << [off |-> 0, n |-> HeaderBytes, seed |-> Seed("v2", HeaderKey), checked |-> FALSE] >>
    \o [i \in 1..Len(es) |->
          [off |-> es[i].offsetPos, n |-> es[i].sizeStored,
           seed |-> Seed("v2", es[i].key), checked |-> TRUE]]
    \o << [off |-> hdr.headerOffset, n |-> hdr.headerSize,
           seed |-> WriterDirSeed,
           checked |-> TRUE] >>

\* What one copy step writes: the bytes read, a zero-filled header buffer
\* when the header read comes up short, the partial bytes of a short loop
\* read (then the loop breaks), nothing when no byte was read or the block
\* is empty (the while loop does not run).
Copied(f, b) ==
    LET r == ReadAt(f, b.off, b.n)
    IN  CASE b.n = 0                    -> NONE
          [] r.t # "short"              -> r
          [] ~b.checked                 -> Junk(b.n)
          [] r.size > 0                 -> Junk(r.size)
          [] OTHER                      -> NONE

\* Phase 3: encryptArchive, then close and remove the temp file.  A full
\* disk at the k-th write of dest loses it and every later one; the
\* function still returns true.
EncryptArchive ==
    LET plan == CopyPlan(header, entries)
    IN
    /\ wpc = "encrypt"
    /\ \/ /\ \E fails \in IoOutcome : fails   \* dest cannot be opened
          /\ CountFailure(TRUE)
          /\ created' = FALSE
          /\ UNCHANGED out
       \/ \E k \in IF ioFailures < MaxIoFailures THEN 0..Len(plan) ELSE {0} :
            LET done == {j \in 1..Len(plan) : Copied(tmp, plan[j]) # NONE /\ (k = 0 \/ j < k)}
            IN /\ CountFailure(k # 0)
               /\ out' = [exists |-> TRUE, bad |-> k # 0,
                          segs |-> [o \in {plan[j].off : j \in done} |->
                                      LET j == CHOOSE j \in done : plan[j].off = o /\
                                                 \A i \in done : plan[i].off = o => i <= j
                                      IN  Encrypt(Copied(tmp, plan[j]), plan[j].seed)]]
               /\ created' = TRUE
    /\ tmp' = NoFile
    /\ wpc' = "done"
    /\ UNCHANGED <<files, source, wi, entries, header, readerVars>>

-----------------------------------------------------------------------------
(***************************************************************************)
(* Reader: FileSystemDATArchive::open, then readFile.                      *)
(***************************************************************************)
NoMagic == [t |-> "nomagic"]

\* Trial decryption of the 24 header bytes: the header when the block was
\* encrypted with this seed, a header with garbage fields when only the
\* magic's 8 keystream bytes agree, NoMagic otherwise.
TrialHeader(b, kind, key) ==
    CASE b.t = "enc" /\ b.p.t = "header" /\ b.seed = Seed(kind, key) -> b.p
      [] b.t = "enc" /\ b.p.t = "header"
         /\ Keystream(b.seed[1], b.seed[2], b.seed[3], 8) = Keystream(kind, key[1], key[2], 8)
         -> [b.p EXCEPT !.version = 0]
      [] OTHER -> NoMagic

\* open() through reading and decrypting the metadata block: try v2, fall
\* back to legacy, check the version, read headerSize bytes at headerOffset
\* and decrypt them continuing the header keystream.
OpenHeader ==
    LET raw  == ReadAt(out, 0, HeaderBytes)
        v2   == TrialHeader(raw, "v2", HeaderKey)
        kind == IF v2 # NoMagic THEN "v2" ELSE "legacy"
        key  == ReaderKey[kind]
        hdr  == TrialHeader(raw, kind, key)
        enc  == ReadAt(out, hdr.headerOffset, hdr.headerSize)
        ok   == /\ out.exists
                /\ raw.t # "short"
                /\ hdr # NoMagic
                /\ hdr.version \in {1, 2}
                /\ enc.t # "short"
    IN
    /\ rpc = "closed"
    /\ wpc = "done"
    /\ \/ /\ ~ok
          /\ rpc' = "failed"
          /\ UNCHANGED <<rkind, rhdr, rdir>>
       \/ /\ ok
          /\ rpc' = "inflating"
          /\ rkind' = kind
          /\ rhdr' = hdr
          /\ rdir' = Decrypt(enc, ReaderDirSeed[kind])
    /\ UNCHANGED <<writerVars, out, ioFailures, index, reads, damaged>>

\* One pass of zlibInflate's loop.  A complete stream ends (Z_STREAM_END).
\* Damaged bytes either break the stream format (Z_DATA_ERROR) or read as a
\* stream cut short; input that runs out before the stream ends, like no
\* input at all, makes inflate return Z_BUF_ERROR, which the loop neither
\* accepts nor rejects: it calls inflate again, forever ("spinning": every
\* later iteration leaves the state as it is).
InflateDir ==
    /\ rpc = "inflating"
    /\ \/ /\ rdir.t = "zlib"
          /\ rpc' = "parsing"
          /\ rdir' = rdir.of
       \/ /\ rdir.t = "junk"
          /\ rpc' \in {"failed", "spinning"}
          /\ UNCHANGED rdir
       \/ /\ rdir.size = 0
          /\ rpc' = "spinning"
          /\ UNCHANGED rdir
    /\ UNCHANGED <<writerVars, out, ioFailures, rkind, rhdr, index, reads, damaged>>

\* Records a build with another sizeof(wchar_t) wrote are misaligned:
\* they parse to garbage or not at all.
JunkEntry == [path |-> <<0>>, ct |-> 0, sizeFull |-> 0, sizeStored |-> 0,
              offsetPos |-> 0, key |-> <<0, 0>>, crc |-> NoCrc]
ParsedRecords(dir, hasCrc) ==
    IF dir.t = "dir" /\ dir.wchar = ReaderWchar
    THEN { [i \in DOMAIN dir.records |->
              IF hasCrc THEN dir.records[i] ELSE [dir.records[i] EXCEPT !.crc = NoCrc]] }
    ELSE { <<>>, <<JunkEntry>> }

\* m_entries.emplace keeps the first entry of a path.
FirstByPath(es) ==
    [p \in {es[i].path : i \in DOMAIN es} |->
       es[CHOOSE i \in DOMAIN es : es[i].path = p /\ \A j \in 1..(i-1) : es[j].path # p]]

\* Mutant: the record loop stops one record early.
ParseDirOffByOne ==
    /\ rpc = "parsing"
    /\ \E recs \in ParsedRecords(rdir, rhdr.version # 1) :
         index' = FirstByPath(SubSeq(recs, 1,
                     IF Len(recs) < rhdr.entryCount THEN Len(recs) - 1 ELSE rhdr.entryCount - 1))
    /\ rpc' = "open"
    /\ UNCHANGED <<writerVars, out, ioFailures, rkind, rhdr, rdir, reads, damaged>>

\* The record loop: at most entryCount records, stopping (with a warning)
\* at the first that does not parse; open() returns true either way.
ParseDir ==
    /\ rpc = "parsing"
    /\ \E recs \in ParsedRecords(rdir, rhdr.version # 1) :
         index' = FirstByPath(SubSeq(recs, 1,
                     IF Len(recs) < rhdr.entryCount THEN Len(recs) ELSE rhdr.entryCount))
    /\ rpc' = "open"
    /\ UNCHANGED <<writerVars, out, ioFailures, rkind, rhdr, rdir, reads, damaged>>

Failed == [ok |-> FALSE]

\* Mutant: readEntryData skips the CRC-32 comparison.
WarnedNoCrc(e, buf) == e.ct = 1 /\ buf.size # e.sizeFull

\* readEntryData: read sizeStored bytes at offsetPos, decrypt with the entry
\* key, inflate into sizeFull bytes when zlib, warn on a size or CRC
\* mismatch but return the bytes.  A compressionType outside {0, 1} matches
\* no case of the switch and returns the empty buffer.
Warned(e, buf) ==
    \/ e.ct = 1 /\ buf.size # e.sizeFull
    \/ e.crc # NoCrc /\ buf.size > 0 /\ Crc(buf) # e.crc

\* zlibInflateKnown: uncompress into a buffer of the expected size.  It
\* fails on bytes that are not a zlib stream and on a stream that inflates
\* to more than that size; a shorter result is returned as it is.
InflateKnown(b, n) == IF b.t = "zlib" /\ b.of.size <= n THEN b.of ELSE NONE

\* readEntryData picks the file cipher by m_version, the header's version
\* field, not by which header key the trial decryption of open() matched.
EntryKind == IF rhdr.version = 1 THEN "legacy" ELSE "v2"

\* Mutant: the per-file shiftBlock is left out.
ReadEntryDataNoDecrypt(e) ==
    LET raw   == IF e.sizeStored = 0 THEN Empty ELSE ReadAt(out, e.offsetPos, e.sizeStored)
        buf   == CASE e.ct = 0                        -> raw
                   [] e.ct = 1 /\ e.sizeStored = 0    -> Empty
                   [] e.ct = 1                        -> InflateKnown(raw, e.sizeFull)
                   [] OTHER                           -> Empty
    IN  IF raw.t = "short" \/ buf = NONE THEN Failed
        ELSE [ok |-> TRUE, data |-> buf, warned |-> Warned(e, buf)]

ReadEntryData(e) ==
    LET raw   == IF e.sizeStored = 0 THEN Empty ELSE ReadAt(out, e.offsetPos, e.sizeStored)
        plain == Decrypt(raw, Seed(EntryKind, e.key))
        buf   == CASE e.ct = 0                        -> plain
                   [] e.ct = 1 /\ e.sizeStored = 0    -> Empty
                   [] e.ct = 1                        -> InflateKnown(plain, e.sizeFull)
                   [] OTHER                           -> Empty
    IN  IF raw.t = "short" \/ buf = NONE THEN Failed
        ELSE [ok |-> TRUE, data |-> buf, warned |-> Warned(e, buf)]

ReadFile(p) ==
    /\ rpc = "open"
    /\ reads[p] = NONE
    /\ reads' = [reads EXCEPT ![p] = IF p \in DOMAIN index THEN ReadEntryData(index[p])
                                                           ELSE Failed]
    /\ UNCHANGED <<writerVars, out, ioFailures, rpc, rkind, rhdr, rdir, index, damaged>>

\* The environment: a block of the archive is overwritten on disk between
\* create() and open() (a bad sector, a partial copy, a patched file).
Tamper ==
    /\ created = TRUE
    /\ rpc = "closed"
    /\ damaged < MaxDamage
    /\ \E o \in DOMAIN out.segs :
         out' = [out EXCEPT !.segs[o] = Junk(@.size)]
    /\ damaged' = damaged + 1
    /\ UNCHANGED <<writerVars, ioFailures, rpc, rkind, rhdr, rdir, index, reads>>

-----------------------------------------------------------------------------
Init ==
    /\ files = <<>>
    /\ source \in [Paths -> {MISSING} \cup [size : Sizes, id : Contents]]
    /\ wpc = "idle"
    /\ wi = 1
    /\ entries = <<>>
    /\ header = [t |-> "header", version |-> 0, entryCount |-> 0,
                 headerOffset |-> 0, headerSize |-> 0, size |-> HeaderBytes]
    /\ tmp = NoFile
    /\ out = NoFile
    /\ created = NONE
    /\ ioFailures = 0
    /\ rpc = "closed"
    /\ rkind = NONE
    /\ rhdr = NONE
    /\ rdir = NONE
    /\ index = <<>>
    /\ reads = [p \in Paths |-> NONE]
    /\ damaged = 0

WriterStep == CreateBegin \/ WriteFile \/ WriteMeta \/ EncryptArchive
OpenStep   == InflateDir \/ ParseDir

Next ==
    \/ \E p \in Paths : AddFile(p)
    \/ WriterStep
    \/ Tamper
    \/ OpenHeader
    \/ OpenStep
    \/ \E p \in Paths : ReadFile(p)

\* create() and open() run to completion once called: each is straight-line
\* code on the calling thread.
Fairness == WF_vars(WriterStep) /\ WF_vars(OpenStep)

Spec == Init /\ [][Next]_vars /\ Fairness

-----------------------------------------------------------------------------
TypeOK ==
    /\ files \in Seq(Paths) /\ Len(files) <= MaxFiles
    /\ wpc \in {"idle", "files", "encrypt", "done"}
    /\ wi \in 1..(MaxFiles + 1)
    /\ created \in {NONE, TRUE, FALSE, THREW}
    /\ ioFailures \in 0..MaxIoFailures
    /\ damaged \in 0..MaxDamage
    /\ rpc \in {"closed", "inflating", "spinning", "parsing", "open", "failed"}
    /\ rkind \in CipherKinds \cup {NONE}
    /\ \A p \in Paths : \/ reads[p] \in {NONE, Failed}
                        \/ reads[p].ok /\ reads[p].data.t \in {"data", "junk"}

\* What a reader must get for p from an archive create() reported as written.
Expected(p) ==
    IF \E i \in DOMAIN files : files[i] = p
    THEN [ok |-> TRUE, data |-> Buf(source[p].id, source[p].size), warned |-> FALSE]
    ELSE Failed

\* Round trip (spec 8): when create() returns true and the output was not
\* damaged on disk since, open() of it does not fail and readFile returns
\* each queued file's bytes unwarned, and fails for paths never added.
RoundTrip ==
    created = TRUE /\ damaged = 0 =>
        /\ rpc # "failed"
        /\ \A p \in Paths : reads[p] # NONE => reads[p] = Expected(p)

\* open() of an archive returns: the metadata inflate loop terminates.
OpenReturns == rpc \in {"inflating", "parsing"} ~> rpc \in {"open", "failed"}

\* The CRC-32 check of readEntryData: from an archive damaged on disk after
\* create() returned true, a readFile that succeeds without a warning
\* returns the queued file's own bytes.
ReadIntegrity ==
    created = TRUE =>
        \A p \in Paths : reads[p] # NONE /\ reads[p].ok /\ ~reads[p].warned
                          => reads[p] = Expected(p)

\* Spec 7 (DirectoryCorrupt): open() of an archive whose header announces
\* records but none of which parses fails instead of returning true.
UnparsableDirectoryRejected ==
    rpc = "open" /\ rhdr.entryCount > 0 => DOMAIN index # {}

\* open() never succeeds with a partial directory of an archive this writer
\* produced: the index holds exactly the queued paths.
IndexComplete ==
    rpc = "open" => DOMAIN index = {files[i] : i \in DOMAIN files}
=============================================================================
