# TLA+ models of LuaSTG-Retro

These modules model two subsystems of LuaSTG-Retro. The first is the encrypted DAT archive format: its writer, its reader and its cipher. The second is the audio back-end: the XAudio2 sound player with its decode thread and XAudio2 callbacks, and the PMD music decoder whose objects share one global engine. The Discord wrapper is not modelled (section 5). `PROJECT.json` lists every component, run, mutant, finding and hazard, and maps each model definition to the source lines it translates.

## 1. The system

| Part | Source | State | Operations |
|---|---|---|---|
| Archive cipher | `src/engine/file-system/core/ArchiveEncryption.hpp` | none (pure) | `fnv1a_32`, `getKeyHashHeader`, `getKeyHashHeaderLegacy`, `getKeyHashFile`, `shiftBlock`, `shiftBlockLegacy` |
| Archive writer `DATArchiveCreator` | `FileSystemDATArchive.cpp` 508-741 | `m_files`; in `create()`: temp file, `entries`, `header`; the output file | `addFile`, `create` (phases 1-3), `encryptArchive` |
| Archive reader `FileSystemDATArchive` | `FileSystemDATArchive.cpp` 159-413 | `m_file`, `m_entries`, `m_directories`, `m_keyBase/Step`, `m_version`, `m_mutex` | `open`, `readFile`/`readEntryData`, queries, `createEnumerator` |
| Enumerator | `FileSystemDATArchive.cpp` 431-506 | item list, index; holds the archive's `m_mutex` | `next`, `getName`, `readFile`, destructor (unlocks) |
| Record codec | `FileSystemDATArchive.cpp` 75-144 | none | `entryRecordSize`, `writeEntryRecord`, `readEntryRecord` |
| XAudio2 sound player | `src/engine/audio/backend/AudioPlayerXAudio2.cpp` | `m_state` (atomic), `m_voice`, `m_start_time`, `m_total_frame`, loop range, decode flags; `m_voice_mutex` | `play`, `pause`, `resume`, `stop`, `setLoop`, the volume/balance/speed setters, decode thread `decodeAll`, the XAudio2 callback `OnStreamEnd`, engine destroy/create, destructor |
| PMD music decoder | `AudioDecoderPMD.{hpp,cpp}` | per decoder: `m_initialized`, `m_current_frame`; global: the PMD engine, `s_active_decoder`, `s_pmd_mutex` | `open`, `seek`, `read`, `tell`, destructor |
| Discord RPC | `src/LuaSTG/LuaSTG/DiscordRPC/DiscordRPC.cpp` | `g_initialized` | `Init`, `RunCallbacks`, `Shutdown` |
| Discord Lua binding | `LuaBinding/LW_DiscordRPC.cpp` | none | argument marshalling |

### How the parts interact

The writer stages plaintext bodies and a deflated directory in `<out>.tmp`. It then copies the temp file to the output, encrypting as it goes:
- the 24-byte header with the header keystream;
- each body with its own keystream, seeded from its path;
- the directory with the header keystream continued past the header.

The reader goes the other way:
1. Trial-decrypt the header with the v2 cipher, then with the legacy cipher.
2. Check the version.
3. Decrypt and inflate the directory, then parse the records into `m_entries`.
4. On `readFile`, decrypt and inflate one body and check its CRC-32.

The writer and the reader must agree on four things: the key derivation, where the directory keystream continues from, the record layout, and the offsets.

On the audio side, a music player's decode thread reads the whole stream through a decoder. The PMD decoder drives a single process-wide emulator engine, which several decoder objects share.

### What is hard here

These are the behaviours a unit test would hardly reach (listed with their lines in `PROJECT.json` under `hazards`):
- **I/O errors part-way through `create()`.** A disk-full or read error can happen after some blocks are written.
- **A damaged archive on disk.**
- **`zlibInflate`'s loop on empty input.** Nothing stops it.
- **The cipher handoff.** The directory must be encrypted with the header keystream continued past the header.
- **Builds that disagree on `sizeof(wchar_t)`.**
- **The reader's mutex, held across the lifetime of an enumerator.**
- **The audio decode thread checking `m_state` outside the lock.**
- **The unlocked `OnStreamEnd` callback, and audio engine restarts, against a playing player.**
- **Two PMD decoders sharing one global engine**, including a failed load part-way through a reload and positions kept in two units (frames and milliseconds).

## 2. Modules

### `ArchiveCipher`: key derivation and keystreams

`fnv1a_32` is computed exactly modulo 2^32. TLC integers are 32-bit signed, so the hash is kept as two 16-bit limbs. The multiplication uses 16777619 = 2^24 + 403.

`ShiftBlock` is the byte loop of `shiftBlock` and `shiftBlockLegacy`. It returns the data together with the advanced base, because C++ passes `base` by reference. `Advance` is the data-independent half (the base after n bytes), and `Keystream` is n bytes of keystream.

The real master key "Sonic The Hedgehog" hashes to 0x23632E31, which gives the header key (100, 230).

### `MCArchiveCipher`: the cipher against reference definitions

Every input <<kind, base, step, data, cut>> is an initial state:
- both cipher kinds;
- bases {0, 1, 100, 255} and steps {0, 1, 230, 255};
- data of up to 3 bytes from {0, 1, 170, 255}.

TLC therefore evaluates each invariant on all 10016 inputs. The reference is written independently of `ArchiveCipher`: FNV-1a with the hash as four bytes and schoolbook multiplication by 0x01000193 modulo 2^32.

### `DATArchive`: writer, on-disk file, reader

**Data abstraction.** A file is a function from offset to the block written there. A block is a tagged record:
- `data`: content id and size;
- `zlib`: a stream that inflates to another block;
- `header`;
- `dir`: the list of entry records, tagged with the writer's `sizeof(wchar_t)`;
- `enc`: a block plus the seed that encrypted it;
- `junk`;
- `short`: a read past end of file.

Decrypting with the seed that encrypted a block gives the block back, and any other seed gives junk. The one exception is the header: open() compares the first 8 real keystream bytes of both seeds, just as its `memcmp` of the magic does. Offsets and sizes are real numbers, so offset arithmetic, `tellp()`, seeks and short reads behave as in the code. `(uint32_t)tellp()` of a stream in badbit is the model value `NPOS`. Otherwise it is the position modulo `OffsetLimit`, which stands for 2^32 scaled down to the model's file sizes. When two blocks of `encryptArchive` land at the same (wrapped) offset, the later write wins.

**Writer state:** `files` (`m_files`), `wpc` (the phase of `create()`), `wi` (loop index), `entries`, `header`, `tmp`, `out`, `created` (the return value).

| Action | Code |
|---|---|
| `AddFile(p)` | `addFile` |
| `CreateBegin` | temp open and header stub, lines 536-552 |
| `WriteFile` = `SourceMissing` \/ `StageFile` | one iteration of the phase-1 loop, lines 561-616 |
| `WriteMeta` | phase 2 and the header patch, lines 618-650 |
| `EncryptArchive` | `encryptArchive` plus close and remove of the temp file, lines 652-741 |

I/O failures are injected nondeterministically, within the budget `MaxIoFailures`:
- the temp or output file cannot be opened;
- a write hits a full disk, which sets badbit, after which the stream writes nothing;
- a source read fails, which leaves the buffer zero-filled.

`compress2` may fail or give any of two sizes.

**Reader state:** `rpc` (where `open()` is), `rkind` (`isLegacy`), `rhdr`, `rdir`, `index` (`m_entries`), `reads`.

| Action | Code |
|---|---|
| `OpenHeader` | open() up to reading and decrypting the metadata block, lines 165-249 |
| `InflateDir` | one pass of the `zlibInflate` loop |
| `ParseDir` | the record loop, lines 257-284 |
| `ReadFile(p)` | `readFile` / `readEntryData` ; the zlib case through `InflateKnown` (`zlibInflateKnown`), which fails on a stream that is not zlib or inflates past `sizeFull` |

An empty input to `zlibInflate` makes `InflateDir` enter `"spinning"`. This is the loop on `Z_BUF_ERROR`: every later iteration leaves the state as it is. A damaged directory (`junk`) either breaks the stream format, so `Z_DATA_ERROR` makes `open()` fail, or reads as a stream cut short, which also ends in `Z_BUF_ERROR`; the model allows both.

`readEntryData` chooses the file cipher by `m_version` (line 356), the header's version field, and not by which header key matched in `open()`: `ReadEntryData` uses `EntryKind`.

The early exits of `create()` (lines 568 and 637) remove the temp file while `tmpFile` still holds it open. `RemoveTmpAndFail` models both platforms: POSIX unlinks the open file and `create()` returns false; on Windows (`RemoveOpenFileFails = TRUE`, the value every configuration uses) `remove` throws `filesystem_error`, `created` becomes `THREW` and the temp file stays.

`Tamper` is the environment: it overwrites a block of the output between `create()` and `open()`.

**Fairness.** `WF_vars(WriterStep)` and `WF_vars(OpenStep)`. Once called, `create()` and the rest of `open()` are straight-line code on one thread, so a step they can take is eventually taken. No fairness is assumed for `AddFile`, `OpenHeader`, `ReadFile` or `Tamper`: those are calls the program may or may not make.

### `MCDATArchive`: instantiation

- Paths: "a" and "b/c", as bytes.
- The real master key.
- The legacy header key of a non-MSVC reader: `getKeyHashHeaderLegacy` falls back to `fnv1a_32` there, so it equals the v2 key. Only archives this writer produced are opened, so the legacy trial is never reached with a valid header.
- Contents `{c1, c2}` and sizes `{0, 255, 256}` (or `{0, 256}`). These cover an empty file, a stored file and a compressed file, with the 0x100 threshold on both sides.
- At most 2 files, so duplicates are possible: `m_entries.emplace` keeps the first.
- `OffsetLimit` 65536 in every run, above the largest archive these sizes give (under 600 bytes), so no offset wraps. `MCDATArchive_offset_wrap.cfg` sets it to 512 with two 256-byte files, so the directory lands past the limit.

### `ArchiveReaderLock`: threads sharing an opened archive

Every public call of `FileSystemDATArchive` takes `m_mutex`, a `std::recursive_mutex`. `createEnumerator` locks it, and only the enumerator's destructor unlocks it. The enumerator's `readFile` calls `readEntryData` without locking, relying on that lock. `readEntryData` seeks the one shared `m_file` and then reads it. The model makes the seek and the read two steps, so that another thread's seek in between is visible. The archive is opened by `createFromFile` before anyone shares it, so `m_entries` and `m_directories` are fixed.

Paths are sequences of names. A directory is the sequence of names before its trailing `/`, so `a/b/` is `<<a, b>>`.

- `Parents` is `collectParentDirectories`; `Directories` is `m_directories`.
- `IsPathMatched` is `isPathMatched`. That helper lives in `FileSystemCommon.hpp`, which is not in this repository, so it is written from spec §4.3 and its scenario 4.
- `Items` is the enumerator's constructor.

| Variable | Code |
|---|---|
| `owner`, `depth` | `m_mutex`: owning thread and recursion count |
| `filePos` | the entry `m_file` was last seeked to |
| `pc`, `arg`, `via` | where each thread is in its call, and the call's argument |
| `enum` | the enumerator each thread holds the (last) reference to: remaining items and current item |
| `got` | each thread's last read: the entry asked for and the entry whose bytes came back |
| `calls` | calls made, bounded by `MaxCalls` |

| Action | Code |
|---|---|
| `CallReadFile`, `ReadFileLocked`, `ReadData` | `readFile`: lock, lookup, `readEntryData`'s seek; then its read, decode and the unlock |
| `CallQuery`, `QueryLocked` | `hasNode`, `getNodeType`, `hasFile`, `getFileSize`, `hasDirectory` |
| `CallCreateEnumerator`, `CreateEnumeratorLocked` | `createEnumerator` and the constructor's snapshot |
| `EnumNext` | `next()` (and the accessors' bounds check) |
| `EnumReadFile` | the enumerator's `readFile`, without a lock |
| `Release` | the destructor's `unlock()` |

Unlocking a mutex from a thread that does not own it is undefined behaviour. The model lets the unlock have either outcome the builds produce: the count drops (MSVC release builds), or nothing happens (pthreads returns `EPERM`).

`Spec` is the use spec §4.3 allows: each enumerator is dropped by the thread that created it. `SharedSpec` adds `HandOff`: the last reference to an enumerator moves to another thread, which `SmartReference` permits.

**Fairness.** Weak fairness per thread for finishing a call it has entered and for dropping an enumerator it holds. Once a call gets the lock it is straight-line code, and an enumerator is a scoped reference. Starting calls, moving the enumerator on, and reading through it are the program's choice, so they are not fair. Each thread makes at most `MaxCalls` calls, so `std::recursive_mutex`'s lack of fairness cannot starve a waiter forever.

### `MCArchiveReaderLock`: instantiation

- Two threads.
- Entries `a/b/c`, `a/b/d` and `e`: spec §8 scenario 4 plus a top-level file. This gives the synthetic directories `a/` and `a/b/`.
- Enumerators of the root and of `a/`, recursive or not.
- Two calls per thread. That is enough for an enumerator read to overlap the other thread's `readFile`, and for a thread to hold an enumerator while the other waits.

### `AudioPlayer`: one XAudio2 sound player and its threads

`AudioPlayerXAudio2` is touched by four threads:
- the game thread, calling `play`, `pause`, `resume`, `stop` and `setLoop`, and finally the destructor;
- the audio engine's destroy and create events;
- the decode thread `decodeAll`, started by `create()` for the music channel (`m_async_decode`);
- XAudio2's processing thread, which plays the submitted buffer and calls `OnStreamEnd`.

Everything except `OnStreamEnd` and `decodeAll`'s load of `m_state` runs under `m_voice_mutex`, so each locked function is one step. `m_state`, `m_decode_ready` and `m_decode_failed` are atomics, and the unlocked reads and stores of them are separate steps.

**Abstraction.** Time is counted in frames (a sample rate of 1), so `seconds * m_sample_rate` is exact. The PCM is not represented, only how many frames it has (`total`). The source voice is `NULL` or a record `[started, buf]`. `buf` is the one `XAUDIO2_BUFFER` queued (`PlayBegin`, `PlayLength` as a `uint32_t` in two 16-bit limbs, the loop flag, and how many frames of `m_pcm_data` it covers) or `NONE`. `Stop` followed by `FlushSourceBuffers` empties the queue, so one buffer is all the code ever has queued.

| Variable | Code |
|---|---|
| `state` | `m_state` |
| `startTime` | `m_start_time` |
| `total` | `m_total_frame` (and `m_total_seconds`) |
| `ready`, `failed` | `m_decode_ready`, `m_decode_failed` |
| `loop` | `m_loop`, `m_loop_start`, `m_loop_length` |
| `voice` | `m_voice` and XAudio2's state of it |
| `dpc` | where `decodeAll` is |
| `endPending` | XAudio2 is inside `OnStreamEnd`, before its store |
| `engine`, `restarts` | whether the audio engine is up; destroy events so far |
| `life` | `alive`; in the destructor `joining`, then `destroying` (inside `destroy()`, holding `m_voice_mutex`); `gone` once it has returned |

| Action | Code |
|---|---|
| `Play(s)` | `play`, with `startPlaybackLocked` and `submitBufferLocked` (`StartPlayback`, `Buffer`) |
| `Pause`, `Resume`, `Stop`, `SetLoop(on, r)` | the functions of the same names |
| `DecodeFinish` | `decodeAll` up to the end of its first locked block: `read` (which may fail or deliver fewer frames than `getFrameCount()`), then publish the frame count and `m_decode_ready` |
| `DecodeCheck` | `decodeAll`'s unlocked load of `m_state` |
| `DecodeStart` | `decodeAll`'s second locked block: `startPlaybackLocked` if there is a voice |
| `StreamEnds` | XAudio2 reaches the end of a non-looping buffer and enters `OnStreamEnd` |
| `OnStreamEnd` | the callback's unlocked store of stopped |
| `EngineDestroy`, `EngineCreate` | `onAudioEngineDestroy` (which runs `destroy()`), and `onAudioEngineCreate` (which runs `create()`) |
| `DestructBegin` | `~AudioPlayerXAudio2` is entered (calls `"destroy"`) |
| `DestructEnd` | `joinDecodeThread` has returned (`Joined`: no thread, or `decodeAll` ended); `removeEventListener`; `destroy()` locks and calls `DestroyVoice` |
| `DestroyVoiceReturns` | `DestroyVoice` returns once XAudio2 has left `OnStreamEnd`; `m_voice` is nulled and the player freed |

`Next` lets the game call only a player whose destructor has not begun, and the engine notify it only until `removeEventListener`.

`Init` is the state after the constructor: `create()` with `CreateSourceVoice` succeeding or failing, and a synchronous decode for a non-music player.

**Fairness.** Weak fairness for the decode thread, for XAudio2 consuming a started buffer, and for a callback it has entered. The decode thread is a plain function run to its end, and XAudio2 plays a started voice in real time. The game's calls and the engine events are not assumed to happen. The two destructor steps are weakly fair: once the game has entered the destructor, the call runs on.

**Assumption.** `AudioPlayerXAudio2.hpp` is not in the repository. The model takes the member initial values the code's use implies: `m_state` stopped, `m_start_time` 0, `m_loop` false.

### `MCAudioPlayer`: instantiation

- A stream of 2 frames. A start can lie at the beginning, inside, at the end or past the end of the decoded data.
- One loop range: the whole stream.
- `Starts`, `DecodedCounts` and `Calls` vary per configuration. `DecodedCounts = {1, 2}` lets `read` deliver one frame fewer than announced. `MaxEngineRestarts` bounds the destroy/create cycles to 0 or 1.

The passing runs use a music player, because only there does a decode thread race the game. A sound-effect player (`Music = FALSE`, decoded inside `create()`) appears in the stream-end and engine-restart configurations. Every trace found is at most eight steps long, well inside these bounds.

### `PMDStream`: what a decoder promises

Each decoder is an independent stream of its own song:
- `open` starts it at frame 0, or fails;
- `read` returns the next frames of the decoder's own song and advances the position;
- `seek` moves the position, clamped to the song;
- closing ends the stream.

`heard[d]` is the chunk the last read returned: song, first frame and count.

### `PMDDecoder`: decoders sharing one PMDWin engine

The engine is a record `[song, running, pos]`: the song loaded, whether it plays, and its position in frames. Beside it are `s_active_decoder` (`active`), and `m_initialized`, `m_current_frame` and `m_total_samples` per decoder. Each engine call runs under the recursive `s_pmd_mutex`, so each locked function is one step. `open()` takes the lock twice (`shutdownEngine`, then `initializeEngine`), so it is two steps, `OpenShutdown` and `OpenInit`.

| Action | Code |
|---|---|
| `OpenShutdown(d)` | `open` up to `shutdownEngine` (`ShutdownEngine`) |
| `OpenInit(d)` | `open`'s `initializeEngine` at frame 0 (`Reloaded`: `pmdwininit`, `music_load` (`LoadOutcomes`), `music_start`, `setpos` (`SetPos`)) |
| `Read(d, n)` | `read`: `ensureActive` (`EnsureActive`), then `getpcmdata` (`Pcm`) |
| `Seek(d, f)` | `seek`: `ensureActive`, clamp, `setpos` |
| `Destroy(d)` | the destructor's `shutdownEngine` |

`setpos` takes milliseconds, so `SetPos(f)` rounds a frame down to a multiple of `FramesPerMs`.

**Refinement.** `IndependentStreams` is `PMDStream!Spec` under `opened <- init` and `pos <- cur`; `heard` maps to itself. So every step of the decoders is a step of some stream, or leaves the streams unchanged. A read returns the frames the abstract stream would, and a failed reload inside `read` or `seek` fails the call without moving the stream. No fairness is assumed: the users' calls need not happen.

### `MCPMDDecoder`: instantiation

- Decoders `{d1, d2}`, or `{d1}` for the lifecycle run. They are symmetric model values.
- Songs of 2 to 4 frames, reads of 1 or 2 frames.
- Seek targets inside, at the end of and past the song.
- 1 frame per millisecond, except in the seek-rounding configuration, which uses 2.

Two decoders are the least that share the engine. Songs of 3 or 4 frames let reads of 1 and 2 frames interleave and leave a remainder.

## 3. Runs

| Run | Expect | Properties | What it shows |
|---|---|---|---|
| `roundtrip` | pass | `TypeOK`, `RoundTrip`, `ReadIntegrity` | Without I/O errors, every archive that `create()` reports as written and nobody damaged opens and returns each queued file's bytes without a warning. With one block damaged on disk, a read that returns bytes without a warning returns the right bytes (CRC-32 and inflate checks). `open()` of a damaged archive is not claimed to return: a damaged directory stream may make `zlibInflate` spin (finding 2). |
| `io_failures` | pass | `IndexComplete` | With one injected I/O error, a successful `open()` indexes exactly the queued paths. |
| `cipher` | pass | `KeystreamContinues`, `FnvMatchesReference` | Two `ShiftBlock` calls passing the base along equal one call (the header-then-directory handoff), and decryption inverts encryption. The limb arithmetic of `fnv1a_32` is exact modulo 2^32 and gives the FNV-1a test vectors ("", "a", "foobar"). |
| `io_failure_success` | violation | `RoundTrip` | `create()` returns true for an archive that `open()` rejects after one disk-full error. |
| `io_failure_hang` | violation | `OpenReturns` | After a disk-full error while the directory is written, `create()` returns true with the stub header (`headerSize` 0). `open()` of it spins in `zlibInflate` forever while holding `m_mutex`. |
| `audio_handoff` | pass | `PlaybackStarts` | For a music player whose game calls are `play`, `stop` and `setLoop`, a `play()` made before, during or after `decodeAll` eventually makes sound or the player leaves the playing state. (With `pause` and `resume` it does not: `MCAudioPlayer_resume_silent.cfg`.) |
| `audio_engine_events` | pass | `PcmNotSharedWhileDecoding`, `FailedPlayerStaysStopped`, `NothingRunsAfterDestroy`, `DestructorReturns` | No buffer is submitted while the decode thread still writes `m_pcm_data`, and a failed decode leaves the player stopped and silent, under all five game calls and the destructor, a decode that is short (1 of 2 frames) or fails, and one engine destroy/create cycle. The destructor always returns: the join waits for `decodeAll`, and `DestroyVoice` under `m_voice_mutex` waits for an `OnStreamEnd` that takes no lock. Once it has returned, no thread steps on the freed player. Mutants: no join; an `OnStreamEnd` that locks `m_voice_mutex`, which deadlocks against `DestroyVoice`. |
| `audio_decode_race` | violation | `SilentUnlessPlaying` | `stop()` between `decodeAll`'s unlocked load of `m_state` and its locked start: the voice plays while the player reports stopped. |
| `pmd_switching` | pass | `TypeOK`, `IndependentStreams` | Two PMD decoders, each opened once, read and seek in any interleaving on the one engine. Each behaves as its own stream (`PMDStream`): `ensureActive` reloads the right song at the right frame whenever the other decoder used the engine. |
| `pmd_lifecycle` | pass | `IndependentStreams` | One decoder opened, opened again, read, seeked and destroyed, with `music_load` failures, is a stream that restarts at frame 0 on each successful open. |
| `reader_threads` | pass | `TypeOK`, `ReadsGetOwnEntry`, `CallsReturn` | Two threads mixing `readFile`, the queries, `createEnumerator` and enumerator reads, each dropping its own enumerator. No read returns another entry's bytes, and every call returns. |
| `pmd_cross_stop` | violation | `IndependentStreams` | Destroying a decoder that is not the active one stops the active decoder's song, which then reads silence. |

The following configurations are kept beside the runs. Each reproduces a further counterexample with `tlc -config <cfg> <MC module>`. `PROJECT.json` records them as hazards, and the findings below describe them.

| Configuration | Property violated | Trace |
|---|---|---|
| `MCDATArchive_cross_build.cfg` | `RoundTrip` | Writer with 4-byte `wchar_t`, reader with 2-byte: the archive does not read back. |
| `MCDATArchive_offset_wrap.cfg` | `RoundTrip` | Two 256-byte files put the directory at byte 536 of a 512-byte offset space. `headerOffset` is stored as 24, `encryptArchive` copies 40 bytes of file data from there over the first file, `create()` returns true, and `open()` fails on the directory. |
| `MCDATArchive_unparsable_directory.cfg` | `UnparsableDirectoryRejected` | `open()` returns true with an empty index when no record parses. |
| `MCAudioPlayer_stream_end_race.cfg` | `SilentUnlessPlaying` | play, the buffer ends, play again, then the late `OnStreamEnd` stores stopped while the new buffer plays. |
| `MCAudioPlayer_resume_silent.cfg` | `PlaybackStarts` | play, pause before the decode finishes, `decodeAll` skips the start, resume: playing forever with no buffer. |
| `MCAudioPlayer_engine_recreate.cfg` | `PlaybackStarts` | Engine destroyed, play, engine created: the new voice is never started. |
| `MCAudioPlayer_short_decode.cfg` | `SubmittedRangeInBounds` | The decoder delivers 1 of 2 announced frames, `play(2)` passes the stale check, and `PlayLength` wraps around 2^32. |
| `MCArchiveReaderLock_handoff_race.cfg` | `ReadsGetOwnEntry` | Under `SharedSpec`: t1 creates an enumerator and hands it to t2. t2's enumerator read seeks `m_file` without the lock while t1's `readFile` (t1 owns `m_mutex`) seeks in between, so one of them gets the other's bytes. |
| `MCArchiveReaderLock_handoff_stranded.cfg` | `CallsReturn` | Under `SharedSpec`: t1 holds `m_mutex` through an enumerator and hands it to t2, which is waiting in `createEnumerator`. Nobody can drop the enumerator, so t2 waits forever. |
| `MCPMDDecoder_load_failure.cfg` | `IndependentStreams` | The second decoder's `open()` resets the engine and fails to load; the first decoder, still active, reads silence. |
| `MCPMDDecoder_seek_rounding.cfg` | `IndependentStreams` | With 2 frames per millisecond, `seek(1)` restarts the engine at frame 0 and the next read repeats frame 0. |

Each property of a passing run has a mutant in `PROJECT.json`: a plausible code bug that TLC finds under that run's own configuration. Examples:
- the directory keystream restarted instead of continued;
- the record loop stopping one record early;
- the CRC comparison dropped;
- the per-file decryption left out;
- the base passed by value;
- FNV-1 order instead of FNV-1a;
- `m_decode_ready` already set when the player is created;
- a failed decode that leaves `m_state` alone;
- `decodeAll` skipping its check of `m_state`;
- `seek` without the clamp to `m_total_samples`;
- `ensureActive` trusting `m_initialized` and never reloading;
- `shutdownEngine` keeping `m_current_frame`;
- the destructor not joining the decode thread;
- `OnStreamEnd` taking `m_voice_mutex`.

### Findings

Findings shown by a run:

1. **`create()` reports success after I/O errors** (lines 552, 612, 641, 648-649 and `encryptArchive`). This contradicts spec §4.4's failure model. Run `io_failure_success`.
2. **`zlibInflate` never returns on empty, truncated or damaged input that ends before the stream does** (line 58). Combined with finding 1, `open()` of an archive that `create()` reported as written hangs. Run `io_failure_hang`.
3. **`decodeAll` starts a voice the game has stopped** (`AudioPlayerXAudio2.cpp` 313). It loads `m_state` without `m_voice_mutex`, then locks and starts playback without looking again. Run `audio_decode_race`.
4. **Destroying one PMD decoder stops another's music** (`AudioDecoderPMD.cpp` 107). `shutdownEngine` calls `music_stop()` on the shared engine whenever this decoder was initialised, even if another decoder is `s_active_decoder`. The same happens when an initialised decoder is opened again. Run `pmd_cross_stop`.

Further counterexamples, reproduced by the configurations in the table above:

5. **The record layout depends on `sizeof(wchar_t)`** (lines 97, 121-124). Spec §3 says UTF-16, so archives are not portable between MSVC and Linux builds.
6. **`open()` accepts a directory none of whose records parses** (line 275). Spec §7 calls this DirectoryCorrupt.
7. **A late `OnStreamEnd` marks a playing player stopped** (`AudioPlayerXAudio2.cpp` 136). The store is made without the lock and without knowing which buffer ended.
8. **`resume()` after a pause made during the decode is silent forever** (`AudioPlayerXAudio2.cpp` 61). `resume()` only calls `Start()` and never submits a buffer.
9. **After an audio engine restart a playing player stays silent** (`AudioPlayerXAudio2.cpp` 146). `onAudioEngineCreate` creates the voice and neither submits nor starts it.
10. **`play()` checks the previous `m_start_time`** (`AudioPlayerXAudio2.cpp` 19). A start past the decoded frames makes `PlayLength` wrap in `uint32_t` (line 271).
11. **A failed `music_load` leaves the engine reset under another active decoder** (`AudioDecoderPMD.cpp` 59-79).
12. **Positions are restored in whole milliseconds** (`AudioDecoderPMD.cpp` 152). After a seek, or a reload in `ensureActive`, the engine is up to 1 ms behind `m_current_frame`.
13. **`create()` writes archives past 4 GiB without complaint** (lines 586, 644). `offsetPos` and `headerOffset` are `static_cast<uint32_t>(tellp())`. Past 2^32 they wrap, `encryptArchive` seeks to the wrapped offsets and overwrites earlier data, and `create()` still returns true. Spec §3 fixes these fields at 32 bits, but neither the spec nor the code rejects a larger archive.

## 4. Plan

The modules are being written in this order, most important behaviour first:

1. **Done: `DATArchive` core.** Writer, reader, I/O failures, damage.
2. **Done: cipher checks** (`MCArchiveCipher`).
3. **Done: `AudioPlayer`.** The decode thread against the game's calls under `m_voice_mutex`, the `OnStreamEnd` callback, and engine restarts.
4. **Done: `PMDDecoder`,** refining `PMDStream`.
5. **Done: reader concurrency** (`ArchiveReaderLock`).
6. **Legacy and corrupt archives.** Done: 32-bit offset wrap. Open: a v1 fixture read by MSVC and non-MSVC builds (needs the MSVC legacy hash, which is not in the source), and a compressionType outside {0, 1} (needs a foreign writer).
7. **`DiscordRPC`: dropped.** Its callers are not in the repository (section 5).
8. **An abstract player state machine refined by `AudioPlayer`.** It is only worth writing once the findings above are settled, because the code does not implement one today.

## 5. Not modelled, and why

- **Lua binding.** Argument marshalling only.
- **Reader query results** (`hasNode`, `getNodeType`, `hasFile`, `getFileSize`, `hasDirectory`). Their locking is modelled in `ArchiveReaderLock`; their results are lookups.
- **`open()` on an archive already shared.** `createFromFile` opens a fresh object before returning it, so `ArchiveReaderLock` starts from an opened archive.
- **`readOffset`, progress and status callbacks, log messages.** No property is about them.
- **Real byte contents, zlib's algorithm, CRC-32 arithmetic.** Abstracted to block identities: a CRC mismatch happens exactly when the bytes differ.
- **Source files of 4 GiB or more.** `fileSize` is cast to `uint32_t` (line 573), so only a prefix would be read. Every `Sizes` value is below `OffsetLimit`; the wrap of archive offsets is modelled.
- **Discord RPC and its Lua binding.** `Init`, `RunCallbacks` and `Shutdown` set and test one flag, and the binding forwards Lua tables to the library. No code in this repository calls `Init`, `RunCallbacks`, `Shutdown` or `Register`, so the order of calls depends on code that is not here. The wrapper is sequential with no shared state, and no property about it needs a model checker.
- **Audio: `setVolume`, `setBalance`, `setSpeed`.** They forward a number to the voice and change no state a property is about.
- **Audio: `getTime`, `getTotalTime` and the FFT calls.** They are `assert(false)` stubs. `OnVoiceError` only logs.
- **Audio: `joinDecodeThread`'s detach branch.** Only a destructor run on the decode thread itself reaches it, and `decodeAll` never drops the last reference.
- **Audio: HRESULT failures other than `CreateSourceVoice` and `SubmitSourceBuffer`.** A failed `Start`, `Stop` or `FlushSourceBuffers` only makes the call return false, after `m_state` has been stored. These XAudio2 calls on a valid voice are not expected to fail.
- **PMD: `tell`, `tellAsTime`, `seekByTime`.** They only read `m_current_frame`, or convert to `seek`; no state changes.
- **PMD: `isPMDFile`'s byte test.** The model assumes the data were accepted.
- **Audio: the member defaults of `AudioPlayerXAudio2.hpp`.** That header is not in the repository. The model assumes `m_state` starts stopped, `m_start_time` 0 and `m_loop` false, as the code's use of them implies.
