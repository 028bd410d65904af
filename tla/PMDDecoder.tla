------------------------------ MODULE PMDDecoder ------------------------------
(***************************************************************************)
(* AudioDecoderPMD (src/engine/audio/backend/AudioDecoderPMD.{hpp,cpp}):  *)
(* several decoder objects share the process-wide PMDWin engine, one song *)
(* loaded at a time.  s_active_decoder names the decoder whose song the   *)
(* engine holds; ensureActive reloads a decoder's song and restores its   *)
(* position when another decoder was active.  Every engine call runs      *)
(* under the recursive s_pmd_mutex, so each locked function is one step;  *)
(* open() takes the lock twice (shutdownEngine, then initializeEngine)    *)
(* and is two steps.  Each decoder is driven by one thread.               *)
(***************************************************************************)
EXTENDS Naturals

CONSTANTS
    Decoders,      \* decoder objects (model values)
    SongFrames,    \* m_total_samples of every song (getlength, in frames)
    FramesPerMs,   \* output frames per millisecond, the unit of setpos
    ReadSizes,     \* pcm_frame arguments of read
    SeekTargets,   \* pcm_frame arguments of seek
    LoadCanFail,   \* whether music_load may fail (the file is read from m_path on disk)
    Calls,         \* the calls the users make: "open", "reopen" (open on an opened
                   \* decoder), "read", "seek", "destroy"
    NONE

VARIABLES
    engine,      \* the PMDWin engine: [song loaded, running, pos (frames)]
    active,      \* s_active_decoder
    init,        \* m_initialized
    cur,         \* m_current_frame
    total,       \* m_total_samples
    pc,          \* per decoder: "new", "idle", "opening" (inside open), "gone"
    heard        \* per decoder: the frames its last read returned (history)

vars == <<engine, active, init, cur, total, pc, heard>>

Least(a, b) == IF a < b THEN a ELSE b

NoSong == [song |-> NONE, running |-> FALSE, pos |-> 0]

\* setpos(ms) with ms = m_current_frame * 1000 / m_sample_rate truncated:
\* the engine resumes at the millisecond boundary at or below the frame.
SetPos(f) == (f \div FramesPerMs) * FramesPerMs

\* getpcmdata(buffer, k) renders k frames: the loaded song from the engine
\* position while it runs, silence once music_stop has run.
Pcm(e, k) ==
    IF e.running THEN [song |-> e.song, from |-> e.pos, n |-> k]
                 ELSE [song |-> NONE, from |-> 0, n |-> k]

LoadOutcomes == IF LoadCanFail THEN BOOLEAN ELSE {TRUE}

\* initializeEngine for d at frame f: pmdwininit resets the engine, then
\* music_load, music_start and setpos; a failed music_load returns with
\* the engine reset and no song loaded.
Reloaded(d, f, ok) ==
    IF ok THEN [song |-> d, running |-> TRUE, pos |-> SetPos(f)] ELSE NoSong

\* Mutant: shutdownEngine keeps m_current_frame.
ShutdownEngineKeepsFrame(d) ==
    /\ engine' = IF init[d] THEN [engine EXCEPT !.running = FALSE] ELSE engine
    /\ init' = [init EXCEPT ![d] = FALSE]
    /\ active' = IF active = d THEN NONE ELSE active
    /\ UNCHANGED cur
    /\ total' = [total EXCEPT ![d] = 0]

\* shutdownEngine for d: music_stop if d was initialised (whichever song
\* the engine holds), clear s_active_decoder if it is d, zero the frame
\* counters.  Leaves pc and heard to the caller.
ShutdownEngine(d) ==
    /\ engine' = IF init[d] THEN [engine EXCEPT !.running = FALSE] ELSE engine
    /\ init' = [init EXCEPT ![d] = FALSE]
    /\ active' = IF active = d THEN NONE ELSE active
    /\ cur' = [cur EXCEPT ![d] = 0]
    /\ total' = [total EXCEPT ![d] = 0]

Init ==
    /\ engine = NoSong
    /\ active = NONE
    /\ init = [d \in Decoders |-> FALSE]
    /\ cur = [d \in Decoders |-> 0]
    /\ total = [d \in Decoders |-> 0]
    /\ pc = [d \in Decoders |-> "new"]
    /\ heard = [d \in Decoders |-> NONE]

-----------------------------------------------------------------------------
\* open(path, data), first half: isPMDFile accepted the data, then
\* shutdownEngine.  A decoder is opened once after construction, or again.
OpenShutdown(d) ==
    /\ "open" \in Calls
    /\ \/ pc[d] = "new"
       \/ "reopen" \in Calls /\ pc[d] = "idle"
    /\ ShutdownEngine(d)
    /\ pc' = [pc EXCEPT ![d] = "opening"]
    /\ UNCHANGED heard

\* open(), second half: initializeEngine from frame 0.  On success d is
\* initialised and active with the song's length.
OpenInit(d) ==
    /\ pc[d] = "opening"
    /\ \E ok \in LoadOutcomes :
         /\ engine' = Reloaded(d, 0, ok)
         /\ IF ok THEN /\ active' = d
                       /\ init' = [init EXCEPT ![d] = TRUE]
                       /\ total' = [total EXCEPT ![d] = SongFrames]
                  ELSE UNCHANGED <<active, init, total>>
    /\ pc' = [pc EXCEPT ![d] = "idle"]
    /\ UNCHANGED <<cur, heard>>

\* Mutant: ensureActive trusts m_initialized and never reloads the song.
EnsureActiveTrusting(d) == {[ok |-> TRUE, e |-> engine]}

\* ensureActive for an initialised d: nothing if d is s_active_decoder,
\* otherwise initializeEngine at m_current_frame.  The set of outcomes:
\* [ok, e] with the engine e that the rest of the call works on.
EnsureActive(d) ==
    IF active = d THEN {[ok |-> TRUE, e |-> engine]}
    ELSE {[ok |-> ok, e |-> Reloaded(d, cur[d], ok)] : ok \in LoadOutcomes}

\* read(pcm_frame): under the lock; ensureActive, then render the frames
\* left before m_total_samples, at most pcm_frame of them.
Read(d, n) ==
    /\ "read" \in Calls
    /\ pc[d] = "idle"
    /\ init[d]
    /\ \E a \in EnsureActive(d) :
         LET k == Least(n, total[d] - Least(cur[d], total[d]))
         IN  IF ~a.ok
               THEN /\ engine' = a.e
                    /\ UNCHANGED <<active, cur, heard>>
               ELSE /\ active' = d
                    /\ engine' = [a.e EXCEPT !.pos = @ + k]
                    /\ cur' = [cur EXCEPT ![d] = @ + k]
                    /\ heard' = IF k = 0 THEN heard ELSE [heard EXCEPT ![d] = Pcm(a.e, k)]
    /\ UNCHANGED <<init, total, pc>>

\* Mutant: seek stores pcm_frame without clamping it to m_total_samples.
SeekUnclamped(d, f) ==
    /\ "seek" \in Calls
    /\ pc[d] = "idle"
    /\ init[d]
    /\ \E a \in EnsureActive(d) :
         IF ~a.ok
           THEN /\ engine' = a.e
                /\ UNCHANGED <<active, cur>>
           ELSE /\ active' = d
                /\ cur' = [cur EXCEPT ![d] = f]
                /\ engine' = [a.e EXCEPT !.pos = SetPos(f)]
    /\ UNCHANGED <<init, total, pc, heard>>

\* seek(pcm_frame): under the lock, for an initialised decoder (whose
\* m_sample_rate is then non-zero); ensureActive, clamp to the song, setpos.
Seek(d, f) ==
    /\ "seek" \in Calls
    /\ pc[d] = "idle"
    /\ init[d]
    /\ \E a \in EnsureActive(d) :
         IF ~a.ok
           THEN /\ engine' = a.e
                /\ UNCHANGED <<active, cur>>
           ELSE LET g == Least(f, total[d])
                IN  /\ active' = d
                    /\ cur' = [cur EXCEPT ![d] = g]
                    /\ engine' = [a.e EXCEPT !.pos = SetPos(g)]
    /\ UNCHANGED <<init, total, pc, heard>>

\* ~AudioDecoderPMD: shutdownEngine.
Destroy(d) ==
    /\ "destroy" \in Calls
    /\ pc[d] \in {"new", "idle"}
    /\ ShutdownEngine(d)
    /\ pc' = [pc EXCEPT ![d] = "gone"]
    /\ UNCHANGED heard

Next ==
    \E d \in Decoders :
        \/ OpenShutdown(d)
        \/ OpenInit(d)
        \/ \E n \in ReadSizes : Read(d, n)
        \/ \E f \in SeekTargets : Seek(d, f)
        \/ Destroy(d)

Spec == Init /\ [][Next]_vars

-----------------------------------------------------------------------------
(* Properties                                                              *)

TypeOK ==
    /\ engine \in [song : Decoders \cup {NONE}, running : BOOLEAN, pos : Nat]
    /\ active \in Decoders \cup {NONE}
    /\ init \in [Decoders -> BOOLEAN]
    /\ cur \in [Decoders -> 0..SongFrames]
    /\ total \in [Decoders -> {0, SongFrames}]
    /\ pc \in [Decoders -> {"new", "idle", "opening", "gone"}]
    /\ \A d \in Decoders :
         heard[d] = NONE \/ heard[d] \in [song : Decoders \cup {NONE}, from : Nat, n : Nat]

\* Each decoder behaves as its own stream of its own song (PMDStream), no
\* matter how the users of several decoders interleave on the one engine:
\* m_initialized is the stream being open, m_current_frame its position,
\* and every read returns the next frames of the decoder's own song.
Stream == INSTANCE PMDStream WITH opened <- init, pos <- cur

IndependentStreams == Stream!Spec

=============================================================================
