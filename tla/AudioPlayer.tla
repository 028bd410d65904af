------------------------------ MODULE AudioPlayer ------------------------------
(***************************************************************************)
(* AudioPlayerXAudio2 (src/engine/audio/backend/AudioPlayerXAudio2.cpp):  *)
(* one sound player and the four threads that touch it:                   *)
(*   - the game thread calling play/pause/resume/stop/setLoop, and the    *)
(*     audio engine's destroy/create events, all under m_voice_mutex;     *)
(*   - the decode thread decodeAll of a music player;                     *)
(*   - the XAudio2 processing thread, which plays the submitted buffer    *)
(*     and calls OnStreamEnd without taking m_voice_mutex.                 *)
(* Time is counted in PCM frames (a sample rate of 1), so the double      *)
(* conversions to uint32_t samples are exact.                             *)
(***************************************************************************)
EXTENDS Naturals

CONSTANTS
    FrameCount,         \* decoder->getFrameCount()
    DecodedCounts,      \* frames_read values decoder->read may deliver
    DecodeCanFail,      \* whether decoder->read may return false
    Music,              \* m_mixing_channel == music: m_async_decode
    Starts,             \* arguments of play(seconds)
    LoopRanges,         \* (start_pos, length) arguments of setLoop
    Calls,              \* the IAudioPlayer calls the game makes
    MaxEngineRestarts,  \* bound on audio engine destroy/create cycles
    NULL, NONE

VARIABLES
    state,       \* m_state (atomic)
    startTime,   \* m_start_time
    total,       \* m_total_frame (and m_total_seconds, equal at rate 1)
    ready,       \* m_decode_ready (atomic)
    failed,      \* m_decode_failed (atomic)
    loop,        \* m_loop, m_loop_start, m_loop_length
    voice,       \* m_voice: NULL or [started, buf] of the XAudio2 source voice
    endPending,  \* the XAudio2 thread is inside OnStreamEnd, before its store
    dpc,         \* where decodeAll is: "read", "check", "start", "done"; "none" if synchronous
    engine,      \* the audio engine: "up" or "down"
    restarts,    \* engine destroy events so far
    life         \* "alive"; in ~AudioPlayerXAudio2 "joining", then "destroying"
                 \* (inside destroy()); "gone" once it has returned

vars == <<state, startTime, total, ready, failed, loop, voice, endPending, dpc, engine, restarts, life>>

States == {"stopped", "playing", "paused"}

\* A freshly created source voice: stopped, with an empty buffer queue.
NewVoice == [started |-> FALSE, buf |-> NONE]

\* create(): CreateSourceVoice and the volume, frequency ratio and output
\* matrix set-up.  A missing direct channel or a failed CreateSourceVoice
\* leaves m_voice null; a later failure leaves the voice created.
CreateVoice == {NULL, NewVoice}

\* uint32_t a - b for a, b < 2^16, as two 16-bit limbs (b > a wraps).
U32Sub(a, b) == [hi |-> IF a >= b THEN 0 ELSE 65535, lo |-> (a - b) % 65536]

\* The XAUDIO2_BUFFER submitBufferLocked builds for a start at frame s: the
\* whole m_pcm_data (total frames), PlayBegin s, PlayLength total - s in
\* uint32_t, and an infinite loop when m_loop is set.
Buffer(s) == [begin |-> s, len |-> U32Sub(total, s), loop |-> loop.on, frames |-> total]

\* Whether SubmitSourceBuffer accepts a buffer.  A play region inside the
\* buffer is accepted; for any other XAudio2 may return an error or not.
SubmitOutcomes(b) ==
    IF b.len.hi = 0 /\ b.begin < b.frames THEN {TRUE} ELSE BOOLEAN

\* startPlaybackLocked from a start at frame s: Stop, FlushSourceBuffers,
\* submitBufferLocked (which submits nothing before the decode is ready),
\* then Start; a rejected submission returns before Start.
StartPlayback(v, s) ==
    IF v = NULL THEN {NULL}
    ELSE IF ~ready THEN {[started |-> TRUE, buf |-> NONE]}
    ELSE {IF ok THEN [started |-> TRUE, buf |-> Buffer(s)]
                ELSE [started |-> FALSE, buf |-> NONE] : ok \in SubmitOutcomes(Buffer(s))}

\* Mutant: create() leaves m_decode_ready as it was instead of clearing it
\* for an asynchronous decode.
InitReadyStale ==
    /\ life = "alive"
    /\ state = "stopped"
    /\ startTime = 0
    /\ failed = FALSE
    /\ loop = [on |-> FALSE, start |-> 0, length |-> 0]
    /\ voice \in CreateVoice
    /\ endPending = FALSE
    /\ engine = "up"
    /\ restarts = 0
    /\ ready \in BOOLEAN
    /\ IF Music THEN total = FrameCount /\ dpc = "read"
                ELSE total \in DecodedCounts /\ dpc = "none"

\* create(parent, mixing_channel, decoder) having returned true.  A sound
\* effect is decoded in full first (a failed read makes create fail, so no
\* player exists); music is decoded later by decodeAll.
Init ==
    /\ life = "alive"
    /\ state = "stopped"
    /\ startTime = 0
    /\ failed = FALSE
    /\ loop = [on |-> FALSE, start |-> 0, length |-> 0]
    /\ voice \in CreateVoice
    /\ endPending = FALSE
    /\ engine = "up"
    /\ restarts = 0
    /\ IF Music THEN total = FrameCount /\ ready = FALSE /\ dpc = "read"
                ELSE total \in DecodedCounts /\ ready = TRUE /\ dpc = "none"

-----------------------------------------------------------------------------
(* The game thread: IAudioPlayer calls, each holding m_voice_mutex.       *)

\* play(seconds).  The end-of-data check compares the previous
\* m_start_time, not seconds, with m_total_frame.
Play(s) ==
    /\ "play" \in Calls
    /\ ~failed
    /\ LET clamp == startTime > total
           start == IF clamp THEN total ELSE s
       IN  /\ startTime' = start
           /\ IF clamp /\ ~loop.on
                THEN /\ state' = "stopped"
                     /\ UNCHANGED voice
                ELSE /\ state' = "playing"
                     /\ IF voice # NULL /\ ready
                          THEN voice' \in StartPlayback(voice, start)
                          ELSE UNCHANGED voice
    /\ UNCHANGED <<total, ready, failed, loop, endPending, dpc, engine, restarts, life>>

\* pause(): only from playing; Stop keeps the queued buffer.
Pause ==
    /\ "pause" \in Calls
    /\ state = "playing"
    /\ state' = "paused"
    /\ voice' = IF voice = NULL THEN NULL ELSE [voice EXCEPT !.started = FALSE]
    /\ UNCHANGED <<startTime, total, ready, failed, loop, endPending, dpc, engine, restarts, life>>

\* resume(): only from paused; Start once the decode is ready, without
\* submitting a buffer.
Resume ==
    /\ "resume" \in Calls
    /\ state = "paused"
    /\ state' = "playing"
    /\ voice' = IF voice # NULL /\ ready THEN [voice EXCEPT !.started = TRUE] ELSE voice
    /\ UNCHANGED <<startTime, total, ready, failed, loop, endPending, dpc, engine, restarts, life>>

\* stop(): Stop and FlushSourceBuffers.
Stop ==
    /\ "stop" \in Calls
    /\ state' = "stopped"
    /\ voice' = IF voice = NULL THEN NULL ELSE NewVoice
    /\ UNCHANGED <<startTime, total, ready, failed, loop, endPending, dpc, engine, restarts, life>>

\* setLoop(enable, start_pos, length): stored for the next submission.
SetLoop(on, r) ==
    /\ "setLoop" \in Calls
    /\ loop' = [on |-> on, start |-> r[1], length |-> r[2]]
    /\ UNCHANGED <<state, startTime, total, ready, failed, voice, endPending, dpc, engine, restarts, life>>

-----------------------------------------------------------------------------
(* The decode thread decodeAll (music only).                              *)

\* Mutant: the failure branch returns without storing stopped.
DecodeFinishKeepsState ==
    /\ dpc = "read"
    /\ \/ /\ DecodeCanFail
          /\ failed' = TRUE
          /\ dpc' = "done"
          /\ UNCHANGED <<total, ready, state>>
       \/ \E n \in DecodedCounts :
          /\ total' = n
          /\ ready' = TRUE
          /\ dpc' = "check"
          /\ UNCHANGED <<failed, state>>
    /\ UNCHANGED <<startTime, loop, voice, endPending, engine, restarts, life>>

\* decoder->read of the whole stream, outside the lock, then the locked
\* block: on failure mark the decode failed and the player stopped;
\* otherwise publish the frames actually read and m_decode_ready.
DecodeFinish ==
    /\ dpc = "read"
    /\ \/ /\ DecodeCanFail
          /\ failed' = TRUE
          /\ state' = "stopped"
          /\ dpc' = "done"
          /\ UNCHANGED <<total, ready>>
       \/ \E n \in DecodedCounts :
          /\ total' = n
          /\ ready' = TRUE
          /\ dpc' = "check"
          /\ UNCHANGED <<failed, state>>
    /\ UNCHANGED <<startTime, loop, voice, endPending, engine, restarts, life>>

\* Mutant: decodeAll ends after publishing the frames, never starting a
\* playback that play() deferred to it.
DecodeCheckSkipped ==
    /\ dpc = "check"
    /\ dpc' = "done"
    /\ UNCHANGED <<state, startTime, total, ready, failed, loop, voice, endPending, engine, restarts, life>>

\* The load of m_state, after the lock is released.
DecodeCheck ==
    /\ dpc = "check"
    /\ dpc' = IF state = "playing" THEN "start" ELSE "done"
    /\ UNCHANGED <<state, startTime, total, ready, failed, loop, voice, endPending, engine, restarts, life>>

\* Lock again and start playback if there is a voice, whatever m_state
\* has become since the load.
DecodeStart ==
    /\ dpc = "start"
    /\ voice' \in StartPlayback(voice, startTime)
    /\ dpc' = "done"
    /\ UNCHANGED <<state, startTime, total, ready, failed, loop, endPending, engine, restarts, life>>

-----------------------------------------------------------------------------
(* The XAudio2 processing thread and the audio engine.                    *)

\* A started voice plays its END_OF_STREAM buffer to the end (a buffer
\* with an infinite loop never ends) and calls OnStreamEnd.
StreamEnds ==
    /\ voice # NULL
    /\ voice.started
    /\ voice.buf # NONE
    /\ ~voice.buf.loop
    /\ ~endPending
    /\ voice' = [voice EXCEPT !.buf = NONE]
    /\ endPending' = TRUE
    /\ UNCHANGED <<state, startTime, total, ready, failed, loop, dpc, engine, restarts, life>>

\* Mutant: OnStreamEnd takes m_voice_mutex for its store, so it cannot
\* run while destroy() holds the lock.
OnStreamEndLocked ==
    /\ endPending
    /\ life # "destroying"
    /\ state' = "stopped"
    /\ endPending' = FALSE
    /\ UNCHANGED <<startTime, total, ready, failed, loop, voice, dpc, engine, restarts, life>>

\* OnStreamEnd: store stopped, without m_voice_mutex.
OnStreamEnd ==
    /\ endPending
    /\ state' = "stopped"
    /\ endPending' = FALSE
    /\ UNCHANGED <<startTime, total, ready, failed, loop, voice, dpc, engine, restarts, life>>

\* onAudioEngineDestroy -> destroy(): DestroyVoice under the lock; it
\* returns once the XAudio2 thread has left its callbacks.
EngineDestroy ==
    /\ engine = "up"
    /\ restarts < MaxEngineRestarts
    /\ ~endPending
    /\ voice' = NULL
    /\ engine' = "down"
    /\ restarts' = restarts + 1
    /\ UNCHANGED <<state, startTime, total, ready, failed, loop, endPending, dpc, life>>

\* onAudioEngineCreate: create() under the lock.  Nothing is submitted or
\* started, whatever m_state is.
EngineCreate ==
    /\ engine = "down"
    /\ voice' \in CreateVoice
    /\ engine' = "up"
    /\ UNCHANGED <<state, startTime, total, ready, failed, loop, endPending, dpc, restarts, life>>

-----------------------------------------------------------------------------
(* The destructor, on the game thread.                                    *)

\* ~AudioPlayerXAudio2 is entered; it starts with joinDecodeThread.
DestructBegin ==
    /\ "destroy" \in Calls
    /\ life' = "joining"
    /\ UNCHANGED <<state, startTime, total, ready, failed, loop, voice, endPending, dpc, engine, restarts>>

\* joinDecodeThread returns at once for a player without a decode thread
\* (not joinable) and otherwise once decodeAll has returned.
Joined == dpc \in {"none", "done"}

\* Mutant: the destructor does not join the decode thread.
DestructEndNoJoin ==
    /\ life = "joining"
    /\ life' = "destroying"
    /\ UNCHANGED <<state, startTime, total, ready, failed, loop, voice, endPending, dpc, engine, restarts>>

\* After the join: removeEventListener, then destroy() takes m_voice_mutex
\* and calls DestroyVoice.
DestructEnd ==
    /\ life = "joining"
    /\ Joined
    /\ life' = "destroying"
    /\ UNCHANGED <<state, startTime, total, ready, failed, loop, voice, endPending, dpc, engine, restarts>>

\* DestroyVoice returns once the XAudio2 thread has left its callbacks;
\* m_voice is nulled, the lock released and the player freed.
DestroyVoiceReturns ==
    /\ life = "destroying"
    /\ ~endPending
    /\ voice' = NULL
    /\ life' = "gone"
    /\ UNCHANGED <<state, startTime, total, ready, failed, loop, endPending, dpc, engine, restarts>>

-----------------------------------------------------------------------------
DecodeThread == DecodeFinish \/ DecodeCheck \/ DecodeStart

\* The game calls a player it has not begun to destroy, and the audio engine
\* notifies it until the destructor removes it from the listeners.
Next ==
    \/ life = "alive" /\ \E s \in Starts : Play(s)
    \/ life = "alive" /\ Pause
    \/ life = "alive" /\ Resume
    \/ life = "alive" /\ Stop
    \/ life = "alive" /\ \E on \in BOOLEAN, r \in LoopRanges : SetLoop(on, r)
    \/ life = "alive" /\ DestructBegin
    \/ DestructEnd
    \/ DestroyVoiceReturns
    \/ DecodeThread
    \/ StreamEnds
    \/ OnStreamEnd
    \/ life \in {"alive", "joining"} /\ EngineDestroy
    \/ life \in {"alive", "joining"} /\ EngineCreate

\* The decode thread runs to its end once started, and XAudio2 keeps
\* consuming a started voice's buffer and runs a callback it has entered.
\* The game's calls and the engine's events are not assumed to happen; a
\* destructor once entered runs on.
Fairness ==
    /\ WF_vars(DecodeThread)
    /\ WF_vars(DestructEnd)
    /\ WF_vars(DestroyVoiceReturns)
    /\ WF_vars(StreamEnds)
    /\ WF_vars(OnStreamEnd)

Spec == Init /\ [][Next]_vars /\ Fairness

-----------------------------------------------------------------------------
(* Properties                                                              *)

\* The voice is producing sound: started, with a buffer queued.
Audible == voice # NULL /\ voice.started /\ voice.buf # NONE

TypeOK ==
    /\ state \in States
    /\ startTime \in Nat /\ total \in Nat
    /\ ready \in BOOLEAN /\ failed \in BOOLEAN /\ endPending \in BOOLEAN
    /\ loop \in [on : BOOLEAN, start : Nat, length : Nat]
    /\ voice = NULL \/ voice \in [started : BOOLEAN, buf : {NONE} \cup
            [begin : Nat, len : [hi : 0..65535, lo : 0..65535], loop : BOOLEAN, frames : Nat]]
    /\ dpc \in {"none", "read", "check", "start", "done"}
    /\ engine \in {"up", "down"}
    /\ restarts \in 0..MaxEngineRestarts
    /\ life \in {"alive", "joining", "destroying", "gone"}

\* What stop() and pause() promise, and what getState() reports: the voice
\* makes sound only while m_state is playing, whatever the decode thread
\* and the OnStreamEnd callback do around those calls.
SilentUnlessPlaying == Audible => state = "playing"

\* m_pcm_data is never handed to XAudio2 while decodeAll may still be
\* writing into it, and a queued buffer covers exactly the decoded frames.
PcmNotSharedWhileDecoding ==
    voice # NULL /\ voice.buf # NONE => dpc # "read" /\ voice.buf.frames = total

\* Once decodeAll has failed the player is stopped and silent for good:
\* play() refuses, and pause() and resume() have no state to act on.
FailedPlayerStaysStopped == failed => state = "stopped" /\ ~Audible

\* submitBufferLocked never computes a PlayLength that wraps below zero:
\* the start it plays from lies within the decoded frames.
SubmittedRangeInBounds == voice # NULL /\ voice.buf # NONE => voice.buf.len.hi = 0

\* A player in the playing state with a voice eventually makes sound (or
\* leaves the playing state): play() before, during or after the decode
\* is never lost between play() and decodeAll.
PlaybackStarts == (state = "playing" /\ voice # NULL) ~> (Audible \/ state # "playing")


\* Once ~AudioPlayerXAudio2 has returned and the player is freed, no thread
\* of it takes another step: decodeAll has been joined, XAudio2 has left
\* OnStreamEnd and holds no voice of it, and the engine no longer calls it.
NothingRunsAfterDestroy == [][life = "gone" => UNCHANGED vars]_vars

\* ~AudioPlayerXAudio2 returns: the join ends because decodeAll runs to its
\* end, and DestroyVoice, called under m_voice_mutex, returns because
\* OnStreamEnd finishes without taking that lock.
DestructorReturns == life = "joining" ~> life = "gone"

=============================================================================
