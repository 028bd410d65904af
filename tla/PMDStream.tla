------------------------------- MODULE PMDStream -------------------------------
(***************************************************************************)
(* What an IAudioDecoder promises each of its users: every decoder is an  *)
(* independent PCM stream of its own song with its own position.  open    *)
(* starts it at frame 0, read returns the next frames of that song, seek  *)
(* moves the position, and closing ends the stream.  Any call may fail    *)
(* without effect.  AudioDecoderPMD implements this on one shared engine  *)
(* (module PMDDecoder).                                                    *)
(***************************************************************************)
EXTENDS Naturals

CONSTANTS Decoders, SongFrames, ReadSizes, SeekTargets, NONE

VARIABLES opened, pos, heard   \* heard[d]: the frames the last read of d returned

svars == <<opened, pos, heard>>

\* n frames of the song of decoder s starting at frame p (s = NONE: silence).
Chunk(s, p, n) == [song |-> s, from |-> p, n |-> n]

Least(a, b) == IF a < b THEN a ELSE b

Init ==
    /\ opened = [d \in Decoders |-> FALSE]
    /\ pos = [d \in Decoders |-> 0]
    /\ heard = [d \in Decoders |-> NONE]

Close(d) ==
    /\ opened' = [opened EXCEPT ![d] = FALSE]
    /\ pos' = [pos EXCEPT ![d] = 0]
    /\ UNCHANGED heard

Open(d) ==
    /\ ~opened[d]
    /\ opened' \in {[opened EXCEPT ![d] = ok] : ok \in BOOLEAN}
    /\ UNCHANGED <<pos, heard>>

Read(d) ==
    /\ opened[d]
    /\ \E n \in ReadSizes :
         LET k == Least(n, SongFrames - pos[d])
         IN  /\ k > 0
             /\ heard' = [heard EXCEPT ![d] = Chunk(d, pos[d], k)]
             /\ pos' = [pos EXCEPT ![d] = @ + k]
    /\ UNCHANGED opened

Seek(d) ==
    /\ opened[d]
    /\ \E f \in SeekTargets : pos' = [pos EXCEPT ![d] = Least(f, SongFrames)]
    /\ UNCHANGED <<opened, heard>>

Next == \E d \in Decoders : Close(d) \/ Open(d) \/ Read(d) \/ Seek(d)

Spec == Init /\ [][Next]_svars

=============================================================================
