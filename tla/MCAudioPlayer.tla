---------------------------- MODULE MCAudioPlayer ----------------------------
(***************************************************************************)
(* Instantiates AudioPlayer for TLC: a stream of two frames, so a start   *)
(* can lie at the beginning, inside, at the end or past the decoded data. *)
(***************************************************************************)
EXTENDS AudioPlayer

\* setLoop(true, 0, 2): the whole stream, the range the game passes for a
\* looping BGM; setLoop(false, ...) switches looping off.
MCLoopRanges == {<<0, 2>>}

=============================================================================
