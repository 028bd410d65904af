---------------------------- MODULE MCPMDDecoder ----------------------------
(***************************************************************************)
(* Instantiates PMDDecoder for TLC.  Decoders are interchangeable model   *)
(* values, so their permutations are a symmetry of every safety property  *)
(* checked here (songs are named by their decoder).                       *)
(***************************************************************************)
EXTENDS PMDDecoder, TLC

DecoderSymmetry == Permutations(Decoders)

=============================================================================
