------------------------- MODULE MCDecoderContexts -------------------------
(***************************************************************************)
(* DecoderContexts for TLC.                                                *)
(***************************************************************************)
EXTENDS DecoderContexts, TLC

NodeSymmetry == Permutations(Nodes) \cup Permutations(Threads)
=============================================================================
