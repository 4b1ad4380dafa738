--------------------------- MODULE MCEncodeBuffer ---------------------------
(***************************************************************************)
(* EncodeBuffer for TLC: headers of 2 and 4 bytes (40 and 56 in a 64-bit   *)
(* build of Python 3.12), and a buffer that can double twice.              *)
(***************************************************************************)
EXTENDS EncodeBuffer

Doubled == {InitSize, 2 * InitSize, 4 * InitSize}
=============================================================================
