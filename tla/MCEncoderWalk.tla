--------------------------- MODULE MCEncoderWalk ---------------------------
(***************************************************************************)
(* EncoderTree for TLC.  The heaps share containers, nest them in tuples,  *)
(* and go in circles.                                                      *)
(***************************************************************************)
EXTENDS EncoderTree

CONSTANTS l1, l2, d1, t1

Contents(a, b, c, d) ==
    [o \in Containers |-> CASE o = l1 -> a [] o = l2 -> b [] o = d1 -> c [] o = t1 -> d]

\* Without a circle: containers met twice, a list inside that is empty to begin
\* with, and two orders in which two roots reach the same lists.  With one: of a
\* list in itself, and through a tuple and from two sides.
Nested  == Contents(<<t1, t1>>,   <<>>,         <<l1, l2>>, <<l2>>)
Self    == Contents(<<Leaf, l1>>, <<d1>>,       <<t1>>,     <<l2>>)
Crossed == Contents(<<l2>>,       <<l1>>,       <<Leaf, l2>>, <<l1, l2>>)

MCHeaps == {Nested, Self, Crossed}
=============================================================================
