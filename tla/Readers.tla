------------------------------ MODULE Readers ------------------------------
(***************************************************************************)
(* What brings the characters of a scalar document into place: the string  *)
(* or number as a whole, the UTF-8 of a string in blocks, the copies, and  *)
(* the vectors that a str is read by in each build.  A string does its     *)
(* blocks and copies one after the other, each from the state that the one *)
(* before it left, so that one at a time is looked at.                     *)
(***************************************************************************)
EXTENDS ScalarDocument, Utf8Blocks, LongCopies, StrVectors

\* What the others start from.
NoScalar ==
    /\ source = CHOOSE s \in Sources : TRUE
    /\ len = CHOOSE n \in Lengths : TRUE
    /\ Init

ReadersInit ==
    \/ Init /\ NoBlocks /\ NoCopy /\ NoReading
    \/ NoScalar /\ BlocksInit /\ NoCopy /\ NoReading
    \/ NoScalar /\ NoBlocks /\ CopyInit /\ NoReading
    \/ NoScalar /\ NoBlocks /\ NoCopy /\ StrInit

ReadersNext ==
    \/ /\ utf8.status = "none" /\ copy.state = "none" /\ reading.state = "none" /\ Next
       /\ UNCHANGED <<blockVars, copyVars, strVars>>
    \/ DecodeBlocks /\ UNCHANGED <<vars, copyVars, strVars>>
    \/ CopyNext /\ UNCHANGED <<vars, blockVars, strVars>>
    \/ StrNext /\ UNCHANGED <<vars, blockVars, copyVars>>

ReadersSpec == ReadersInit /\ [][ReadersNext]_<<vars, blockVars, copyVars, strVars>>

-----------------------------------------------------------------------------
\* What is stored and loaded stays inside: the characters of a string in the buffer
\* that is reserved for it, the vectors of its blocks in the document and the room
\* behind it, those of a str in the str, and what is taken for aligned is aligned.
ReadsInside == StoresInside /\ BlocksInside /\ CopiesAreAligned /\ StrLoadsInside
=============================================================================
