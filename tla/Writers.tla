------------------------------ MODULE Writers ------------------------------
(***************************************************************************)
(* The writers of values: strs as UTF-8 by several threads, an array, the  *)
(* tokens of dumps(), and a str as UTF-8 in every build.  A document that  *)
(* has several writes one after the other, each into room that it reserves *)
(* for itself, so that one kind at a time is looked at here.               *)
(***************************************************************************)
EXTENDS Utf8Cache, NdArray, Appends

\* What every kind starts from when it is not the one written.
NoStr ==
    /\ gil = TRUE
    /\ value \in {[s \in Strs |-> CHOOSE v \in Values : TRUE]}
    /\ NothingWritten

WritersInit ==
    \/ NoStr /\ NoArray /\ NoAppend /\ EncodingInit
    \/ Init /\ NoArray /\ NoAppend /\ NoEncoding
    \/ NoStr /\ ArrayInit /\ NoAppend /\ NoEncoding
    \/ NoStr /\ NoArray /\ AppendInit /\ NoEncoding

\* An array, a token or a str of one of the builds has been written.
WriterEnds ==
    \/ at \in {"returned", "failed"}
    \/ append.state = "written"
    \/ encoding.state = "written"

WritersNext ==
    \/ /\ at = "none" /\ append.state = "none" /\ encoding.state = "none" /\ Next
       /\ UNCHANGED <<arrayVars, appendVars, encodingVars>>
    \/ ArrayNext /\ UNCHANGED <<vars, appendVars, encodingVars>>
    \/ AppendNext /\ UNCHANGED <<vars, arrayVars, encodingVars>>
    \/ EncodingNext /\ UNCHANGED <<vars, arrayVars, appendVars>>
    \/ WriterEnds /\ UNCHANGED <<vars, arrayVars, appendVars, encodingVars>>

WritersSpec == WritersInit /\ [][WritersNext]_<<vars, arrayVars, appendVars, encodingVars>>

-----------------------------------------------------------------------------
\* What is reserved before a value is looked at is enough for all that is stored
\* for it: for an array, computed from its shape alone, for a token, and for a str
\* in every build, whose loads, also those that only a mask is made of, stay in the
\* memory that the str has.
ReservationSuffices == ArrayFits /\ AppendFits /\ EncodedFits

\* What has been written is the value: the array's elements as nested lists, the
\* token's own characters and digits, the str's characters whatever the build.
WrittenIsTheValue == ArrayIsTheLists /\ AppendIsTheToken /\ EncodedIsTheText
=============================================================================
