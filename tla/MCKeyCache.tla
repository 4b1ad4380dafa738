----------------------------- MODULE MCKeyCache -----------------------------
(***************************************************************************)
(* Four keys for the cache: two with the same bytes and different kinds,   *)
(* one that has their slot, one that is too long.                          *)
(***************************************************************************)
EXTENDS KeyCache, TLC

CONSTANTS A, B, G, NoObject, t1, t2, o1, o2, o3

MCThreads == {t1, t2}
MCObjects == {o1, o2, o3}

\* "AA" as ASCII, the UCS-2 character of the same bytes, "AB", and three bytes.
MCKeys == {[kind |-> 0, bytes |-> <<A, A>>], [kind |-> 2, bytes |-> <<A, A>>],
           [kind |-> 0, bytes |-> <<A, B>>], [kind |-> 0, bytes |-> <<A, A, A>>]}

MCSlots == {0, 1}
MCSlotOf == [b \in {k.bytes : k \in MCKeys} |-> IF Len(b) = 3 THEN 1 ELSE 0]

ObjectSymmetry == Permutations(MCObjects) \cup Permutations(MCThreads)
=============================================================================
