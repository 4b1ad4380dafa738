---------------------------- MODULE EncoderTree ----------------------------
(***************************************************************************)
(* EncoderWalk against the containers as a tree: what the text of a        *)
(* container is, how deep it is and whether it has an end, by what it      *)
(* holds, without paths, locks or sets.                                    *)
(***************************************************************************)
EXTENDS EncoderWalk, SequencesExt

\* The containers in container o.
Inner(h, o) == Range(h[o]) \cap Containers

\* The containers that have no end, because a circle is reached from them: every
\* container of some set holds another of that set, or itself.
Circular(h) == UNION {S \in SUBSET Containers : \A o \in S : Inner(h, o) \cap S # {}}

\* From o the walk would go deeper than n containers: that many and one more, none
\* of them empty, are each in the one before.
Deeper(h, o, n) ==
    \E s \in [1 .. n + 1 -> Containers] :
        /\ s[1] = o
        /\ \A i \in 1 .. n + 1 : h[s[i]] # <<>>
        /\ \A i \in 1 .. n : s[i + 1] \in Inner(h, s[i])

\* The texts of the values in s, each followed by a comma.
Listed(text, s) == FlattenSeq([i \in 1 .. Len(s) |-> Append(text[s[i]], ",")])

\* Rendered(h)[n][v]: the JSON text of value v, which is no deeper than n containers.
Rendered(h) ==
    LET text[n \in 0 .. MaxDepth] ==
            [v \in Values |->
                IF v = Leaf THEN <<"v">>
                ELSE LET values == IF n = 0 THEN <<>> ELSE Below(Listed(text[n - 1], h[v]))
                     IN  <<Begins(v)>> \o values \o <<Ends(v)>>]
    IN  text

-----------------------------------------------------------------------------
\* The text of a call that succeeds, of containers nobody changed in the
\* meantime, is the text of its argument; whatever other encoders did.
OutputIsTheTree ==
    \A e \in Encoders : pc[e] = "ok" /\ ~changed[e] => out[e] = Rendered(heap)[MaxDepth][root[e]]

\* "Circular reference detected" is raised for circular arguments only, not for
\* a container met twice, and "Too many nested structures" for arguments nested
\* too deep only; a call that succeeds had neither.
ErrorsExact ==
    \A e \in Encoders : ~changed[e] =>
        /\ err[e] = "circular" => root[e] \in Circular(heap)
        /\ err[e] = "depth" => Deeper(heap, root[e], MaxDepth)
        /\ pc[e] = "ok" => root[e] \notin Circular(heap) /\ ~Deeper(heap, root[e], MaxDepth)

\* Encoders that wait for each other are the doing of a circular heap, never of
\* the order in which dumps() locks: from outer to inner is one order for all.
\* In particular no encoder waits for itself.
DeadlockNeedsCycle ==
    (\E S \in SUBSET Encoders : WaitInCircle(S)) => Circular(heap) # {}

\* A call on a heap without circles returns, whatever the other threads do; in
\* the GIL build every call returns.
Returns ==
    \A e \in Encoders :
        (pc[e] # "idle" /\ (gil \/ Circular(heap) = {})) ~> pc[e] \in Ended
=============================================================================
