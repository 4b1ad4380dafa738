----------------------------- MODULE ContextPool -----------------------------
(***************************************************************************)
(* What the decoder contexts promise to the calls of loads(): a call holds *)
(* one context from its beginning to its end, and no other active call     *)
(* holds it.                                                               *)
(***************************************************************************)
EXTENDS Functions

CONSTANTS CallIds, Contexts

VARIABLE held       \* held[f]: the context of the active call f

Init == held = <<>>

Begin(f, c) ==
    /\ f \notin DOMAIN held
    /\ c \notin Range(held)
    /\ held' = [g \in DOMAIN held \cup {f} |-> IF g = f THEN c ELSE held[g]]

End(f) ==
    /\ f \in DOMAIN held
    /\ held' = Restrict(held, DOMAIN held \ {f})

Next == \E f \in CallIds : End(f) \/ \E c \in Contexts : Begin(f, c)

Spec == Init /\ [][Next]_held
=============================================================================
