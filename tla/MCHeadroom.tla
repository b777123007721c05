----------------------------- MODULE MCHeadroom -----------------------------
(* A small instance of Headroom: one account in the batched call, one with *)
(* a call of its own, and two refreshers.  The Policy names a slot of the  *)
(* second Allowance.                                                       *)
EXTENDS Headroom, TLC

CONSTANTS a1, a2, s1, s2, primary, secondary, r1, r2

MCNamedSlots == a1 :> {} @@ a2 :> {secondary}
MCDeclared == a1 :> s1 @@ a2 :> s2

Interchangeable == Permutations(Refreshers)
=============================================================================
