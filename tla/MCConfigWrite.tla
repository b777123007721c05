---------------------------- MODULE MCConfigWrite ---------------------------
(* Five plans: a full one, one that lost a quarter, one that lost more     *)
(* than the rail allows, an empty one, and one that is broken.             *)
EXTENDS ConfigWrite, TLC

CONSTANTS w1, w2, full, less, few, empty, broken

MCPlans == {full, less, few, empty, broken}
MCSize == full :> 4 @@ less :> 3 @@ few :> 1 @@ empty :> 0 @@ broken :> 4
Symmetry == Permutations({w1, w2})
MCSound == {full, less, few, empty}
=============================================================================
