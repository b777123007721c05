---------------------------- MODULE MCHealthFold ----------------------------
(* A small instance of HealthFold: two maintainers, one watcher.           *)
EXTENDS HealthFold, TLC

CONSTANTS m1, m2, w1, e1, e2, b1, b2, k1, k2

MCKeyOf == e1 :> k1 @@ e2 :> k2 @@ b1 :> k1 @@ b2 :> k2
MCAdmittedSets == {{k1, k2}, {k1}}

=============================================================================
