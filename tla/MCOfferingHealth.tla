-------------------------- MODULE MCOfferingHealth --------------------------
(* Two Offerings billed from one pool: one that anything happens to, and a *)
(* pool mate that only ever exhausts the pool.                             *)
EXTENDS OfferingHealth, TLC

CONSTANTS k1, k2

MCSiblings == k1 :> {k1, k2} @@ k2 :> {k1, k2}
MCPassthroughSets == {{}, {k1}, {k2}}
MCTruths == k1 :> {"answered", "authentication_failed"} @@ k2 :> {"answered"}
MCFailures == k1 :> {"quota_exhausted", "timeout", "unrecognized_failure"}
              @@ k2 :> {"quota_exhausted"}
=============================================================================
