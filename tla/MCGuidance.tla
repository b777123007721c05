----------------------------- MODULE MCGuidance -----------------------------
(* A cheap model on two providers, of which one is dearer, and a better    *)
(* model that a caller's own subscription reaches; a Role that must not    *)
(* bill, one that prefers the flat rate, and one that needs a window.      *)
EXTENDS Guidance, TLC

MCTruths == "o1" :> {"answered", "quota"} @@ "o2" :> {"answered", "other"}
            @@ "p" :> {"answered", "quota, no reset", "other"}
MCModel == "o1" :> "small" @@ "o2" :> "small" @@ "p" :> "large"
MCBasis == "o1" :> 1 @@ "o2" :> 1 @@ "p" :> 2
MCContext == "o1" :> 2 @@ "o2" :> 1 @@ "p" :> 2
MCAllowance == "o1" :> "a1" @@ "o2" :> "a2" @@ "p" :> "a1"
MCPosition == "o1" :> 1 @@ "o2" :> 2 @@ "p" :> 3
MCScore == "small" :> 1 @@ "large" :> 2
MCRules ==
  "never bills" :> [bases |-> {1}, limit |-> 1, context |-> 1, prefer |-> Nothing] @@
  "prefers" :> [bases |-> {1, 2}, limit |-> 2, context |-> 1, prefer |-> 1] @@
  "wide" :> [bases |-> {1, 2}, limit |-> 2, context |-> 2, prefer |-> Nothing]
=============================================================================
