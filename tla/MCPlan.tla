------------------------------- MODULE MCPlan -------------------------------
(* Two Discovered Offerings, of two providers, and two Declared ones, one  *)
(* widening the other; Policies that bring about each kind of Alias        *)
(* collision, one that leaves a provider out, and one whose Declared       *)
(* Offering no Probe may call, its credentials being the caller's.         *)
EXTENDS Reports, TLC

Fits == [published |-> TRUE, listed |-> TRUE, leaving |-> FALSE, bar |-> "nothing",
         score |-> "enough", wide |-> FALSE, thin |-> FALSE]
MCFacts ==
  "o1" :> {Fits, [Fits EXCEPT !.listed = FALSE, !.leaving = TRUE]} @@
  "o2" :> {Fits, [Fits EXCEPT !.score = "unscored"], [Fits EXCEPT !.thin = TRUE, !.wide = TRUE]}

MCDerived == "o1" :> "x" @@ "o2" :> "y"
MCName == {"x", "y", "w", "x+", "y+", "w+", "x++"}
MCStem == {"x", "y", "w", "x+"}
MCSuffixed == "x" :> "x+" @@ "y" :> "y+" @@ "w" :> "w+" @@ "x+" :> "x++"

Base ==
  [providers |-> {"p", "q"}, declared |-> {}, passthrough |-> {},
   alias |-> "d" :> "w" @@ "dw" :> "x+",
   supersedes |-> "d" :> Nothing @@ "dw" :> Nothing,
   widens |-> "d" :> Nothing @@ "dw" :> "d",
   overrides |-> "o1" :> Nothing @@ "o2" :> Nothing,
   withheld |-> {}, approved |-> {}, widening |-> TRUE, stated |-> {}]

MCPolicies ==
  {[Base EXCEPT !.declared = {"d", "dw"}, !.stated = {"o1"}],
   [Base EXCEPT !.declared = {"d"}, !.passthrough = {"d"}, !.alias["d"] = "x",
                !.supersedes["d"] = "o1"],
   [Base EXCEPT !.declared = {"d", "dw"}, !.alias["d"] = "x+"],
   [Base EXCEPT !.overrides["o2"] = "x+", !.stated = {"o1"}],
   [Base EXCEPT !.providers = {"q"}],
   [Base EXCEPT !.overrides["o2"] = "x", !.withheld = {"o1"}, !.approved = {"o2"}]}

MCOutcomes ==
  "o1" :> {"answered", "failed"} @@ "o2" :> {"inconclusive", "failed", "gone", "expired"} @@
  "d" :> {"failed", "gone"} @@ "dw" :> {}

MCProviderOf == "o1" :> "p" @@ "o2" :> "q"
MCPoolOf == "d" :> "seat" @@ "dw" :> Nothing
=============================================================================
