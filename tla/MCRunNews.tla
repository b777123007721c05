------------------------------ MODULE MCRunNews ------------------------------
(* RunNews on a small instance. *)
EXTENDS RunNews, TLC

CONSTANTS o1, o2, tick, byhand, i1, i2, i3

TheFetchers == {tick, byhand}
TheAnswers == {{}, {o1}, {o2}}
TheInodes == {i1, i2, i3}
TheSymmetry == Permutations(TheInodes) \cup Permutations({o1, o2}) \cup Permutations(TheFetchers)
=============================================================================
