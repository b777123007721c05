------------------------------ MODULE MCProbing ------------------------------
(* Probing on a small instance: one provider, whose two threads probe      *)
(* models that are slow, slow, reasoning and dead, beside a Passthrough    *)
(* Auth Offering of another.                                               *)
EXTENDS Probing

TheProvider == [slow |-> "p", slower |-> "p", thinker |-> "p", dead |-> "p", guest |-> "q"]
TheRules == [slow |-> "native", slower |-> "native", thinker |-> "openai",
             dead |-> "openai", guest |-> "passthrough"]
TheAnswer == [t \in Targets |-> IF t = "dead" THEN Bare("denied") ELSE Completion]
TheWorklist == <<"dead", "slow", "slower", "thinker">>
TheSeats == [p |-> 2, q |-> 1]
TheInterval == [p |-> 2, q |-> 1]
ThePatience == [p |-> 1, q |-> 1]
=============================================================================
