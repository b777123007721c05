------------------------------ MODULE Classify ------------------------------
(***************************************************************************)
(* What a response of a provider means: classify's rules, in their order.  *)
(* A response keeps what the rules tell apart: its status, whether it has  *)
(* choices or states an error, what kinds of words its message holds, and  *)
(* whether that message states a reset or a limit of zero.                 *)
(***************************************************************************)
EXTENDS Naturals, Sequences

Status == {"timeout", "none", "ok", "limited", "server", "denied", "other"}
Words  == {"removal", "not served", "no model named", "model not supported",
           "entitlement", "quota", "gateway", "rate limit"}
Bucket == {"answered", "self_healing", "needs_operator", "gone", "inconclusive"}

Response == [status : Status, choices : BOOLEAN, error : BOOLEAN,
             words : SUBSET Words, reset : BOOLEAN, zero : BOOLEAN]

Means(bucket, reason) == [bucket |-> bucket, reason |-> reason]

(* A body with an error is a failure whatever the status. *)
Failed(x) == x.error \/ x.status \notin {"none", "ok"}

(* _rate_limit_outcome *)
RateLimit(x) == Means(IF x.reset THEN "self_healing" ELSE "inconclusive", "rate_limited")

(* The rules: a test and its outcome, in the order of the code. *)
Rules(x) == <<
  << x.status = "timeout",               Means("self_healing", "timeout") >>,
  << ~Failed(x) /\ x.status = "none",    Means("inconclusive", "unmeasured") >>,
  << ~Failed(x) /\ ~x.choices,           Means("needs_operator", "malformed_response") >>,
  << ~Failed(x),                         Means("answered", "answered") >>,
  << "removal" \in x.words,              Means("gone", "identifier_gone") >>,
  << "not served" \in x.words,           Means("inconclusive", "alias_not_served") >>,
  << "no model named" \in x.words,       Means("inconclusive", "unmeasured") >>,
  << "model not supported" \in x.words,  Means("needs_operator", "identifier_gone") >>,
  << "entitlement" \in x.words,          Means("needs_operator", "plan_entitlement_refused") >>,
  << "quota" \in x.words /\ x.zero,      Means("needs_operator", "quota_exhausted") >>,
  << "quota" \in x.words,                Means("self_healing", "quota_exhausted") >>,
  << "gateway" \in x.words,              Means("self_healing", "gateway_error") >>,
  << "rate limit" \in x.words,           RateLimit(x) >>,
  << x.status = "limited",               RateLimit(x) >>,
  << x.status = "server",                Means("self_healing", "gateway_error") >>,
  << x.status = "denied",                Means("needs_operator", "authentication_failed") >>,
  << TRUE,                               Means("needs_operator", "unrecognized_failure") >> >>

(* The first rule that applies. *)
ClassifyResponse(x) ==
  LET rules == Rules(x)
      first == CHOOSE i \in DOMAIN rules : rules[i][1] /\ \A j \in 1..(i - 1) : ~rules[j][1]
  IN rules[first][2]

(* What httpx raises, and a response with nothing but a status. *)
TimedOut == [status |-> "timeout", choices |-> FALSE, error |-> FALSE,
             words |-> {}, reset |-> FALSE, zero |-> FALSE]
Bare(status) == [TimedOut EXCEPT !.status = status]

(* read_stream, _streamed_body: chunks that carry choices, or none. *)
Completion == [Bare("ok") EXCEPT !.choices = TRUE]
EmptyStream == Bare("ok")
=============================================================================
