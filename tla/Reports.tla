------------------------------- MODULE Reports -------------------------------
(***************************************************************************)
(* What the read-only commands say of a plan: entitlements, which counts   *)
(* what each Allowance offers, and explain, which names the stage where    *)
(* one Offering left its way to a client.  Both plan for themselves, over  *)
(* the inputs as they are on disk, so both speak in a Planned state of     *)
(* module Plan; explain also asks the proxy, which serves the config.      *)
(***************************************************************************)
EXTENDS Plan

CONSTANT
  PoolOf  \* the named pool or credential of each Declared Offering, or Nothing

ASSUME ReportsAssumption ==
  /\ DOMAIN PoolOf = Declaration
  /\ IsFiniteSet(Offering \cup Declaration)

-----------------------------------------------------------------------------
(* The Allowance that is billed: a provider, for a Discovered Offering; a  *)
(* pool or credential, for a Declared one, or the Offering by itself.      *)
AllowanceOf(k) ==
  IF k \in Offering THEN <<"provider", ProviderOf[k]>>
  ELSE IF PoolOf[k] # Nothing THEN <<"pool", PoolOf[k]>>
  ELSE <<"alias", policy.alias[k]>>

Configured == {o \in Offering : ProviderOf[o] \in policy.providers}

(* What has an Allowance: a provider Policy does not name has none, and a  *)
(* Client-Facing Variant is no Offering of its own.                        *)
Plain == Configured \cup {d \in policy.declared : policy.widens[d] = Nothing}
Allowances == {AllowanceOf(k) : k \in Plain}

Members(a) == {k \in Plain : AllowanceOf(k) = a}
Answering(a) == Members(a) \cap draft.report.admitted
Unavailable(a) == Members(a) \cap draft.report.excluded
InScope(a) == Cardinality(Answering(a)) + Cardinality(Unavailable(a))

(* Entitlement.state. *)
State(a) ==
  IF InScope(a) = 0 THEN "empty"
  ELSE IF Unavailable(a) = {} THEN "healthy"
  ELSE IF Answering(a) = {} THEN "dry"
  ELSE "degraded"

-----------------------------------------------------------------------------
(* explain.  A Declared Offering answers to its Alias and, a variant, to   *)
(* the Alias it widens; the first one listed is taken, here any.           *)
DeclaredAs(query) ==
  {d \in policy.declared : query \in {policy.alias[d], policy.alias[HealthKey(d)]}}

(* _resolve: a declaration before an id, an id before a derived Alias. *)
Resolved(query) ==
  IF DeclaredAs(query) # {} THEN DeclaredAs(query)
  ELSE IF query \in Published THEN {query}
  ELSE {o \in Offering \cap draft.report.admitted : AliasOf(o) = query}

AliasFor(k) == IF k \in Offering THEN AliasOf(k) ELSE policy.alias[k]

(* Why the plan keeps an Offering out, or "nothing". *)
DroppedFor(k) == IF k \in Offering THEN draft.report.dropped[k] ELSE "nothing"

(* Faulty: what Selection did not drop, Policy is taken to admit. *)
StoppedAtUnconfigured(k, aliases) ==
  IF DroppedFor(k) = "gone" \/ k \in draft.report.unlisted THEN "health"
  ELSE IF DroppedFor(k) # "nothing" THEN "policy"
  ELSE IF k \notin draft.report.admitted THEN "generated_config"
  ELSE IF AliasFor(k) \notin aliases THEN "proxy"
  ELSE "none"

(* explain: the stage that stopped an Offering, or "none", when the proxy  *)
(* serves these Aliases.  plan drops no Offering of a provider Policy does *)
(* not name, as it never comes to it; explain has to look for itself.      *)
StoppedAt(k, aliases) ==
  IF DroppedFor(k) = "gone" \/ k \in draft.report.unlisted THEN "health"
  ELSE IF DroppedFor(k) # "nothing" \/ k \in Offering \ Configured THEN "policy"
  ELSE IF k \notin draft.report.admitted THEN "generated_config"
  ELSE IF AliasFor(k) \notin aliases THEN "proxy"
  ELSE "none"

ServedAliases == {e.alias : e \in config}

-----------------------------------------------------------------------------
(* While Feed and Policy stand still and Health State gains no more than   *)
(* opinions since the config was planned, explain, which reads a plan of   *)
(* its own and not the config, says of whatever it is asked about that it  *)
(* reaches a client exactly if the config on disk holds it, and never that *)
(* the config on disk is old ("run `deploy`").                             *)
ExplainIsServed ==
  Planned /\ since = {} =>
    \A query \in Offering \cup Name : \A k \in Resolved(query) :
      /\ (StoppedAt(k, ServedAliases) = "none") = (k \in Served(config))
      /\ StoppedAt(k, ServedAliases) # "generated_config"

(* An Allowance entitlements calls healthy has an Offering, and all it has *)
(* admitted are in the config on disk and answer; one called dry or empty  *)
(* has none there.                                                         *)
EntitlementsAreServed ==
  Planned /\ since = {} =>
    \A a \in Allowances :
      LET served == Members(a) \cap Served(config) IN
      /\ State(a) = "healthy" =>
           /\ served # {}
           /\ \A k \in served : ~health[IF k \in Offering THEN k ELSE HealthKey(k)].excluded
      /\ State(a) \in {"dry", "empty"} => served = {}

(* The plan's report, explain and entitlements tell the truth of the       *)
(* config, although each derives its answer apart from the others.         *)
ReportsAreTrue == ReportIsTrue /\ ExplainIsServed /\ EntitlementsAreServed

(* "`healthy` when everything admitted answers, `dry` when nothing does":  *)
(* an Allowance all of whose admitted Offerings are Excluded is dry.       *)
DryWhenNothingAnswers ==
  Planned =>
    \A a \in Allowances :
      Answering(a) # {} /\ Answering(a) \subseteq Unavailable(a) => State(a) = "dry"

(* explain takes "An Offering id or an Alias": every Alias on offer has an *)
(* answer.                                                                 *)
EveryAliasResolves ==
  Planned /\ since = {} => \A alias \in ServedAliases : Resolved(alias) # {}
=============================================================================
