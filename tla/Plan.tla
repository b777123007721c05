-------------------------------- MODULE Plan --------------------------------
(***************************************************************************)
(* Which Aliases the Generated Config offers: plan.plan, a pure transform  *)
(* of Feed, Policy and Health State, and the commands that run it.  plan   *)
(* walks the Feed's Offerings one by one and may refuse at any of them; it *)
(* reads nothing while it walks, so its inputs stand still from Start to   *)
(* the end.  Offerings come in any order: the Feed's.                      *)
(*                                                                         *)
(* An entry is its Alias and what it reaches; rates, limits and the        *)
(* translated call are left out, and so are Roles.  The safety rail is     *)
(* ConfigWrite's subject and may refuse any plan here.                     *)
(***************************************************************************)
EXTENDS Integers, FiniteSets

CONSTANTS
  Offering,    \* Discovered Offering ids
  ProviderOf,  \* the Feed provider of each Offering
  Declaration, \* the entries of Policy's `declared`, by name
  Name,        \* Aliases
  Stem,        \* the Aliases Policy and derive_alias give
  Derived,     \* derive_alias of each Offering
  Suffixed,    \* each of them with client_facing_variants.suffix behind it
  Policies,    \* the Policies the operator may write
  Facts,       \* what a Feed may say of each Offering
  Outcomes,    \* what a Probe or real traffic may find at each Health Key
  Nothing,     \* no Offering, no Alias, no declaration
  MaxMeasured  \* bound: records one fold changes, new ones aside

(* Why a Policy or the Feed's capabilities keep an Offering out, whatever  *)
(* its health; "nothing" if they do not.                                   *)
Bar == {"nothing", "baseline", "models", "pricing", "plan_edition", "no_translation_rule"}

Fact == [published : BOOLEAN, listed : BOOLEAN, leaving : BOOLEAN, bar : Bar,
         score : {"unscored", "below", "enough"}, wide : BOOLEAN, thin : BOOLEAN]

Provider == {ProviderOf[o] : o \in Offering}

Policy == [providers : SUBSET Provider,
           declared : SUBSET Declaration, passthrough : SUBSET Declaration,
           alias : [Declaration -> Stem],
           supersedes : [Declaration -> Offering \cup {Nothing}],
           widens : [Declaration -> Declaration \cup {Nothing}],
           overrides : [Offering -> Stem \cup {Nothing}],
           withheld : SUBSET Offering, approved : SUBSET Offering,
           widening : BOOLEAN, stated : SUBSET Offering]

(* An outcome, or a reset time that has passed. *)
Measurement == {"answered", "failed", "gone", "inconclusive", "expired"}

ASSUME PlanAssumption ==
  /\ DOMAIN ProviderOf = Offering
  /\ Stem \subseteq Name
  /\ Derived \in [Offering -> Stem]
  /\ Suffixed \in [Stem -> Name]
  /\ \A a \in Stem : Suffixed[a] # a
  /\ Policies \subseteq Policy
  /\ Facts \in [Offering -> SUBSET Fact]
  /\ Outcomes \in [Offering \cup Declaration -> SUBSET Measurement]
  /\ Offering \cap Declaration = {}
  /\ Nothing \notin Offering \cup Declaration \cup Name
  /\ MaxMeasured \in Nat

VARIABLES
  feed,     \* the Feed Document
  policy,   \* the Policy file
  health,   \* Health State: a record per Health Key
  pc,       \* "idle", "reduced" (inputs read) or "planning"
  by,       \* the command that plans
  todo,     \* Offerings plan has not come to yet
  draft,    \* the entries and the report so far
  config,   \* the Generated Config's entries
  \* History: read by no action, only by properties.
  since,    \* what changed since a plan last ran to its end
  last      \* what that plan reported unlisted and restorable

inputs == <<feed, policy, health>>
vars == <<inputs, pc, by, todo, draft, config, since, last>>

Key == Offering \cup Declaration
Record == [known : BOOLEAN, answered : BOOLEAN, excluded : BOOLEAN, gone : BOOLEAN]
NoRecord == [known |-> FALSE, answered |-> FALSE, excluded |-> FALSE, gone |-> FALSE]

Entry == [alias : Name, id : Key, kind : {"declared", "primary", "variant"}]
Reason == Bar \cup {"visibility", "withheld", "superseded", "gone", "unscored", "untranslatable"}
Report == [admitted : SUBSET Key, candidates : SUBSET Offering, excluded : SUBSET Key,
           unlisted : SUBSET Key, sunsetting : SUBSET Offering,
           restorable : SUBSET Offering, dropped : [Offering -> Reason]]

Served(entries) == {e.id : e \in entries}

-----------------------------------------------------------------------------
Published == {o \in Offering : feed[o].published}

(* plan and the Prober walk the providers of Policy, not those of the Feed. *)
Considered == {o \in Published : ProviderOf[o] \in policy.providers}
Superseded == {policy.supersedes[d] : d \in policy.declared}
DeclaredAliases == {policy.alias[d] : d \in policy.declared}

(* alias_for. *)
AliasOf(o) == IF policy.overrides[o] # Nothing THEN policy.overrides[o] ELSE Derived[o]

(* A declared Client-Facing Variant shares the record of what it widens. *)
HealthKey(d) == IF policy.widens[d] # Nothing THEN policy.widens[d] ELSE d

(* Faulty: an exclusion takes the entry out. *)
UnlistingAny(record) == record.excluded

(* _is_unlisting: only a terminal fact takes an entry out. *)
Unlisting(record) == record.excluded /\ record.gone

(* Leaving its catalogue and still working, as far as we measured. *)
Sunsetting(o) == feed[o].leaving /\ health[o].answered

Hidden(o) == ~feed[o].listed /\ ~Sunsetting(o)

(* The quality gate. *)
Admitted(o) ==
  \/ feed[o].score = "enough"
  \/ feed[o].score = "unscored" /\ o \in policy.approved

(* Selection but for visibility and health. *)
WouldPass(o) == feed[o].bar = "nothing" /\ o \notin policy.withheld /\ Admitted(o)

(* Faulty: a Declared Offering may have taken its place. *)
RestorableSuperseded(o) ==
  ~feed[o].listed /\ feed[o].leaving /\ ~health[o].answered /\ WouldPass(o)

(* Only a Probe's success is missing. *)
Restorable(o) ==
  /\ ~feed[o].listed /\ feed[o].leaving /\ ~health[o].answered
  /\ o \notin Superseded
  /\ WouldPass(o)

(* The first reason Selection has to drop an Offering it comes to. *)
Why(o) ==
  IF feed[o].bar = "no_translation_rule" THEN "no_translation_rule"
  ELSE IF Hidden(o) THEN "visibility"
  ELSE IF feed[o].bar # "nothing" THEN feed[o].bar
  ELSE IF o \in policy.withheld THEN "withheld"
  ELSE IF o \in Superseded THEN "superseded"
  ELSE IF Unlisting(health[o]) THEN "gone"
  ELSE IF ~Admitted(o) THEN "unscored"
  ELSE "nothing"

(* _qualifies_for_variant. *)
Wide(o) == policy.widening /\ (o \in policy.stated \/ feed[o].wide)

Primary(o) == [alias |-> AliasOf(o), id |-> o, kind |-> "primary"]
Variant(o) == [alias |-> Suffixed[AliasOf(o)], id |-> o, kind |-> "variant"]
EntriesOf(o) == {Primary(o)} \cup IF Wide(o) THEN {Variant(o)} ELSE {}

(* Faulty: Declared Aliases are not looked at. *)
TakenByDiscovered(alias) == \E e \in draft.entries : e.kind # "declared" /\ e.alias = alias

Taken(alias) ==
  \/ alias \in DeclaredAliases
  \/ \E e \in draft.entries : e.kind # "declared" /\ e.alias = alias

Clash(o) ==
  \/ Taken(AliasOf(o))
  \/ ~feed[o].thin /\ Wide(o) /\ Taken(Suffixed[AliasOf(o)])

-----------------------------------------------------------------------------
NoReport == [admitted |-> {}, candidates |-> {}, excluded |-> {}, unlisted |-> {},
             sunsetting |-> {}, restorable |-> {},
             dropped |-> [o \in Offering |-> "nothing"]]

Empty == [entries |-> {}, report |-> NoReport]

Init ==
  /\ feed \in [Offering -> UNION {Facts[o] : o \in Offering}]
  /\ \A o \in Offering : feed[o] \in Facts[o]
  /\ policy \in Policies
  /\ health = [k \in Key |-> NoRecord]
  /\ pc = "idle"
  /\ by = "none"
  /\ todo = {}
  /\ draft = Empty
  /\ config = {}
  /\ since = {"feed"}
  /\ last = [unlisted |-> {}, restorable |-> {}]

(* The Feed fetch brings a new document. *)
FeedChanges(o) ==
  /\ pc = "idle"
  /\ \E fact \in Facts[o] : feed' = [feed EXCEPT ![o] = fact]
  /\ since' = since \cup {"feed"}
  /\ UNCHANGED <<policy, health, pc, by, todo, draft, config, last>>

(* The operator writes another Policy. *)
PolicyChanges ==
  /\ pc = "idle"
  /\ policy' \in Policies
  /\ since' = since \cup {"policy"}
  /\ UNCHANGED <<feed, health, pc, by, todo, draft, config, last>>

-----------------------------------------------------------------------------
(* What the Prober admits, from Policy and not from the Generated Config. *)
DiscoveredAdmitted ==
  {o \in Considered : /\ feed[o].bar \in {"nothing", "no_translation_rule"}
                      /\ o \notin policy.withheld /\ Admitted(o)}

(* Its worklist: the keys a fold keeps. *)
Worklist == DiscoveredAdmitted \cup {HealthKey(d) : d \in policy.declared}

(* Those of them it may probe: never a Passthrough one, whose credentials  *)
(* are the caller's.                                                       *)
Targets ==
  DiscoveredAdmitted \cup {HealthKey(d) : d \in policy.declared \ policy.passthrough}

(* Faulty: an exclusion that runs out leaves its bucket. *)
AppliedBucketStays(record, what) ==
  CASE what = "answered" -> [known |-> TRUE, answered |-> TRUE, excluded |-> FALSE, gone |-> FALSE]
    [] what = "failed" -> [record EXCEPT !.known = TRUE, !.excluded = TRUE, !.gone = FALSE]
    [] what = "gone" -> [record EXCEPT !.known = TRUE, !.excluded = TRUE, !.gone = TRUE]
    [] what = "inconclusive" -> [record EXCEPT !.known = TRUE]
    [] what = "expired" -> [record EXCEPT !.excluded = FALSE]
    [] what = "none" -> record

(* What reduce makes of one record.  A Gone states no reset time to pass. *)
Applied(record, what) ==
  CASE what = "answered" -> [known |-> TRUE, answered |-> TRUE, excluded |-> FALSE, gone |-> FALSE]
    [] what = "failed" -> [record EXCEPT !.known = TRUE, !.excluded = TRUE, !.gone = FALSE]
    [] what = "gone" -> [record EXCEPT !.known = TRUE, !.excluded = TRUE, !.gone = TRUE]
    [] what = "inconclusive" -> [record EXCEPT !.known = TRUE]
    [] what = "expired" -> [record EXCEPT !.excluded = record.gone]
    [] what = "none" -> record

(* A fold: outcomes for some of the worklist, the rest pruned. *)
Fold(measured) ==
  health' = [k \in Key |-> IF k \in Worklist THEN Applied(health[k], measured[k]) ELSE NoRecord]

(* What of a fold is no mere opinion: an identifier that is Gone, or not   *)
(* any more, and a first success, or its loss.                             *)
News ==
  {n \in {"gone", "answered"} :
     \E k \in Key : IF n = "gone" THEN health'[k].gone # health[k].gone
                    ELSE health'[k].answered # health[k].answered}

(* A sweep measures whatever it may probe and has no record. *)
Swept(measured) == \A k \in Targets : health[k].known \/ measured[k] \notin {"none", "expired"}

(* generate and generate --force take Health State as they find it. *)
Generate ==
  /\ pc = "idle"
  /\ pc' = "reduced"
  /\ by' \in {"generate", "force"}
  /\ UNCHANGED <<inputs, todo, draft, config, since, last>>

(* run folds first: after a sweep, or on a Journal trigger with confirming *)
(* Probes alone.                                                           *)
RunFolds ==
  /\ pc = "idle"
  /\ pc' = "reduced"
  /\ \E measured \in [Worklist -> Measurement \cup {"none"}] :
       /\ \A k \in Worklist : measured[k] \in Outcomes[k] \cup {"none"}
       /\ Cardinality({k \in Worklist : health[k].known /\ measured[k] # "none"}) <= MaxMeasured
       /\ Fold(measured)
       /\ by' \in {"confirm"} \cup IF Swept(measured) THEN {"sweep"} ELSE {}
  /\ since' = since \cup News
  /\ UNCHANGED <<feed, policy, todo, draft, config, last>>

Offered == {d \in policy.declared : ~Unlisting(health[HealthKey(d)])}
DeclaredEntries == {[alias |-> policy.alias[d], id |-> d, kind |-> "declared"] : d \in Offered}
DeclaredApart == \A d, e \in policy.declared : policy.alias[d] = policy.alias[e] => d = e

(* plan takes the Declared Offerings first. *)
PlanDeclared ==
  /\ pc = "reduced"
  /\ DeclaredApart
  /\ pc' = "planning"
  /\ todo' = Considered
  /\ draft' = [entries |-> DeclaredEntries,
               report |-> [NoReport EXCEPT
                 !.admitted = Offered,
                 !.unlisted = policy.declared \ Offered,
                 !.excluded = {d \in Offered : health[HealthKey(d)].excluded}]]
  /\ UNCHANGED <<inputs, by, config, since, last>>

Leave ==
  /\ pc' = "idle"
  /\ by' = "none"
  /\ todo' = {}
  /\ draft' = Empty

(* A refusal ends the command with nothing written. *)
Refuse ==
  /\ Leave
  /\ UNCHANGED <<inputs, config, since, last>>

RefuseDeclared == pc = "reduced" /\ ~DeclaredApart /\ Refuse

Excluded(o) == IF health[o].excluded THEN {o} ELSE {}

(* Selection drops an Offering. *)
Drop(o) ==
  /\ pc = "planning" /\ o \in todo
  /\ Why(o) # "nothing"
  /\ todo' = todo \ {o}
  /\ draft' = [draft EXCEPT
       !.report.dropped[o] = Why(o),
       !.report.unlisted = @ \cup IF Why(o) = "gone" THEN {o} ELSE {},
       !.report.restorable = @ \cup IF Why(o) = "visibility" /\ Restorable(o) THEN {o} ELSE {},
       !.report.candidates =
         @ \cup IF Why(o) = "unscored" /\ feed[o].score = "unscored" THEN {o} ELSE {}]
  /\ UNCHANGED <<inputs, pc, by, config, since, last>>

(* It passes, and its Alias is held by another. *)
RefuseAlias(o) ==
  /\ pc = "planning" /\ o \in todo
  /\ Why(o) = "nothing" /\ Clash(o)
  /\ Refuse

(* Named excluded before anyone asked whether it can be translated. *)
Untranslatable(o) ==
  /\ pc = "planning" /\ o \in todo
  /\ Why(o) = "nothing" /\ ~Clash(o) /\ feed[o].thin
  /\ todo' = todo \ {o}
  /\ draft' = [draft EXCEPT !.report.dropped[o] = "untranslatable",
                            !.report.excluded = @ \cup Excluded(o)]
  /\ UNCHANGED <<inputs, pc, by, config, since, last>>

(* It is written, with its Client-Facing Variant. *)
Admit(o) ==
  /\ pc = "planning" /\ o \in todo
  /\ Why(o) = "nothing" /\ ~Clash(o) /\ ~feed[o].thin
  /\ todo' = todo \ {o}
  /\ draft' = [draft EXCEPT
       !.entries = @ \cup EntriesOf(o),
       !.report.admitted = @ \cup {o},
       !.report.excluded = @ \cup Excluded(o),
       !.report.sunsetting = @ \cup IF Sunsetting(o) THEN {o} ELSE {}]
  /\ UNCHANGED <<inputs, pc, by, config, since, last>>

(* Faulty: only an empty Health State counts as nothing measured. *)
NeverProbedEmpty ==
  IF \A k \in Key : ~health[k].known THEN draft.report.restorable ELSE {}

(* generate does not drop what no Probe has measured yet. *)
NeverProbed == {o \in draft.report.restorable : ~health[o].known}

Planned == pc = "planning" /\ todo = {}

RefuseNeverProbed ==
  /\ Planned
  /\ by = "generate" /\ NeverProbed # {}
  /\ Refuse

RailRefuses == Planned /\ Refuse

(* The plan is on disk: written, or found there already. *)
Apply ==
  /\ Planned
  /\ by = "generate" => NeverProbed = {}
  /\ Leave
  /\ config' = draft.entries
  /\ since' = {}
  /\ last' = [unlisted |-> draft.report.unlisted, restorable |-> draft.report.restorable]
  /\ UNCHANGED inputs

Next ==
  \/ PolicyChanges \/ Generate \/ RunFolds \/ PlanDeclared \/ RefuseDeclared
  \/ RefuseNeverProbed \/ RailRefuses \/ Apply
  \/ \E o \in Offering :
       FeedChanges(o) \/ Drop(o) \/ RefuseAlias(o) \/ Untranslatable(o) \/ Admit(o)

Spec == Init /\ [][Next]_vars

-----------------------------------------------------------------------------
(* Type invariant. *)
TypeOK ==
  /\ feed \in [Offering -> UNION {Facts[o] : o \in Offering}]
  /\ \A o \in Offering : feed[o] \in Facts[o]
  /\ policy \in Policies
  /\ health \in [Key -> Record] /\ \A k \in Key : health[k].gone => health[k].excluded
  /\ pc \in {"idle", "reduced", "planning"}
  /\ by \in {"none", "generate", "force", "sweep", "confirm"}
  /\ todo \subseteq Offering
  /\ draft \in [entries : SUBSET Entry, report : Report]
  /\ config \subseteq Entry
  /\ since \subseteq {"feed", "policy", "gone", "answered"}
  /\ last \in [unlisted : SUBSET Key, restorable : SUBSET Offering]

(* litellm takes two entries of one model_name for a load-balancing group: *)
(* no Alias of a Generated Config names two, whatever Policy overrides,    *)
(* declares and suffixes.                                                  *)
AliasesApart == \A e, f \in config : e.alias = f.alias => e = f

(* A measurement that may change its mind does not restart the proxy (ADR  *)
(* 0014): unless the Feed, Policy, a Gone or a first success came since,   *)
(* another plan changes nothing, however often exclusions came and went.   *)
NoWriteForOpinions == [][config' # config => since # {}]_vars

(* What the last plan called restorable by a Probe is in reach of the      *)
(* Prober, so that the refusal of generate can clear, and once a Probe     *)
(* answers the next plan writes it, if Feed and Policy stand still.        *)
Unedited == since \cap {"feed", "policy"} = {}
RestorableInReach == Unedited => last.restorable \subseteq Targets
RestorableReturns ==
  [][Apply /\ Unedited =>
       \A o \in last.restorable :
         health[o].answered => \/ o \in Served(config') \/ Unlisting(health[o])
                               \/ feed[o].thin]_vars

(* What is served, still published and only leaves its catalogue is        *)
(* dropped by generate or by a sweep on a measurement, never for the lack  *)
(* of one, unless Policy drops its whole provider.                         *)
MeasuredBeforeDropped ==
  [][Apply /\ by \in {"generate", "sweep"} =>
       \A o \in Considered \cap (Served(config) \ Served(config')) :
         Restorable(o) => health[o].known]_vars

(* The report of a plan says of every Offering of a provider Policy names  *)
(* that it is served or why it is not, says nothing of any other, and      *)
(* calls nothing excluded, sunsetting or unlisted that is not so in the    *)
(* config; what cannot be translated is the exception for excluded.        *)
ReportIsTrue ==
  Planned =>
    LET report == draft.report
        untranslatable == {o \in Offering : report.dropped[o] = "untranslatable"} IN
    /\ report.admitted = Served(draft.entries)
    /\ \A o \in Considered : (o \in report.admitted) # (report.dropped[o] # "nothing")
    /\ \A o \in Offering \ Considered : o \notin report.admitted /\ report.dropped[o] = "nothing"
    /\ report.excluded \subseteq report.admitted \cup untranslatable
    /\ report.sunsetting \subseteq report.admitted
    /\ report.unlisted \cap report.admitted = {}
    /\ report.candidates \cap report.admitted = {}

(* A declared Client-Facing Variant is offered exactly when the Alias it   *)
(* widens is.  Policy admits a variant of a variant, whose record lies     *)
(* under an Alias that reads another: of such chains nothing is claimed.   *)
VariantsTogether ==
  Planned =>
    \A d \in policy.declared :
      LET plain == policy.widens[d] IN
      plain \in policy.declared /\ policy.widens[plain] = Nothing =>
        (d \in Served(draft.entries)) = (plain \in Served(draft.entries))

(* Gone "carries no reset time, and nothing clears it but the operator":   *)
(* an Offering the last plan unlisted stays out until Feed or Policy       *)
(* change.                                                                 *)
GoneIsFinal ==
  [][config' # config /\ Unedited => last.unlisted \cap Served(config') = {}]_vars
=============================================================================
