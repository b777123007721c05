--------------------------- MODULE OfferingHealth ---------------------------
(***************************************************************************)
(* What the maintainer comes to believe of each Offering: the proxy        *)
(* records failures of real traffic, a run probes what is stale or what    *)
(* needs confirming, and reduce.reduce folds both into one record per      *)
(* Health Key.  Locks, files and crashes of the fold are HealthFold's      *)
(* subject, when a run starts is Tick's; here a run folds in one step and  *)
(* may start at any time.  A run that ends before its fold, killed or      *)
(* refused, leaves all of this as it was and is not a step here.           *)
(*                                                                         *)
(* Times are ages, and a reset time is how long it is still off, so that   *)
(* behaviours may be infinite.                                             *)
(***************************************************************************)
EXTENDS Integers, Sequences, FiniteSetsExt

CONSTANTS
  Key,         \* Health Keys, all admitted
  PassthroughSets, \* the keys Policy may declare Passthrough Auth
  Siblings,    \* the other keys of each key's shared pool
  SubAllowance,\* keys capped inside their pool
  Truths,      \* what each key's provider may answer to a Probe
  Failures,    \* what each key's real traffic may run into
  Staleness,   \* schedule.maximum_staleness_hours
  ResetAfter,  \* how far ahead a quota message states its reset
  MaxRun,      \* bound: how long one run may take
  MaxEntries,  \* bound: Journal entries
  Never        \* no time

Reason == {"quota_exhausted", "timeout", "authentication_failed", "gone",
           "unrecognized_failure", "rate_limited", "alias_not_served"}

ASSUME OfferingAssumption ==
  /\ PassthroughSets \subseteq SUBSET Key
  /\ Siblings \in [Key -> SUBSET Key]
  /\ SubAllowance \subseteq Key
  /\ Truths \in [Key -> SUBSET (Reason \cup {"answered"})]
  /\ Failures \in [Key -> SUBSET Reason]
  /\ Staleness \in Nat /\ ResetAfter \in Nat /\ MaxRun \in Nat /\ MaxEntries \in Nat

VARIABLES
  passthrough, \* the keys whose credentials the caller brings (Policy)
  truth,       \* what each key's provider would answer to a Probe
  journal,     \* the Observation Journal, oldest first
  health,      \* Health State: one record per key
  pc,          \* where the run is
  started,     \* age of the run's reading of the clock
  fresh,       \* the keys the run found fresh
  targets,     \* keys the run still has to probe
  outcomes,    \* what its Probes answered
  \* History: read by no action, only by properties.
  evidence     \* per key, where a failure that counts against it was seen
               \* since its exclusion was last cleared

process == <<pc, started, fresh, targets, outcomes>>
OHvars == <<passthrough, truth, journal, health, process, evidence>>

Probing == {"sweeping", "confirming"}
Probeable == Key \ passthrough

(* An observed failure or answer, and how long ago it was observed. *)
MaxAge == Max({Staleness, ResetAfter + MaxRun})
Event == [what : Reason \cup {"answered"}, age : 0..MaxAge]
Observation == [key : Key, event : Event]
Record == [known : BOOLEAN, excluded : BOOLEAN, reason : Reason \cup {"none"},
           left : -MaxRun..ResetAfter \cup {Never}, success : 0..Staleness \cup {Never},
           due : BOOLEAN]

NoRecord == [known |-> FALSE, excluded |-> FALSE, reason |-> "none",
             left |-> Never, success |-> Never, due |-> FALSE]

Older(age) == Min({age + 1, MaxAge})
Staler(age) == IF age = Never THEN Never ELSE Min({age + 1, Staleness})
Nearer(left) == IF left = Never THEN Never ELSE Max({left - 1, -MaxRun})

-----------------------------------------------------------------------------
(* The Journal's own reading of an outcome: fail open on what classify     *)
(* does not recognise.                                                     *)
Inconclusive(what, fromTraffic) ==
  \/ what \in {"rate_limited", "alias_not_served"}
  \/ what = "unrecognized_failure" /\ fromTraffic

(* A timeout and a refused credential are conditions one real-traffic      *)
(* event cannot attribute to the Offering.                                 *)
NeedsConfirming(what) ==
  /\ what # "alias_not_served"
  /\ \/ Inconclusive(what, TRUE)
     \/ what \in {"timeout", "authentication_failed"}

(* Faulty: the exemption holds for nobody. *)
ExemptNever(k, what) == FALSE

Exempt(k, what) ==
  k \in passthrough /\ what \in {"quota_exhausted", "authentication_failed"}

(* A reset time is stated by quota failures only, as of its observation. *)
StatedReset(event) ==
  IF event.what = "quota_exhausted"
  THEN Max({ResetAfter - event.age, -MaxRun}) ELSE Never

(* Faulty: an answer leaves the exclusion standing. *)
ApplyOutcomeSticky(k, record, event, fromTraffic) ==
  IF Inconclusive(event.what, fromTraffic) THEN [record EXCEPT !.known = TRUE]
  ELSE IF event.what = "answered"
  THEN [record EXCEPT !.known = TRUE, !.success = Min({event.age, Staleness}), !.due = FALSE]
  ELSE [known |-> TRUE, excluded |-> record.excluded \/ ~Exempt(k, event.what),
        reason |-> event.what, left |-> StatedReset(event),
        success |-> record.success, due |-> FALSE]

(* _apply_outcome. *)
ApplyOutcome(k, record, event, fromTraffic) ==
  IF Inconclusive(event.what, fromTraffic) THEN [record EXCEPT !.known = TRUE]
  ELSE IF event.what = "answered"
  THEN [known |-> TRUE, excluded |-> FALSE, reason |-> "none", left |-> Never,
        success |-> Min({event.age, Staleness}), due |-> FALSE]
  ELSE [known |-> TRUE, excluded |-> record.excluded \/ ~Exempt(k, event.what),
        reason |-> event.what, left |-> StatedReset(event),
        success |-> record.success, due |-> FALSE]

(* _apply_reset_expiry, judged at the run's own reading of the clock. *)
ApplyResetExpiry(record) ==
  IF record.excluded /\ record.left # Never /\ record.left + started <= 0
  THEN [record EXCEPT !.excluded = FALSE, !.reason = "none", !.left = Never]
  ELSE record

(* _pool_siblings_to_mark: whom a quota exhaustion makes due. *)
PoolSiblingsToMark(k, what) ==
  IF what = "quota_exhausted" /\ k \notin passthrough \cup SubAllowance
  THEN Siblings[k] \ ({k} \cup passthrough) ELSE {}

-----------------------------------------------------------------------------
(* What happened to a key since the last fold, by its entries and its      *)
(* Probe.                                                                  *)
Happened(k) ==
  {journal[i].event.what : i \in {j \in DOMAIN journal : journal[j].key = k}}
  \cup ({outcomes[k].what} \ {"none"})

(* The entries of one key, oldest first: those up to the run's clock       *)
(* reading, or those written while the run went on.                        *)
Replayed(k, record, during) ==
  LET After[n \in 0..Len(journal)] ==
        IF n = 0 THEN record
        ELSE IF journal[n].key = k /\ (journal[n].event.age < started) = during
        THEN ApplyOutcome(k, After[n - 1], journal[n].event, TRUE)
        ELSE After[n - 1]
  IN After[Len(journal)]

(* A Probe's outcome carries the run's clock reading; only its stated      *)
(* reset counts from when the provider said it.                            *)
WithProbe(k, record) ==
  LET outcome == outcomes[k] IN
  IF outcome.what = "none" THEN record
  ELSE ApplyOutcome(k, record, IF outcome.what = "answered" THEN [outcome EXCEPT !.age = started]
                               ELSE outcome, FALSE)

(* Faulty: Probes first. *)
FoldedProbeFirst(k) ==
  IF Happened(k) = {} THEN ApplyResetExpiry(health[k])
  ELSE Replayed(k, Replayed(k, WithProbe(k, health[k]), FALSE), TRUE)

(* The events of one key in order of time. *)
Folded(k) ==
  IF Happened(k) = {} THEN ApplyResetExpiry(health[k])
  ELSE Replayed(k, WithProbe(k, Replayed(k, health[k], FALSE)), TRUE)

Marked ==
  {k \in Key : /\ Happened(k) = {}
               /\ health[k].known
               /\ \E source \in Key : \E what \in Happened(source) :
                    k \in PoolSiblingsToMark(source, what)}

Reduce ==
  [k \in Key |-> IF k \in Marked THEN [Folded(k) EXCEPT !.due = TRUE] ELSE Folded(k)]

(* The evidence after a fold: what counts against a key and where it was   *)
(* seen, from its last answer on.                                          *)
Counts(k, what, source) ==
  /\ ~Inconclusive(what, source = "traffic")
  /\ ~(k \in passthrough /\ what \in {"quota_exhausted", "authentication_failed"})

Against(k, seen, what, source) ==
  IF what = "answered" THEN {}
  ELSE IF Counts(k, what, source) THEN seen \cup {source} ELSE seen

EvidenceReplayed(k, seen, during) ==
  LET After[n \in 0..Len(journal)] ==
        IF n = 0 THEN seen
        ELSE IF journal[n].key = k /\ (journal[n].event.age < started) = during
        THEN Against(k, After[n - 1], journal[n].event.what, "traffic")
        ELSE After[n - 1]
  IN After[Len(journal)]

EvidenceAfter(k, record) ==
  LET kept == IF health[k].excluded /\ ~record.excluded THEN {} ELSE evidence[k]
      before == EvidenceReplayed(k, kept, FALSE)
  IN EvidenceReplayed(k, IF outcomes[k].what = "none" THEN before
                         ELSE Against(k, before, outcomes[k].what, "probe"), TRUE)

-----------------------------------------------------------------------------
(* prober._is_fresh, at the moment the run reads the clock. *)
IsFresh(record) ==
  /\ record.known
  /\ ~record.due
  /\ IF record.excluded THEN record.left # Never /\ record.left > 0
     ELSE record.success # Never /\ record.success < Staleness

OHInit ==
  /\ passthrough \in PassthroughSets
  /\ truth \in {f \in [Key -> Reason \cup {"answered"}] : \A k \in Key : f[k] \in Truths[k]}
  /\ journal = <<>>
  /\ health = [k \in Key |-> NoRecord]
  /\ pc = "idle"
  /\ started = 0
  /\ fresh = {}
  /\ targets = {}
  /\ outcomes = [k \in Key |-> [what |-> "none", age |-> 0]]
  /\ evidence = [k \in Key |-> {}]

Forget ==
  /\ pc' = "idle"
  /\ started' = 0
  /\ fresh' = {}
  /\ targets' = {}
  /\ outcomes' = [k \in Key |-> [what |-> "none", age |-> 0]]

(* One unit of time passes. *)
Pass ==
  /\ pc # "idle" => started < MaxRun
  /\ started' = IF pc = "idle" THEN 0 ELSE started + 1
  /\ journal' = [i \in DOMAIN journal |-> [journal[i] EXCEPT !.event.age = Older(@)]]
  /\ health' = [k \in Key |-> [health[k] EXCEPT !.left = Nearer(@), !.success = Staler(@)]]
  /\ outcomes' = [k \in Key |-> IF outcomes[k].what = "none" THEN outcomes[k]
                                ELSE [outcomes[k] EXCEPT !.age = Older(@)]]
  /\ UNCHANGED <<passthrough, truth, pc, fresh, targets, evidence>>

(* A provider goes down, recovers, or exhausts its quota. *)
TruthChanges(k) ==
  /\ k \in Probeable
  /\ \E answer \in Truths[k] : truth' = [truth EXCEPT ![k] = answer]
  /\ UNCHANGED <<passthrough, journal, health, process, evidence>>

(* Real traffic fails, of the Offering's doing or of the client's. *)
TrafficFails(k) ==
  /\ Len(journal) < MaxEntries
  /\ \E what \in Failures[k] :
       journal' = Append(journal, [key |-> k, event |-> [what |-> what, age |-> 0]])
  /\ UNCHANGED <<passthrough, truth, health, process, evidence>>

(* A run reads the clock and Health State. *)
ReadHealth ==
  /\ pc = "idle"
  /\ pc' = "reading"
  /\ fresh' = {k \in Key : IsFresh(health[k])}
  /\ UNCHANGED <<passthrough, truth, journal, health, started, targets, outcomes, evidence>>

(* An ordinary run sweeps whatever is not fresh. *)
SweepStale ==
  /\ pc = "reading"
  /\ fresh' = {}
  /\ pc' = "sweeping"
  /\ targets' = Probeable \ fresh
  /\ UNCHANGED <<passthrough, truth, journal, health, started, outcomes, evidence>>

(* Faulty: Passthrough Auth Offerings are probed too. *)
ConfirmOnlyAnyone ==
  /\ pc = "reading"
  /\ journal # <<>>
  /\ fresh' = {}
  /\ pc' = "confirming"
  /\ targets' = {k \in Key : \E i \in DOMAIN journal :
                   journal[i].key = k /\ NeedsConfirming(journal[i].event.what)}
  /\ UNCHANGED <<passthrough, truth, journal, health, started, outcomes, evidence>>

(* A journal-triggered run probes only what needs confirming. *)
ConfirmOnly ==
  /\ pc = "reading"
  /\ journal # <<>>
  /\ fresh' = {}
  /\ pc' = "confirming"
  /\ targets' = {k \in Probeable : \E i \in DOMAIN journal :
                   journal[i].key = k /\ NeedsConfirming(journal[i].event.what)}
  /\ UNCHANGED <<passthrough, truth, journal, health, started, outcomes, evidence>>

(* Faulty: only the first target is ever probed. *)
ProbeOfferingOnce(k) ==
  /\ pc \in Probing
  /\ k \in targets
  /\ outcomes' = [outcomes EXCEPT ![k] = [what |-> truth[k], age |-> 0]]
  /\ targets' = {}
  /\ UNCHANGED <<passthrough, truth, journal, health, pc, started, fresh, evidence>>

(* One Probe, its one retry included. *)
ProbeOffering(k) ==
  /\ pc \in Probing
  /\ k \in targets
  /\ outcomes' = [outcomes EXCEPT ![k] = [what |-> truth[k], age |-> 0]]
  /\ targets' = targets \ {k}
  /\ UNCHANGED <<passthrough, truth, journal, health, pc, started, fresh, evidence>>

(* Every target answered: fold the outcomes and the Journal, and rotate. *)
FoldRun ==
  /\ pc \in Probing
  /\ targets = {}
  /\ health' = Reduce
  /\ evidence' = [k \in Key |-> EvidenceAfter(k, Folded(k))]
  /\ journal' = <<>>
  /\ Forget
  /\ UNCHANGED <<passthrough, truth>>

OHNext ==
  \/ Pass \/ ReadHealth \/ SweepStale \/ ConfirmOnly \/ FoldRun
  \/ \E k \in Key : TruthChanges(k) \/ TrafficFails(k) \/ ProbeOffering(k)

OHSpec == OHInit /\ [][OHNext]_OHvars

(* Time passes, and runs start again and again and go on.  Which of them   *)
(* sweep is not assumed: a failing client can make every run a confirming  *)
(* one, because any run counts for the interval (schedule.due).  Only with *)
(* nothing in the Journal must a run sweep.                                *)
OHFairness ==
  /\ WF_OHvars(Pass)
  /\ WF_OHvars(ReadHealth)
  /\ WF_OHvars(SweepStale \/ ConfirmOnly)
  /\ WF_OHvars(FoldRun \/ \E k \in Key : ProbeOffering(k))

OHFairSpec == OHSpec /\ OHFairness

-----------------------------------------------------------------------------
(* Type invariant. *)
OHTypeOK ==
  /\ passthrough \subseteq Key
  /\ \A k \in Key : truth[k] \in Truths[k]
  /\ journal \in Seq(Observation) /\ Len(journal) <= MaxEntries
  /\ health \in [Key -> Record]
  /\ pc \in {"idle", "reading"} \cup Probing
  /\ started \in 0..MaxRun
  /\ fresh \subseteq Key
  /\ targets \subseteq Probeable
  /\ outcomes \in [Key -> Event \cup {[what |-> "none", age |-> 0]}]
  /\ evidence \in [Key -> SUBSET {"traffic", "probe"}]

(* An Offering is Excluded on its own evidence: an event of its own key    *)
(* that counts against it, since it last answered or its exclusion last    *)
(* ran out.  A pool mate's quota, a failure classify does not recognise in *)
(* real traffic, and a Passthrough Auth caller's quota or credential are   *)
(* no such evidence (ADR 0004, ADR 0008).                                  *)
ExcludedOnOwnEvidence ==
  \A k \in Key : health[k].excluded => evidence[k] # {}

(* A Probe overrules every entry up to the run's reading of the clock: a   *)
(* key whose Probe answered is Excluded by that fold only on an entry      *)
(* written since.  reduce promises more, see ProbeHasTheLastWord.          *)
ProbeOverrules ==
  FoldRun =>
    \A k \in Key :
      /\ outcomes[k].what = "answered"
      /\ health'[k].excluded
      => \E i \in DOMAIN journal : journal[i].key = k /\ journal[i].event.age < started
ProbeOverrulesEarlier == [][ProbeOverrules]_OHvars

(* "With the Probe outcome always last" (the docstring of reduce): a fold  *)
(* leaves no key Excluded whose Probe answered.                            *)
ProbeHasTheLastWord ==
  [][FoldRun => \A k \in Key : outcomes[k].what = "answered" => ~health'[k].excluded]_OHvars

(* A mark asks for a measurement: only a key that a record is known of and *)
(* that can be probed is ever marked.                                      *)
MarksAreProbeable ==
  \A k \in Key : health[k].due => k \in Probeable /\ health[k].known

(* What a key's record needs in order to follow its provider: its own      *)
(* traffic no longer fails, and runs go on measuring, because no traffic   *)
(* fails or because sweeps recur all the same.                             *)
Settled(k, answer) ==
  /\ <>[](/\ truth[k] = answer /\ k \in Probeable
         /\ \A i \in DOMAIN journal : journal[i].key # k)
  /\ <>[](journal = <<>>) \/ []<>(pc = "sweeping")

(* An Offering whose provider answers again, once it is Settled, stops     *)
(* being Excluded for good.                                                *)
Recovers == \A k \in Key : Settled(k, "answered") => <>[](~health[k].excluded)

(* An Offering whose credential is dead is found out, once it is Settled,  *)
(* and stays Excluded, also when no client ever calls it.                  *)
FoundOut == \A k \in Key : Settled(k, "authentication_failed") => <>[](health[k].excluded)

(* A failing client cannot keep another Offering from returning: what      *)
(* Recovers says, whatever traffic does to other keys.                     *)
RecoversRegardless ==
  \A k \in Key :
    <>[](truth[k] = "answered" /\ k \in Probeable
         /\ \A i \in DOMAIN journal : journal[i].key # k)
      => <>[](~health[k].excluded)

(* "A timeout gets exactly one confirming Probe": an Offering that can be  *)
(* probed does not become Excluded for a timeout or a refused credential   *)
(* that only real traffic has seen.                                        *)
DoubtIsConfirmed ==
  [][\A k \in Probeable :
       /\ ~health[k].excluded
       /\ health'[k].excluded
       /\ health'[k].reason \in {"timeout", "authentication_failed"}
       => "probe" \in evidence'[k]]_OHvars
=============================================================================
