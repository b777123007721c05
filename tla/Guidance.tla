------------------------------ MODULE Guidance ------------------------------
(***************************************************************************)
(* What the maintainer recommends: guidance.derive ranks the Offerings     *)
(* from Health State, Headroom State and the clock, and roles turn the     *)
(* ranking into ladders, Model Groups of the Generated Config.             *)
(*                                                                         *)
(* A run probes what is not fresh, folds that and the failures of real     *)
(* traffic, in one step: how the parts of a run interleave is the subject  *)
(* of HealthFold, Tick, OfferingHealth and ConfigWrite; when the ladders   *)
(* are written, of RoleWrites.  Of Headroom, only how long a fully drawn   *)
(* figure still stands is kept; module Headroom says when it does.  Times  *)
(* are ages or times left, so behaviours may be infinite.                  *)
(***************************************************************************)
EXTENDS Integers, Sequences, FiniteSets

CONSTANTS
  Offering,     \* Offerings the Policy may admit, each under one Alias
  Passthrough,  \* those whose credentials the caller brings: never probed
  Edited,       \* bound: those the operator withholds and admits again
  Truths,       \* what each Offering's provider may answer
  Model,        \* each Offering's Canonical Model
  Basis,        \* each Offering's cost basis: a rank, cheapest first
  Context,      \* each Offering's stated window
  Allowance,    \* each Offering's Allowance
  Position,     \* each Offering's place in the plan report
  Score,        \* each model's rank on the axis: by score, then by id
  Able,         \* models the Feed states every capability for
  Rules,        \* per Role: bases, limit, context and the preferred basis
  Staleness,    \* schedule.maximum_staleness_hours
  ResetAfter,   \* how far ahead a quota message states its reset
  FigureFor,    \* how long a fully drawn figure stands at most
  DemoteAtFull, \* headroom.demote_at_full
  Nothing       \* no time, no preference

Models == {Model[o] : o \in Offering}
Allowances == {Allowance[o] : o \in Offering}
Roles == DOMAIN Rules
Answer == {"answered", "quota", "quota, no reset", "other"}
Reason == {"none", "quota_exhausted", "other"}

ASSUME GuidanceAssumption ==
  /\ Passthrough \subseteq Offering /\ Edited \subseteq Offering
  /\ Truths \in [Offering -> SUBSET Answer]
  /\ Basis \in [Offering -> Int] /\ Context \in [Offering -> Int]
  /\ Position \in [Offering -> Int] /\ Score \in [Models -> Int]
  /\ IsFiniteSet(Offering) /\ Nothing \notin Int
  /\ Staleness \in Nat \ {0} /\ ResetAfter \in Nat /\ FigureFor \in Nat \ {0}
  /\ \A o, p \in Offering : o # p => Position[o] # Position[p]
  /\ \A m, n \in Models : m # n => Score[m] # Score[n]
  /\ \A r \in Roles : Rules[r].limit \in Nat \ {0}

VARIABLES
  truth,     \* what each Offering's provider would answer now
  drawn,     \* the Allowances that are really fully drawn
  admitted,  \* the Offerings the plan admits
  health,    \* Health State
  figure     \* per Allowance, how long a stored fully drawn figure stands

Gvars == <<truth, drawn, admitted, health, figure>>

Age == 0..Staleness \cup {Nothing}
Record == [excluded : BOOLEAN, reason : Reason, left : 0..ResetAfter \cup {Nothing},
           attempt : Age, success : Age]
NoRecord == [excluded |-> FALSE, reason |-> "none", left |-> Nothing,
             attempt |-> Nothing, success |-> Nothing]

-----------------------------------------------------------------------------
(* Faulty: without a reset time, an exhaustion stands until a success. *)
ExhaustedForGood(record) ==
  /\ record.reason = "quota_exhausted"
  /\ record.left # Nothing => record.left > 0

(* route_is_exhausted: until the stated reset, or for the staleness limit. *)
Exhausted(record) ==
  /\ record.reason = "quota_exhausted"
  /\ IF record.left # Nothing THEN record.left > 0
     ELSE record.attempt # Nothing /\ record.attempt < Staleness

(* Route.recommendable, _demoted_by_headroom among its reasons. *)
Recommendable(asked, records, figures) ==
  {o \in asked : /\ ~records[o].excluded
                 /\ ~Exhausted(records[o])
                 /\ ~(DemoteAtFull /\ figures[Allowance[o]] > 0)}

(* All that a ranking depends on. *)
View(asked, records, figures) ==
  [admitted |-> asked, success |-> [o \in Offering |-> records[o].success],
   recommendable |-> Recommendable(asked, records, figures)]

Now == View(admitted, health, figure)

(* A row's Routes, narrowed to a window. *)
RoutesOf(k, m, rule) == {o \in k.admitted : Model[o] = m /\ Context[o] >= rule.context}

(* Which of two answered last; no success counts as the oldest. *)
Staler(s, t) == t # Nothing /\ (s = Nothing \/ s > t)

(* _route_sort_key: recommendable, then cheapest, then most recently       *)
(* answered; the sort is stable.                                           *)
RouteBefore(k, o, p) ==
  IF (o \in k.recommendable) # (p \in k.recommendable) THEN o \in k.recommendable
  ELSE IF Basis[o] # Basis[p] THEN Basis[o] < Basis[p]
  ELSE IF k.success[o] # k.success[p] THEN Staler(k.success[p], k.success[o])
  ELSE Position[o] < Position[p]

(* The Route that is listed first, if any. *)
First(k, routes) ==
  {o \in routes : \A p \in routes \ {o} : RouteBefore(k, o, p)}

(* GuidanceRow.best_route, if any. *)
BestRoute(k, m, rule) == First(k, RoutesOf(k, m, rule) \cap k.recommendable)

(* The tier _row_sort_key puts in front. *)
Tier(k, m, rule) ==
  IF rule.prefer = Nothing \/ \E o \in BestRoute(k, m, rule) : Basis[o] = rule.prefer THEN 0 ELSE 1

(* _row_sort_key: the preferred tier first, callable rows, best score. *)
RowBefore(k, rule, m, n) ==
  LET dead == {x \in {m, n} : BestRoute(k, x, rule) = {}} IN
  IF Tier(k, m, rule) # Tier(k, n, rule) THEN Tier(k, m, rule) < Tier(k, n, rule)
  ELSE IF (m \in dead) # (n \in dead) THEN n \in dead
  ELSE Score[m] > Score[n]

(* What a row adds to a ladder, if it qualifies: the first of its Routes   *)
(* that may be billed and is recommendable.                                *)
Rung(k, rule, m) ==
  IF m \in Able
  THEN First(k, {o \in RoutesOf(k, m, rule) \cap k.recommendable : Basis[o] \in rule.bases})
  ELSE {}

(* A row's place among others, best first. *)
Place(k, rule, rows, m) == Cardinality({n \in rows : RowBefore(k, rule, n, m)}) + 1

(* The rungs of these rows, best first. *)
Listed(k, rule, rows) ==
  [i \in 1..Cardinality(rows) |->
     CHOOSE o \in Offering : \E m \in rows : o \in Rung(k, rule, m) /\ Place(k, rule, rows, m) = i]

UpTo(limit, listed) == SubSeq(listed, 1, IF Len(listed) > limit THEN limit ELSE Len(listed))

(* Faulty: the limit counts the rows looked at. *)
LadderShort(k, rule) ==
  LET rows == {m \in Models : RoutesOf(k, m, rule) # {}} IN
  Listed(k, rule, {m \in rows : Rung(k, rule, m) # {} /\ Place(k, rule, rows, m) <= rule.limit})

(* _ladder_for: the rungs of the rows that add one, up to the limit. *)
Ladder(k, rule) == UpTo(rule.limit, Listed(k, rule, {m \in Models : Rung(k, rule, m) # {}}))

-----------------------------------------------------------------------------
(* reduce._apply_outcome. *)
Observed(o, record, what) ==
  IF what = "answered"
  THEN [NoRecord EXCEPT !.attempt = 0, !.success = 0]
  ELSE [excluded |-> record.excluded \/ ~(o \in Passthrough /\ what # "other"),
        reason |-> IF what = "other" THEN "other" ELSE "quota_exhausted",
        left |-> IF what = "quota" THEN ResetAfter ELSE Nothing,
        attempt |-> 0, success |-> record.success]

(* Faulty: the exclusion stays when its reason goes. *)
ExpiredHalf(record) ==
  IF record.excluded /\ record.left = 0
  THEN [record EXCEPT !.reason = "none", !.left = Nothing] ELSE record

(* reduce._apply_reset_expiry. *)
Expired(record) ==
  IF record.excluded /\ record.left = 0
  THEN [record EXCEPT !.excluded = FALSE, !.reason = "none", !.left = Nothing] ELSE record

(* prober._is_fresh. *)
Fresh(record) ==
  IF record.excluded THEN record.left # Nothing /\ record.left > 0
  ELSE record.success # Nothing /\ record.success < Staleness

-----------------------------------------------------------------------------
GInit ==
  /\ truth = [o \in Offering |-> "answered"]
  /\ drawn = {}
  /\ admitted = Offering
  /\ health = [o \in Offering |-> NoRecord]
  /\ figure = [a \in Allowances |-> 0]

(* A provider changes what it answers. *)
TruthChanges(o) ==
  /\ \E answer \in Truths[o] \ {truth[o]} : truth' = [truth EXCEPT ![o] = answer]
  /\ UNCHANGED <<drawn, admitted, health, figure>>

(* An Allowance is fully drawn, or refills. *)
DrawnChanges(a) ==
  /\ drawn' = IF a \in drawn THEN drawn \ {a} ELSE drawn \cup {a}
  /\ UNCHANGED <<truth, admitted, health, figure>>

(* The operator withholds an Offering or admits it again. *)
PolicyChanges(o) ==
  /\ admitted' = IF o \in admitted THEN admitted \ {o} ELSE admitted \cup {o}
  /\ UNCHANGED <<truth, drawn, health, figure>>

Older(age) == IF age = Nothing \/ age = Staleness THEN age ELSE age + 1
Nearer(left) == IF left = Nothing \/ left = 0 THEN left ELSE left - 1

(* One unit of time passes. *)
Pass ==
  /\ health' = [o \in Offering |-> [health[o] EXCEPT !.left = Nearer(@),
                                     !.attempt = Older(@), !.success = Older(@)]]
  /\ figure' = [a \in Allowances |-> Nearer(figure[a])]
  /\ UNCHANGED <<truth, drawn, admitted>>

(* headroom refresh stores what codexbar says of one Allowance. *)
Refresh(a) ==
  /\ IF a \in drawn THEN \E n \in 1..FigureFor : figure' = [figure EXCEPT ![a] = n]
                    ELSE figure' = [figure EXCEPT ![a] = 0]
  /\ UNCHANGED <<truth, drawn, admitted, health>>

(* A run folds what it probed and the failures of real traffic, and drops  *)
(* the records of what is not admitted.                                    *)
Fold(probed, failed) ==
  /\ health' = [o \in Offering |->
       IF o \notin admitted THEN NoRecord
       ELSE IF o \in probed \cup failed THEN Observed(o, health[o], truth[o])
       ELSE Expired(health[o])]
  /\ UNCHANGED <<truth, drawn, admitted, figure>>

Failing == {o \in admitted : truth[o] # "answered"}

(* An ordinary run probes what is not fresh. *)
Sweep ==
  \E failed \in SUBSET Failing : Fold({o \in admitted \ Passthrough : ~Fresh(health[o])}, failed)

(* A run that failures of real traffic triggered probes only those. *)
Confirm == \E failed \in SUBSET Failing \ {{}} : Fold(failed \ Passthrough, failed)

GNext ==
  \/ \E o \in Offering : TruthChanges(o)
  \/ \E o \in Edited : PolicyChanges(o)
  \/ \E a \in Allowances : DrawnChanges(a) \/ Refresh(a)
  \/ Pass
  \/ Sweep \/ Confirm

GSpec == GInit /\ [][GNext]_Gvars

(* Time passes, and the schedulers start runs and refreshes.  Which runs   *)
(* sweep is not assumed: as long as traffic fails, all may be confirming.  *)
GFairness ==
  WF_Gvars(Pass) /\ WF_Gvars(Sweep \/ Confirm) /\ \A a \in Allowances : WF_Gvars(Refresh(a))

GFairSpec == GSpec /\ GFairness

-----------------------------------------------------------------------------
(* Type invariant; an exclusion has a reason. *)
GTypeOK ==
  /\ truth \in [Offering -> Answer]
  /\ drawn \subseteq Allowances
  /\ admitted \subseteq Offering
  /\ health \in [Offering -> Record]
  /\ \A o \in Offering : health[o].excluded => health[o].reason # "none"
  /\ figure \in [Allowances -> 0..FigureFor]

(* What a ladder promises, without its algorithm. *)
Qualifies(k, rule, o) ==
  o \in k.recommendable /\ Basis[o] \in rule.bases /\ Context[o] >= rule.context /\ Model[o] \in Able

BestLadder(k, rule, ladder) ==
  LET rungs == {ladder[i] : i \in DOMAIN ladder} IN
  /\ \A o \in rungs : Qualifies(k, rule, o)
  /\ \A i, j \in DOMAIN ladder : i # j => Model[ladder[i]] # Model[ladder[j]]
  /\ \A i, j \in DOMAIN ladder : i < j =>
       \/ Score[Model[ladder[i]]] > Score[Model[ladder[j]]]
       \/ Tier(k, Model[ladder[i]], rule) < Tier(k, Model[ladder[j]], rule)
  /\ \A o \in Offering : Qualifies(k, rule, o) =>
       \/ \E p \in rungs : Model[p] = Model[o] /\ Basis[p] <= Basis[o]
       \/ /\ Len(ladder) = rule.limit
          /\ \A p \in rungs : \/ Score[Model[p]] > Score[Model[o]]
                              \/ Tier(k, Model[p], rule) < Tier(k, Model[o], rule)

(* A ladder names, of each model that any qualifying Route reaches, one of *)
(* its cheapest, best models first, and leaves a qualifying model out only *)
(* at its limit and for better ones.  It never names a Route that is       *)
(* Excluded, exhausted, drained, too small or billed on another basis.     *)
LadderIsBest == \A r \in Roles : BestLadder(Now, Rules[r], Ladder(Now, Rules[r]))

(* Runs go on measuring: no traffic fails, or sweeps recur all the same.   *)
Measuring == <>[](Failing = {}) \/ []<><<Sweep>>_Gvars

(* While runs go on measuring, no working Offering is hidden for ever: one *)
(* that answers from some time on, on an Allowance that is not drawn, is   *)
(* recommended from some time on.  A Passthrough Auth Offering is never    *)
(* probed, so only the clock can clear its exhaustion, and a figure nobody *)
(* refreshes must run out.  One that is Excluded is left out: see          *)
(* NoneHiddenForEver.                                                      *)
HiddenNotForever ==
  Measuring =>
    \A o \in Offering :
      <>[](/\ o \in admitted /\ truth[o] = "answered" /\ Allowance[o] \notin drawn
           /\ ~(o \in Passthrough /\ health[o].excluded))
        => <>[](o \in Recommendable(admitted, health, figure))

(* The same of every Offering, a Passthrough Auth one that a timeout of    *)
(* real traffic has Excluded among them.                                   *)
NoneHiddenForEver ==
  Measuring =>
    \A o \in Offering :
      <>[](o \in admitted /\ truth[o] = "answered" /\ Allowance[o] \notin drawn)
        => <>[](o \in Recommendable(admitted, health, figure))
=============================================================================
