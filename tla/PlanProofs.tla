----------------------------- MODULE PlanProofs -----------------------------
(***************************************************************************)
(* Proofs about Plan, for any Offerings, Declared Offerings, Policies and  *)
(* Feeds.  Each property is about what a plan holds once it has walked the *)
(* Feed, so the invariant says what the draft holds part of the way.       *)
(***************************************************************************)
EXTENDS Reports, FiniteSetTheorems, TLAPS

(* What plan makes of the inputs as they stand. *)
Passes(o) == Why(o) = "nothing" /\ ~feed[o].thin
EntriesOver(walked) ==
  DeclaredEntries \cup UNION {EntriesOf(o) : o \in {p \in walked : Passes(p)}}
RestorableOver(walked) == {o \in walked : Restorable(o)}

(* The draft is the plan of the Offerings walked so far. *)
Complete ==
  pc = "planning" =>
    /\ todo \subseteq Considered
    /\ draft.entries = EntriesOver(Considered \ todo)
    /\ draft.report.restorable = RestorableOver(Considered \ todo)

(* What the report says of the Offerings walked so far, list by list. *)
AdmittedOver(walked) == Offered \cup {o \in walked : Passes(o)}
ExcludedOver(walked) ==
  {d \in Offered : health[HealthKey(d)].excluded}
    \cup {o \in walked : Why(o) = "nothing" /\ health[o].excluded}
UnlistedOver(walked) == (policy.declared \ Offered) \cup {o \in walked : Why(o) = "gone"}
CandidatesOver(walked) ==
  {o \in walked : Why(o) = "unscored" /\ feed[o].score = "unscored"}
SunsettingOver(walked) == {o \in walked : Passes(o) /\ Sunsetting(o)}
ReasonOf(o) ==
  IF Why(o) # "nothing" THEN Why(o) ELSE IF feed[o].thin THEN "untranslatable" ELSE "nothing"
DroppedOver(walked) == [o \in Offering |-> IF o \in walked THEN ReasonOf(o) ELSE "nothing"]

ReportOver(report, walked) ==
  /\ report.admitted = AdmittedOver(walked)
  /\ report.excluded = ExcludedOver(walked)
  /\ report.unlisted = UnlistedOver(walked)
  /\ report.candidates = CandidatesOver(walked)
  /\ report.sunsetting = SunsettingOver(walked)
  /\ report.dropped = DroppedOver(walked)
Reported == pc = "planning" => ReportOver(draft.report, Considered \ todo)

(* An entry's Alias is its own, in the draft and in the config. *)
Distinct(entries) == \A e, f \in entries : e.alias = f.alias => e = f
DraftApart ==
  pc = "planning" =>
    /\ Distinct(draft.entries)
    /\ \A e \in draft.entries : e.kind = "declared" => e.alias \in DeclaredAliases

(* With nothing new since, the config is what plan would write now. *)
Current == since = {} => config = EntriesOver(Considered)

(* With Feed and Policy as they were, what was restorable by a Probe still *)
(* lacks nothing else.                                                     *)
Awaiting(o) ==
  /\ o \in Considered /\ ~feed[o].listed /\ feed[o].leaving
  /\ o \notin Superseded /\ WouldPass(o)
LastAwaiting == Unedited => \A o \in last.restorable : Awaiting(o)

(* After a sweep whatever it may probe has a record. *)
SweptKnown == pc # "idle" /\ by = "sweep" => \A k \in Targets : health[k].known

IInv == /\ TypeOK /\ Complete /\ Reported /\ DraftApart /\ AliasesApart
        /\ Current /\ LastAwaiting /\ SweptKnown

-----------------------------------------------------------------------------
(* What the entries an Offering is given look like. *)
LEMMA EntriesOfType ==
  ASSUME PlanAssumption, TypeOK, NEW o \in Offering
  PROVE  EntriesOf(o) \subseteq Entry
<1>1. policy \in Policy
  BY DEF PlanAssumption, TypeOK
<1>2. AliasOf(o) \in Stem
  BY <1>1 DEF PlanAssumption, AliasOf, Policy
<1>3. AliasOf(o) \in Name /\ Suffixed[AliasOf(o)] \in Name
  BY <1>2 DEF PlanAssumption
<1>4. Primary(o) \in Entry /\ Variant(o) \in Entry
  BY <1>3 DEF Primary, Variant, Entry, Key
<1>5. QED
  BY <1>4 DEF EntriesOf

LEMMA DeclaredEntriesType ==
  ASSUME PlanAssumption, TypeOK
  PROVE  DeclaredEntries \subseteq Entry /\ policy.declared \subseteq Declaration
<1>1. policy \in Policy
  BY DEF PlanAssumption, TypeOK
<1>2. policy.declared \subseteq Declaration /\ policy.alias \in [Declaration -> Stem]
  BY <1>1 DEF Policy
<1>3. \A d \in Offered : d \in Key /\ policy.alias[d] \in Name
  BY <1>2 DEF Offered, Key, PlanAssumption
<1>4. QED
  BY <1>2, <1>3 DEF DeclaredEntries, Entry

LEMMA HealthKeyType ==
  ASSUME PlanAssumption, TypeOK, NEW d \in policy.declared
  PROVE  HealthKey(d) \in Declaration
<1>1. policy \in Policy
  BY DEF PlanAssumption, TypeOK
<1>2. QED
  BY <1>1 DEF HealthKey, Policy

LEMMA WorklistType ==
  ASSUME PlanAssumption, TypeOK
  PROVE  Targets \subseteq Worklist /\ Worklist \subseteq Key
BY HealthKeyType DEF Targets, Worklist, DiscoveredAdmitted, Considered, Published, Key

(* No outcome leaves a Gone that is not an exclusion. *)
LEMMA AppliedType ==
  ASSUME NEW r \in Record, r.gone => r.excluded, NEW what \in Measurement \cup {"none"}
  PROVE  /\ Applied(r, what) \in Record
         /\ Applied(r, what).gone => Applied(r, what).excluded
         /\ r.known => Applied(r, what).known
         /\ what \notin {"none", "expired"} => Applied(r, what).known
BY DEF Applied, Record, Measurement

(* What Why says, reason by reason. *)
LEMMA WhyType ==
  ASSUME PlanAssumption, TypeOK, NEW o \in Offering
  PROVE  /\ Why(o) \in Reason
         /\ feed[o] \in Fact
<1>1. feed[o] \in Fact
  BY DEF PlanAssumption, TypeOK
<1>2. feed[o].bar \in Bar
  BY <1>1 DEF Fact
<1>3. QED
  BY <1>1, <1>2 DEF Why, Reason, Bar

LEMMA RestorableIsHidden ==
  ASSUME NEW o \in Offering, Restorable(o)
  PROVE  Why(o) = "visibility" /\ (o \in Considered => Awaiting(o))
<1>1. feed[o].bar = "nothing" /\ Hidden(o)
  BY DEF Restorable, Hidden, Sunsetting, WouldPass
<1>2. Why(o) = "visibility"
  BY <1>1 DEF Why
<1>3. QED
  BY <1>2 DEF Restorable, Awaiting

(* An Offering that lacks nothing but a Probe's success is probed. *)
LEMMA AwaitingProbed ==
  ASSUME NEW o \in Offering, Awaiting(o)
  PROVE  o \in Targets
BY DEF Awaiting, Targets, DiscoveredAdmitted, WouldPass

-----------------------------------------------------------------------------
(* Type correctness, action by action. *)
LEMMA DraftFields ==
  ASSUME NEW entries \in SUBSET Entry, NEW report \in Report
  PROVE  [entries |-> entries, report |-> report] \in [entries : SUBSET Entry, report : Report]
OBVIOUS

LEMMA EmptyType == ASSUME PlanAssumption PROVE Empty \in [entries : SUBSET Entry, report : Report]
<1>1. [o \in Offering |-> "nothing"] \in [Offering -> Reason]
  BY DEF Reason, Bar
<1>2. NoReport \in Report
  BY <1>1 DEF NoReport, Report
<1>3. QED
  BY <1>2 DEF Empty

(* The report of a Drop. *)
LEMMA DropType ==
  ASSUME PlanAssumption, TypeOK, NEW o \in Offering, Drop(o)
  PROVE  /\ draft' \in [entries : SUBSET Entry, report : Report]
         /\ draft'.entries = draft.entries
         /\ draft'.report.restorable =
              draft.report.restorable \cup IF Restorable(o) THEN {o} ELSE {}
         /\ draft'.report.dropped = [draft.report.dropped EXCEPT ![o] = Why(o)]
         /\ draft'.report.unlisted =
              draft.report.unlisted \cup IF Why(o) = "gone" THEN {o} ELSE {}
         /\ draft'.report.candidates =
              draft.report.candidates
                \cup IF Why(o) = "unscored" /\ feed[o].score = "unscored" THEN {o} ELSE {}
         /\ draft'.report.admitted = draft.report.admitted
         /\ draft'.report.excluded = draft.report.excluded
         /\ draft'.report.sunsetting = draft.report.sunsetting
<1> DEFINE report == draft.report
<1> DEFINE dropped == [report.dropped EXCEPT ![o] = Why(o)]
<1> DEFINE unlisted == report.unlisted \cup IF Why(o) = "gone" THEN {o} ELSE {}
<1> DEFINE restorable ==
      report.restorable \cup IF Why(o) = "visibility" /\ Restorable(o) THEN {o} ELSE {}
<1> DEFINE candidates ==
      report.candidates
        \cup IF Why(o) = "unscored" /\ feed[o].score = "unscored" THEN {o} ELSE {}
<1> DEFINE next == [report EXCEPT !.dropped = dropped, !.unlisted = unlisted,
                                  !.restorable = restorable, !.candidates = candidates]
<1>1. draft.entries \in SUBSET Entry /\ report \in Report
      /\ draft = [entries |-> draft.entries, report |-> report]
  BY DEF TypeOK
<1>2. draft' = [draft EXCEPT !.report = next]
  BY <1>1 DEF Drop, Report
<1>3. /\ next \in Report /\ next.restorable = restorable
      /\ next.dropped = dropped /\ next.unlisted = unlisted /\ next.candidates = candidates
      /\ next.admitted = report.admitted /\ next.excluded = report.excluded
      /\ next.sunsetting = report.sunsetting
  <2>1. dropped \in [Offering -> Reason]
    BY <1>1, WhyType DEF Report
  <2>2. unlisted \subseteq Key /\ restorable \subseteq Offering /\ candidates \subseteq Offering
    BY <1>1 DEF Report, Key
  <2> HIDE DEF dropped, unlisted, restorable, candidates
  <2>3. QED
    BY <1>1, <2>1, <2>2 DEF Report
<1> HIDE DEF next
<1>4. draft'.entries = draft.entries /\ draft'.report = next
      /\ draft' = [entries |-> draft.entries, report |-> next]
  BY <1>1, <1>2
<1>5. restorable = report.restorable \cup IF Restorable(o) THEN {o} ELSE {}
  BY RestorableIsHidden
<1>6. QED
  BY <1>1, <1>3, <1>4, <1>5

(* The report of an Offering that cannot be translated. *)
LEMMA UntranslatableType ==
  ASSUME PlanAssumption, TypeOK, NEW o \in Offering, Untranslatable(o)
  PROVE  /\ draft' \in [entries : SUBSET Entry, report : Report]
         /\ draft'.entries = draft.entries
         /\ draft'.report.restorable = draft.report.restorable
         /\ draft'.report.dropped = [draft.report.dropped EXCEPT ![o] = "untranslatable"]
         /\ draft'.report.unlisted = draft.report.unlisted
         /\ draft'.report.candidates = draft.report.candidates
         /\ draft'.report.admitted = draft.report.admitted
         /\ draft'.report.excluded = draft.report.excluded \cup Excluded(o)
         /\ draft'.report.sunsetting = draft.report.sunsetting
<1> DEFINE report == draft.report
<1> DEFINE dropped == [report.dropped EXCEPT ![o] = "untranslatable"]
<1> DEFINE excluded == report.excluded \cup Excluded(o)
<1> DEFINE next == [report EXCEPT !.dropped = dropped, !.excluded = excluded]
<1>1. draft.entries \in SUBSET Entry /\ report \in Report
      /\ draft = [entries |-> draft.entries, report |-> report]
  BY DEF TypeOK
<1>2. draft' = [draft EXCEPT !.report = next]
  BY <1>1 DEF Untranslatable, Report
<1>3. /\ next \in Report /\ next.restorable = report.restorable
      /\ next.dropped = dropped /\ next.unlisted = report.unlisted
      /\ next.candidates = report.candidates /\ next.admitted = report.admitted
      /\ next.excluded = excluded /\ next.sunsetting = report.sunsetting
  <2>1. dropped \in [Offering -> Reason]
    BY <1>1 DEF Report, Reason
  <2>2. excluded \subseteq Key
    BY <1>1 DEF Report, Key, Excluded
  <2> HIDE DEF dropped, excluded
  <2>3. QED
    BY <1>1, <2>1, <2>2 DEF Report
<1> HIDE DEF next
<1>4. draft'.entries = draft.entries /\ draft'.report = next
      /\ draft' = [entries |-> draft.entries, report |-> next]
  BY <1>1, <1>2
<1>5. QED
  BY <1>1, <1>3, <1>4

(* The entries and the report of an Offering that is written. *)
LEMMA AdmitType ==
  ASSUME PlanAssumption, TypeOK, NEW o \in Offering, Admit(o)
  PROVE  /\ draft' \in [entries : SUBSET Entry, report : Report]
         /\ draft'.entries = draft.entries \cup EntriesOf(o)
         /\ draft'.report.restorable = draft.report.restorable
         /\ draft'.report.dropped = draft.report.dropped
         /\ draft'.report.unlisted = draft.report.unlisted
         /\ draft'.report.candidates = draft.report.candidates
         /\ draft'.report.admitted = draft.report.admitted \cup {o}
         /\ draft'.report.excluded = draft.report.excluded \cup Excluded(o)
         /\ draft'.report.sunsetting =
              draft.report.sunsetting \cup IF Sunsetting(o) THEN {o} ELSE {}
<1> DEFINE report == draft.report
<1> DEFINE entries == draft.entries \cup EntriesOf(o)
<1> DEFINE admitted == report.admitted \cup {o}
<1> DEFINE excluded == report.excluded \cup Excluded(o)
<1> DEFINE sunsetting == report.sunsetting \cup IF Sunsetting(o) THEN {o} ELSE {}
<1> DEFINE next == [report EXCEPT !.admitted = admitted, !.excluded = excluded,
                                  !.sunsetting = sunsetting]
<1>1. draft.entries \in SUBSET Entry /\ report \in Report
      /\ draft = [entries |-> draft.entries, report |-> report]
  BY DEF TypeOK
<1>2. draft' = [draft EXCEPT !.entries = entries, !.report = next]
  BY <1>1 DEF Admit, Report
<1>3. /\ next \in Report /\ next.restorable = report.restorable
      /\ next.dropped = report.dropped /\ next.unlisted = report.unlisted
      /\ next.candidates = report.candidates /\ next.admitted = admitted
      /\ next.excluded = excluded /\ next.sunsetting = sunsetting
  <2>1. admitted \subseteq Key /\ excluded \subseteq Key /\ sunsetting \subseteq Offering
    BY <1>1 DEF Report, Key, Excluded
  <2> HIDE DEF admitted, excluded, sunsetting
  <2>2. QED
    BY <1>1, <2>1 DEF Report
<1>4. entries \in SUBSET Entry
  BY <1>1, EntriesOfType
<1> HIDE DEF next, entries
<1>5. draft'.entries = entries /\ draft'.report = next
      /\ draft' = [entries |-> entries, report |-> next]
  BY <1>1, <1>2
<1>6. QED
  BY <1>3, <1>4, <1>5 DEF entries

(* What plan makes of the Declared Offerings. *)
LEMMA PlanDeclaredType ==
  ASSUME PlanAssumption, TypeOK, PlanDeclared
  PROVE  /\ draft' \in [entries : SUBSET Entry, report : Report]
         /\ draft'.entries = DeclaredEntries
         /\ draft'.report.restorable = {}
         /\ draft'.report.dropped = [o \in Offering |-> "nothing"]
         /\ draft'.report.unlisted = policy.declared \ Offered
         /\ draft'.report.candidates = {}
         /\ draft'.report.admitted = Offered
         /\ draft'.report.excluded = {d \in Offered : health[HealthKey(d)].excluded}
         /\ draft'.report.sunsetting = {}
<1> DEFINE excluded == {d \in Offered : health[HealthKey(d)].excluded}
<1> DEFINE next == [NoReport EXCEPT !.admitted = Offered,
                                    !.unlisted = policy.declared \ Offered,
                                    !.excluded = excluded]
<1>1. Offered \subseteq Key /\ policy.declared \ Offered \subseteq Key /\ excluded \subseteq Key
  BY DeclaredEntriesType DEF Offered, Key
<1>2. /\ NoReport \in Report /\ NoReport.restorable = {}
      /\ NoReport.dropped = [o \in Offering |-> "nothing"]
      /\ NoReport.candidates = {} /\ NoReport.sunsetting = {}
  BY EmptyType DEF Empty, NoReport
<1>3. /\ next \in Report /\ next.restorable = {}
      /\ next.dropped = [o \in Offering |-> "nothing"] /\ next.unlisted = policy.declared \ Offered
      /\ next.candidates = {} /\ next.admitted = Offered /\ next.excluded = excluded
      /\ next.sunsetting = {}
  <2> HIDE DEF excluded
  <2>1. QED
    BY <1>1, <1>2 DEF Report
<1>4. draft' = [entries |-> DeclaredEntries, report |-> next]
  BY DEF PlanDeclared
<1> HIDE DEF next
<1>5. QED
  BY <1>3, <1>4, DeclaredEntriesType

(* A fold keeps the records' type, and none it keeps is unknown again. *)
LEMMA RunFoldsType ==
  ASSUME PlanAssumption, TypeOK, RunFolds
  PROVE  /\ health' \in [Key -> Record]
         /\ \A k \in Key : health'[k].gone => health'[k].excluded
         /\ by' = "sweep" => \A k \in Targets : health'[k].known
<1>1. PICK measured \in [Worklist -> Measurement \cup {"none"}] :
        Fold(measured) /\ by' \in {"confirm"} \cup IF Swept(measured) THEN {"sweep"} ELSE {}
  BY DEF RunFolds
<1>2. ASSUME NEW k \in Key
      PROVE  /\ health'[k] \in Record /\ (health'[k].gone => health'[k].excluded)
             /\ by' = "sweep" /\ k \in Targets => health'[k].known
  <2>1. health[k] \in Record /\ (health[k].gone => health[k].excluded)
    BY DEF TypeOK
  <2>2. CASE k \in Worklist
    <3>1. health'[k] = Applied(health[k], measured[k]) /\ measured[k] \in Measurement \cup {"none"}
      BY <1>1, <2>2 DEF Fold
    <3>2. by' = "sweep" /\ k \in Targets => health[k].known \/ measured[k] \notin {"none", "expired"}
      BY <1>1, <2>2 DEF Swept
    <3>3. QED
      BY <2>1, <3>1, <3>2, AppliedType
  <2>3. CASE k \notin Worklist
    <3>1. health'[k] = NoRecord
      BY <1>1, <2>3 DEF Fold
    <3>2. k \notin Targets
      BY <2>3, WorklistType
    <3>3. QED
      BY <2>3, <3>1, <3>2 DEF NoRecord, Record
  <2>4. QED
    BY <2>2, <2>3
<1>3. health' \in [Key -> Record]
  BY <1>1, <1>2 DEF Fold
<1>4. QED
  BY <1>2, <1>3, WorklistType

LEMMA TypeStep ==
  ASSUME PlanAssumption, TypeOK, [Next]_vars PROVE TypeOK'
<1>1. ASSUME NEW o \in Offering, FeedChanges(o) PROVE TypeOK'
  <2>1. PICK fact \in Facts[o] : feed' = [feed EXCEPT ![o] = fact]
    BY <1>1 DEF FeedChanges
  <2>2. feed' \in [Offering -> UNION {Facts[p] : p \in Offering}]
    BY <2>1 DEF TypeOK
  <2>3. \A p \in Offering : feed'[p] \in Facts[p]
    BY <2>1 DEF TypeOK
  <2>4. QED
    BY <1>1, <2>2, <2>3 DEF FeedChanges, TypeOK
<1>2. CASE PolicyChanges
  BY <1>2 DEF PolicyChanges, TypeOK
<1>3. CASE Generate
  BY <1>3 DEF Generate, TypeOK, inputs
<1>4. CASE RunFolds
  <2>1. since' \subseteq {"feed", "policy", "gone", "answered"}
        /\ by' \in {"none", "generate", "force", "sweep", "confirm"}
    BY <1>4 DEF RunFolds, News, TypeOK
  <2>2. QED
    BY <1>4, <2>1, RunFoldsType DEF RunFolds, TypeOK
<1>5. CASE PlanDeclared
  <2>1. Considered \subseteq Offering
    BY DEF Considered, Published
  <2>2. QED
    BY <1>5, <2>1, PlanDeclaredType DEF PlanDeclared, TypeOK, inputs
<1>6. CASE Leave /\ UNCHANGED <<inputs, config, since, last>>
  BY <1>6, EmptyType DEF Leave, TypeOK, inputs
<1>7. ASSUME NEW o \in Offering, Drop(o) \/ Untranslatable(o) \/ Admit(o) PROVE TypeOK'
  <2>1. draft' \in [entries : SUBSET Entry, report : Report]
    BY <1>7, DropType, UntranslatableType, AdmitType
  <2>2. todo' = todo \ {o} /\ UNCHANGED <<inputs, pc, by, config, since, last>>
    BY <1>7 DEF Drop, Untranslatable, Admit
  <2>3. QED
    BY <2>1, <2>2 DEF TypeOK, inputs
<1>8. CASE Apply
  <2>1. draft.report.unlisted \subseteq Key /\ draft.report.restorable \subseteq Offering
        /\ draft.entries \subseteq Entry
    BY DEF TypeOK, Report
  <2>2. QED
    BY <1>8, <2>1, EmptyType DEF Apply, Leave, TypeOK, inputs
<1>9. CASE UNCHANGED vars
  BY <1>9 DEF vars, inputs, TypeOK
<1>10. QED
  BY <1>1, <1>2, <1>3, <1>4, <1>5, <1>6, <1>7, <1>8, <1>9
  DEF Next, RefuseDeclared, RefuseAlias, RefuseNeverProbed, RailRefuses, Refuse

LEMMA TypeInit == ASSUME PlanAssumption, Init PROVE TypeOK
<1>1. health \in [Key -> Record] /\ \A k \in Key : health[k].gone => health[k].excluded
  BY DEF Init, NoRecord, Record
<1>2. QED
  BY <1>1, EmptyType DEF Init, TypeOK

(* Every variable keeps its type, for any Policies, Feeds and outcomes:    *)
(* the report names no Offering that is not in the Feed, whatever order    *)
(* plan walked it in, and no measurement makes a Gone that is not an       *)
(* exclusion.                                                              *)
THEOREM TypeCorrect == Spec => []TypeOK
<1>1. Init => TypeOK
  BY PlanAssumption, TypeInit
<1>2. TypeOK /\ [Next]_vars => TypeOK'
  BY PlanAssumption, TypeStep
<1>3. QED
  BY <1>1, <1>2, PTL DEF Spec

-----------------------------------------------------------------------------
(* While the inputs stand still, so does all that is computed from them.   *)
LEMMA Still ==
  ASSUME UNCHANGED inputs
  PROVE  /\ Considered' = Considered /\ Targets' = Targets
         /\ Superseded' = Superseded /\ DeclaredAliases' = DeclaredAliases
         /\ DeclaredEntries' = DeclaredEntries
         /\ \A o : /\ Why(o)' = Why(o) /\ EntriesOf(o)' = EntriesOf(o)
                  /\ Passes(o)' = Passes(o)
                  /\ Restorable(o)' = Restorable(o) /\ Awaiting(o)' = Awaiting(o)
<1> USE DEF inputs, Considered, Published, Superseded, DeclaredAliases, HealthKey, Unlisting, Admitted
<1>1. Targets' = Targets
  BY DEF Targets, DiscoveredAdmitted
<1>2. DeclaredEntries' = DeclaredEntries
  BY DEF DeclaredEntries, Offered
<1>3. ASSUME NEW o
      PROVE  Why(o)' = Why(o) /\ Passes(o)' = Passes(o)
  BY DEF Why, Hidden, Sunsetting, Passes
<1>4. ASSUME NEW o PROVE EntriesOf(o)' = EntriesOf(o)
  BY DEF EntriesOf, Wide, Primary, Variant, AliasOf
<1>5. ASSUME NEW o
      PROVE  Restorable(o)' = Restorable(o) /\ Awaiting(o)' = Awaiting(o)
  BY DEF Restorable, Awaiting, WouldPass
<1>6. QED
  BY <1>1, <1>2, <1>3, <1>4, <1>5

LEMMA StillOver ==
  ASSUME UNCHANGED inputs, NEW walked
  PROVE  EntriesOver(walked)' = EntriesOver(walked) /\ RestorableOver(walked)' = RestorableOver(walked)
BY Still DEF EntriesOver, RestorableOver

(* What one more Offering adds. *)
LEMMA OneMore ==
  ASSUME NEW walked, NEW o
  PROVE  /\ EntriesOver(walked \cup {o}) =
              EntriesOver(walked) \cup IF Passes(o) THEN EntriesOf(o) ELSE {}
         /\ RestorableOver(walked \cup {o}) =
              RestorableOver(walked) \cup IF Restorable(o) THEN {o} ELSE {}
BY DEF EntriesOver, RestorableOver

(* The steps that neither walk nor write. *)
LEMMA OtherSteps ==
  /\ PolicyChanges \/ Generate \/ RunFolds => pc' # "planning" /\ config' = config /\ last' = last
  /\ RefuseDeclared \/ RefuseNeverProbed \/ RailRefuses =>
       pc' # "planning" /\ UNCHANGED <<inputs, config, since, last>>
  /\ \A o : FeedChanges(o) => pc' # "planning" /\ config' = config /\ last' = last
  /\ \A o : RefuseAlias(o) => pc' # "planning" /\ UNCHANGED <<inputs, config, since, last>>
<1>1. PolicyChanges \/ Generate \/ RunFolds => pc' # "planning" /\ config' = config /\ last' = last
  BY DEF PolicyChanges, Generate, RunFolds
<1>2. Refuse => pc' # "planning" /\ UNCHANGED <<inputs, config, since, last>>
  BY DEF Refuse, Leave
<1>3. ASSUME NEW o, FeedChanges(o) PROVE pc' # "planning" /\ config' = config /\ last' = last
  BY <1>3 DEF FeedChanges
<1>4. QED
  BY <1>1, <1>2, <1>3 DEF RefuseDeclared, RefuseNeverProbed, RailRefuses, RefuseAlias

LEMMA CompleteStep ==
  ASSUME PlanAssumption, TypeOK, Complete, [Next]_vars PROVE Complete'
<1>1. CASE PlanDeclared
  <2>1. todo' = Considered /\ UNCHANGED inputs /\ Considered' = Considered
    BY <1>1, Still DEF PlanDeclared
  <2>2. draft'.entries = EntriesOver({}) /\ draft'.report.restorable = RestorableOver({})
    BY <1>1, PlanDeclaredType DEF EntriesOver, RestorableOver
  <2>3. EntriesOver({})' = EntriesOver({}) /\ RestorableOver({})' = RestorableOver({})
    BY <2>1, StillOver
  <2>4. Considered' \ todo' = {} /\ todo' \subseteq Considered'
    BY <2>1
  <2>5. QED
    BY <2>2, <2>3, <2>4 DEF Complete, EntriesOver, RestorableOver
<1>2. ASSUME NEW o \in Offering, Drop(o) \/ Untranslatable(o) \/ Admit(o) PROVE Complete'
  <2> DEFINE walked == Considered \ todo
  <2>1. pc = "planning" /\ o \in todo /\ todo' = todo \ {o} /\ UNCHANGED inputs
    BY <1>2 DEF Drop, Untranslatable, Admit
  <2>2. /\ todo \subseteq Considered
        /\ draft.entries = EntriesOver(walked)
        /\ draft.report.restorable = RestorableOver(walked)
    BY <2>1 DEF Complete
  <2>3. Considered' = Considered /\ Considered' \ todo' = walked \cup {o} /\ todo' \subseteq Considered'
    BY <2>1, <2>2, Still
  <2>4. /\ draft'.entries = draft.entries \cup IF Passes(o) THEN EntriesOf(o) ELSE {}
        /\ draft'.report.restorable =
             draft.report.restorable \cup IF Restorable(o) THEN {o} ELSE {}
    <3>1. CASE Drop(o)
      <4>1. ~Passes(o)
        BY <3>1 DEF Drop, Passes
      <4>2. QED
        BY <3>1, <4>1, DropType
    <3>2. CASE Untranslatable(o)
      <4>1. ~Passes(o) /\ Why(o) = "nothing"
        BY <3>2 DEF Untranslatable, Passes
      <4>2. QED
        BY <3>2, <4>1, UntranslatableType, RestorableIsHidden
    <3>3. CASE Admit(o)
      <4>1. Passes(o) /\ Why(o) = "nothing"
        BY <3>3 DEF Admit, Passes
      <4>2. QED
        BY <3>3, <4>1, AdmitType, RestorableIsHidden
    <3>4. QED
      BY <1>2, <3>1, <3>2, <3>3
  <2>5. /\ draft'.entries = EntriesOver(walked \cup {o})
        /\ draft'.report.restorable = RestorableOver(walked \cup {o})
    BY <2>2, <2>4, OneMore
  <2>6. /\ draft'.entries = EntriesOver(Considered \ todo)'
        /\ draft'.report.restorable = RestorableOver(Considered \ todo)'
    BY <2>1, <2>3, <2>5, Still DEF EntriesOver, RestorableOver
  <2>7. QED
    BY <2>3, <2>6 DEF Complete
<1>3. CASE pc' # "planning"
  BY <1>3 DEF Complete
<1>4. CASE UNCHANGED vars
  <2>1. UNCHANGED <<inputs, pc, todo, draft>>
    BY <1>4 DEF vars
  <2>2. Considered' = Considered
    BY <2>1, Still
  <2>3. QED
    BY <2>1, <2>2, Still DEF Complete, EntriesOver, RestorableOver
<1>5. Apply => pc' # "planning"
  BY DEF Apply, Leave
<1>6. QED
  BY <1>1, <1>2, <1>3, <1>4, <1>5, OtherSteps DEF Next

-----------------------------------------------------------------------------
(* Nothing the lists are computed from changes while the inputs do not. *)
LEMMA StillReported ==
  ASSUME UNCHANGED inputs, NEW walked, Considered' \ todo' = walked, ReportOver(draft'.report, walked)
  PROVE  Reported'
<1>1. UNCHANGED <<feed, policy, health>>
  BY DEF inputs
<1>2. Offered' = Offered /\ policy'.declared = policy.declared
  BY <1>1 DEF Offered, HealthKey, Unlisting
<1>3. \A o : Why(o)' = Why(o) /\ Passes(o)' = Passes(o) /\ Sunsetting(o)' = Sunsetting(o)
  BY <1>1, Still DEF Sunsetting
<1>4. \A o : ReasonOf(o)' = ReasonOf(o)
  BY <1>1, <1>3 DEF ReasonOf
<1>5. AdmittedOver(Considered \ todo)' = AdmittedOver(walked)
  BY <1>2, <1>3 DEF AdmittedOver
<1>6. UnlistedOver(Considered \ todo)' = UnlistedOver(walked)
  BY <1>2, <1>3 DEF UnlistedOver
<1>7. ExcludedOver(Considered \ todo)' = ExcludedOver(walked)
  BY <1>1, <1>2, <1>3 DEF ExcludedOver, HealthKey
<1>8. CandidatesOver(Considered \ todo)' = CandidatesOver(walked)
  BY <1>1, <1>3 DEF CandidatesOver
<1>9. SunsettingOver(Considered \ todo)' = SunsettingOver(walked)
  BY <1>3 DEF SunsettingOver
<1>10. DroppedOver(Considered \ todo)' = DroppedOver(walked)
  BY <1>4 DEF DroppedOver
<1>11. QED
  BY <1>5, <1>6, <1>7, <1>8, <1>9, <1>10 DEF Reported, ReportOver

LEMMA ReportedStep ==
  ASSUME PlanAssumption, TypeOK, Complete, Reported, [Next]_vars PROVE Reported'
<1>1. CASE PlanDeclared
  <2>1. Considered' \ todo' = {} /\ UNCHANGED inputs
    BY <1>1, Still DEF PlanDeclared
  <2>2. ReportOver(draft'.report, {})
    BY <1>1, PlanDeclaredType
    DEF ReportOver, AdmittedOver, ExcludedOver, UnlistedOver, CandidatesOver, SunsettingOver,
        DroppedOver
  <2>3. QED
    BY <2>1, <2>2, StillReported
<1>2. ASSUME NEW o \in Offering, Drop(o) \/ Untranslatable(o) \/ Admit(o) PROVE Reported'
  <2> SUFFICES ASSUME NEW walked, walked = Considered \ todo PROVE Reported'
    OBVIOUS
  <2>1. pc = "planning" /\ o \in todo /\ todo' = todo \ {o} /\ UNCHANGED inputs
    BY <1>2 DEF Drop, Untranslatable, Admit
  <2>2. todo \subseteq Considered /\ ReportOver(draft.report, walked)
    BY <2>1 DEF Complete, Reported
  <2>3. Considered' \ todo' = walked \cup {o} /\ o \notin walked
    BY <2>1, <2>2, Still
  <2>4. ReportOver(draft'.report, walked \cup {o})
    <3>1. CASE Drop(o)
      <4>1. ~Passes(o) /\ Why(o) # "nothing" /\ ReasonOf(o) = Why(o)
        BY <3>1 DEF Drop, Passes, ReasonOf
      <4>2. /\ AdmittedOver(walked \cup {o}) = AdmittedOver(walked)
            /\ SunsettingOver(walked \cup {o}) = SunsettingOver(walked)
        BY <4>1 DEF AdmittedOver, SunsettingOver
      <4>3. ExcludedOver(walked \cup {o}) = ExcludedOver(walked)
        BY <4>1 DEF ExcludedOver
      <4>4. UnlistedOver(walked \cup {o}) =
              UnlistedOver(walked) \cup IF Why(o) = "gone" THEN {o} ELSE {}
        BY DEF UnlistedOver
      <4>5. CandidatesOver(walked \cup {o}) =
              CandidatesOver(walked)
                \cup IF Why(o) = "unscored" /\ feed[o].score = "unscored" THEN {o} ELSE {}
        BY DEF CandidatesOver
      <4>6. DroppedOver(walked \cup {o}) = [DroppedOver(walked) EXCEPT ![o] = Why(o)]
        BY <2>3, <4>1 DEF DroppedOver
      <4>7. QED
        BY <2>2, <3>1, <4>2, <4>3, <4>4, <4>5, <4>6, DropType DEF ReportOver
    <3>2. CASE Untranslatable(o)
      <4>1. ~Passes(o) /\ Why(o) = "nothing" /\ ReasonOf(o) = "untranslatable"
        BY <3>2 DEF Untranslatable, Passes, ReasonOf
      <4>2. /\ AdmittedOver(walked \cup {o}) = AdmittedOver(walked)
            /\ SunsettingOver(walked \cup {o}) = SunsettingOver(walked)
        BY <4>1 DEF AdmittedOver, SunsettingOver
      <4>3. ExcludedOver(walked \cup {o}) = ExcludedOver(walked) \cup Excluded(o)
        BY <4>1 DEF ExcludedOver, Excluded
      <4>4. /\ UnlistedOver(walked \cup {o}) = UnlistedOver(walked)
            /\ CandidatesOver(walked \cup {o}) = CandidatesOver(walked)
        BY <4>1 DEF UnlistedOver, CandidatesOver
      <4>5. DroppedOver(walked \cup {o}) = [DroppedOver(walked) EXCEPT ![o] = "untranslatable"]
        BY <2>3, <4>1 DEF DroppedOver
      <4>6. QED
        BY <2>2, <3>2, <4>2, <4>3, <4>4, <4>5, UntranslatableType DEF ReportOver
    <3>3. CASE Admit(o)
      <4>1. Passes(o) /\ Why(o) = "nothing" /\ ReasonOf(o) = "nothing"
        BY <3>3 DEF Admit, Passes, ReasonOf
      <4>2. AdmittedOver(walked \cup {o}) = AdmittedOver(walked) \cup {o}
        BY <4>1 DEF AdmittedOver
      <4>3. ExcludedOver(walked \cup {o}) = ExcludedOver(walked) \cup Excluded(o)
        BY <4>1 DEF ExcludedOver, Excluded
      <4>4. /\ UnlistedOver(walked \cup {o}) = UnlistedOver(walked)
            /\ CandidatesOver(walked \cup {o}) = CandidatesOver(walked)
        BY <4>1 DEF UnlistedOver, CandidatesOver
      <4>5. SunsettingOver(walked \cup {o}) =
              SunsettingOver(walked) \cup IF Sunsetting(o) THEN {o} ELSE {}
        BY <4>1 DEF SunsettingOver
      <4>6. DroppedOver(walked \cup {o}) = DroppedOver(walked)
        BY <2>3, <4>1 DEF DroppedOver
      <4>7. QED
        BY <2>2, <3>3, <4>2, <4>3, <4>4, <4>5, <4>6, AdmitType DEF ReportOver
    <3>4. QED
      BY <1>2, <3>1, <3>2, <3>3
  <2>5. QED
    BY <2>1, <2>3, <2>4, StillReported
<1>3. CASE pc' # "planning"
  BY <1>3 DEF Reported
<1>4. CASE UNCHANGED vars
  <2>1. UNCHANGED <<inputs, pc, todo, draft>>
    BY <1>4 DEF vars
  <2>2. Considered' = Considered
    BY <2>1, Still
  <2>3. QED
    BY <2>1, <2>2, StillReported DEF Reported
<1>5. Apply => pc' # "planning"
  BY DEF Apply, Leave
<1>6. QED
  BY <1>1, <1>2, <1>3, <1>4, <1>5, OtherSteps DEF Next

-----------------------------------------------------------------------------
(* An Offering that clashes with nothing adds Aliases of its own.          *)
LEMMA AdmitApart ==
  ASSUME PlanAssumption, TypeOK, DraftApart, NEW o \in Offering, Admit(o)
  PROVE  /\ Distinct(draft.entries \cup EntriesOf(o))
         /\ \A e \in draft.entries \cup EntriesOf(o) :
              e.kind = "declared" => e.alias \in DeclaredAliases
<1>1. /\ Distinct(draft.entries)
      /\ \A e \in draft.entries : e.kind = "declared" => e.alias \in DeclaredAliases
  BY DEF DraftApart, Admit
<1>2. ASSUME NEW e \in EntriesOf(o) PROVE e.kind # "declared" /\ ~Taken(e.alias)
  BY <1>2 DEF EntriesOf, Primary, Variant, Admit, Clash
<1>3. ASSUME NEW e \in draft.entries, NEW f \in EntriesOf(o) PROVE e.alias # f.alias
  <2>1. SUFFICES ASSUME e.alias = f.alias PROVE Taken(f.alias)
    BY <1>2
  <2>2. QED
    BY <1>1, <2>1 DEF Taken
<1>4. AliasOf(o) \in Stem
  <2>1. policy \in Policy
    BY DEF PlanAssumption, TypeOK
  <2>2. QED
    BY <2>1 DEF PlanAssumption, AliasOf, Policy
<1>5. Distinct(EntriesOf(o))
  BY <1>4 DEF Distinct, EntriesOf, Primary, Variant, PlanAssumption
<1>6. QED
  BY <1>1, <1>2, <1>3, <1>5 DEF Distinct

LEMMA ApartStep ==
  ASSUME PlanAssumption, TypeOK, DraftApart, AliasesApart, [Next]_vars
  PROVE  DraftApart' /\ AliasesApart'
<1>1. CASE PlanDeclared
  <2>1. draft'.entries = DeclaredEntries /\ UNCHANGED <<inputs, config>>
    BY <1>1, PlanDeclaredType DEF PlanDeclared
  <2>2. DeclaredAliases' = DeclaredAliases
    BY <2>1, Still
  <2>3. DeclaredApart /\ Offered \subseteq policy.declared
    BY <1>1 DEF PlanDeclared, Offered
  <2>4. Distinct(DeclaredEntries)
    BY <2>3 DEF Distinct, DeclaredEntries, DeclaredApart
  <2>5. \A e \in DeclaredEntries : e.alias \in DeclaredAliases
    BY <2>3 DEF DeclaredEntries, DeclaredAliases
  <2>6. QED
    BY <2>1, <2>2, <2>4, <2>5 DEF DraftApart, AliasesApart, Distinct
<1>2. ASSUME NEW o \in Offering, Drop(o) \/ Untranslatable(o) \/ Admit(o)
      PROVE  DraftApart' /\ AliasesApart'
  <2>1. pc = "planning" /\ UNCHANGED <<inputs, config>>
    BY <1>2 DEF Drop, Untranslatable, Admit
  <2>2. DeclaredAliases' = DeclaredAliases
    BY <2>1, Still
  <2>3. CASE Admit(o)
    <3>1. draft'.entries = draft.entries \cup EntriesOf(o)
      BY <2>3, AdmitType
    <3>2. QED
      BY <2>1, <2>2, <2>3, <3>1, AdmitApart DEF DraftApart, AliasesApart, Distinct
  <2>4. CASE Drop(o) \/ Untranslatable(o)
    <3>1. draft'.entries = draft.entries
      BY <2>4, DropType, UntranslatableType
    <3>2. QED
      BY <2>1, <2>2, <3>1 DEF DraftApart, AliasesApart, Distinct
  <2>5. QED
    BY <1>2, <2>3, <2>4
<1>3. CASE Apply
  BY <1>3 DEF Apply, Leave, Planned, DraftApart, AliasesApart, Distinct
<1>4. CASE pc' # "planning" /\ config' = config
  BY <1>4 DEF DraftApart, AliasesApart
<1>5. CASE UNCHANGED vars
  <2>1. UNCHANGED <<inputs, pc, draft, config>>
    BY <1>5 DEF vars
  <2>2. DeclaredAliases' = DeclaredAliases
    BY <2>1, Still
  <2>3. QED
    BY <2>1, <2>2 DEF DraftApart, AliasesApart, Distinct
<1>6. QED
  BY <1>1, <1>2, <1>3, <1>4, <1>5, OtherSteps DEF Next

(* A fold that brings no news changes nothing a plan reads. *)
LEMMA NoNews ==
  ASSUME PlanAssumption, TypeOK, RunFolds, News = {}
  PROVE  EntriesOver(Considered)' = EntriesOver(Considered)
<1>1. UNCHANGED <<feed, policy>>
  BY DEF RunFolds
<1>2. ASSUME NEW k \in Key
      PROVE  health'[k].gone = health[k].gone /\ health'[k].answered = health[k].answered
  BY DEF News
<1>3. ASSUME NEW k \in Key PROVE Unlisting(health[k])' = Unlisting(health[k])
  BY <1>2, RunFoldsType DEF TypeOK, Unlisting
<1>4. Considered' = Considered /\ Superseded' = Superseded
  BY <1>1 DEF Considered, Published, Superseded
<1>5. Offered' = Offered
  <2>1. \A d \in policy.declared : HealthKey(d) \in Key /\ HealthKey(d)' = HealthKey(d)
    BY <1>1, HealthKeyType DEF HealthKey, Key
  <2>2. \A d \in policy.declared :
          Unlisting(health[HealthKey(d)])' = Unlisting(health[HealthKey(d)])
    BY <1>3, <2>1 DEF Unlisting
  <2>3. QED
    BY <1>1, <2>2 DEF Offered
<1>6. DeclaredEntries' = DeclaredEntries
  BY <1>1, <1>5 DEF DeclaredEntries
<1>7. ASSUME NEW o \in Offering PROVE Passes(o)' = Passes(o) /\ EntriesOf(o)' = EntriesOf(o)
  <2>1. o \in Key
    BY DEF Key
  <2>2. Hidden(o)' = Hidden(o) /\ Admitted(o)' = Admitted(o)
        /\ Unlisting(health[o])' = Unlisting(health[o])
    BY <1>1, <1>2, <1>3, <2>1 DEF Hidden, Sunsetting, Admitted
  <2>3. Why(o)' = Why(o)
    BY <1>1, <1>4, <2>2 DEF Why
  <2>4. EntriesOf(o)' = EntriesOf(o)
    BY <1>1 DEF EntriesOf, Wide, Primary, Variant, AliasOf
  <2>5. QED
    BY <1>1, <2>3, <2>4 DEF Passes
<1>8. QED
  BY <1>4, <1>6, <1>7 DEF EntriesOver, Considered, Published

LEMMA CurrentStep ==
  ASSUME PlanAssumption, TypeOK, Complete, Current, [Next]_vars PROVE Current'
<1>1. CASE Apply
  <2>1. config' = draft.entries /\ UNCHANGED inputs /\ todo = {} /\ pc = "planning"
    BY <1>1 DEF Apply, Planned
  <2>2. config' = EntriesOver(Considered)
    BY <2>1 DEF Complete
  <2>3. QED
    BY <2>1, <2>2, Still DEF Current, EntriesOver
<1>2. CASE RunFolds
  <2>1. config' = config /\ since' = since \cup News
    BY <1>2 DEF RunFolds
  <2>2. QED
    BY <1>2, <2>1, NoNews DEF Current
<1>3. CASE UNCHANGED <<inputs, config, since>>
  BY <1>3, Still DEF Current, EntriesOver
<1>4. CASE since' # {}
  BY <1>4 DEF Current
<1>5. ASSUME NEW o \in Offering
      PROVE  /\ FeedChanges(o) => since' # {}
             /\ Drop(o) \/ Untranslatable(o) \/ Admit(o) => UNCHANGED <<inputs, config, since>>
  BY DEF FeedChanges, Drop, Untranslatable, Admit
<1>6. PolicyChanges => since' # {}
  BY DEF PolicyChanges
<1>7. Generate \/ PlanDeclared \/ UNCHANGED vars => UNCHANGED <<inputs, config, since>>
  BY DEF Generate, PlanDeclared, vars
<1>8. QED
  BY <1>1, <1>2, <1>3, <1>4, <1>5, <1>6, <1>7, OtherSteps DEF Next

LEMMA AwaitingStep ==
  ASSUME PlanAssumption, TypeOK, Complete, LastAwaiting, [Next]_vars PROVE LastAwaiting'
<1>1. CASE Apply
  <2>1. last'.restorable = draft.report.restorable /\ UNCHANGED inputs
        /\ todo = {} /\ pc = "planning"
    BY <1>1 DEF Apply, Planned
  <2>2. \A o \in last'.restorable : o \in Offering /\ o \in Considered /\ Restorable(o)
    BY <2>1 DEF Complete, RestorableOver, Considered, Published
  <2>3. \A o \in last'.restorable : Awaiting(o)
    BY <2>2, RestorableIsHidden
  <2>4. QED
    BY <2>1, <2>3, Still DEF LastAwaiting
<1>2. CASE UNCHANGED <<feed, policy, last>> /\ since \subseteq since'
  <2>1. \A o : Awaiting(o)' = Awaiting(o)
    BY <1>2 DEF Awaiting, Considered, Published, Superseded, WouldPass, Admitted
  <2>2. QED
    BY <1>2, <2>1 DEF LastAwaiting, Unedited
<1>3. CASE ~Unedited'
  BY <1>3 DEF LastAwaiting
<1>4. ASSUME NEW o \in Offering
      PROVE  /\ FeedChanges(o) => ~Unedited'
             /\ Drop(o) \/ Untranslatable(o) \/ Admit(o) => UNCHANGED <<feed, policy, since, last>>
             /\ RefuseAlias(o) => UNCHANGED <<feed, policy, since, last>>
  BY OtherSteps DEF FeedChanges, Unedited, Drop, Untranslatable, Admit, inputs
<1>5. PolicyChanges => ~Unedited'
  BY DEF PolicyChanges, Unedited
<1>6. RunFolds \/ Generate \/ PlanDeclared \/ UNCHANGED vars =>
        UNCHANGED <<feed, policy, last>> /\ since \subseteq since'
  BY DEF RunFolds, Generate, PlanDeclared, vars, inputs
<1>7. RefuseDeclared \/ RefuseNeverProbed \/ RailRefuses => UNCHANGED <<feed, policy, since, last>>
  BY OtherSteps DEF inputs
<1>8. QED
  BY <1>1, <1>2, <1>3, <1>4, <1>5, <1>6, <1>7 DEF Next

LEMMA SweptStep ==
  ASSUME PlanAssumption, TypeOK, SweptKnown, [Next]_vars PROVE SweptKnown'
<1>1. CASE RunFolds
  <2>1. Targets' = Targets
    BY <1>1 DEF RunFolds, Targets, DiscoveredAdmitted, Considered, Published, Admitted, HealthKey
  <2>2. QED
    BY <1>1, <2>1, RunFoldsType DEF SweptKnown
<1>2. CASE UNCHANGED <<inputs, by>> /\ pc # "idle"
  BY <1>2, Still DEF SweptKnown, inputs
<1>3. CASE pc' = "idle" \/ by' # "sweep"
  BY <1>3 DEF SweptKnown
<1>4. ASSUME NEW o \in Offering
      PROVE  /\ FeedChanges(o) \/ RefuseAlias(o) => pc' = "idle"
             /\ Drop(o) \/ Untranslatable(o) \/ Admit(o) => UNCHANGED <<inputs, by>> /\ pc # "idle"
  BY DEF FeedChanges, RefuseAlias, Refuse, Leave, Drop, Untranslatable, Admit
<1>5. PolicyChanges \/ RefuseDeclared \/ RefuseNeverProbed \/ RailRefuses \/ Apply => pc' = "idle"
  BY DEF PolicyChanges, RefuseDeclared, RefuseNeverProbed, RailRefuses, Refuse, Apply, Leave
<1>6. Generate => by' # "sweep"
  BY DEF Generate
<1>7. PlanDeclared => UNCHANGED <<inputs, by>> /\ pc # "idle"
  BY DEF PlanDeclared
<1>8. CASE UNCHANGED vars
  <2>1. UNCHANGED <<inputs, pc, by>>
    BY <1>8 DEF vars
  <2>2. QED
    BY <2>1, Still DEF SweptKnown, inputs
<1>9. QED
  BY <1>1, <1>2, <1>3, <1>4, <1>5, <1>6, <1>7, <1>8 DEF Next

LEMMA Inductive == Spec => []IInv
<1> USE PlanAssumption
<1>1. ASSUME Init PROVE IInv
  <2>1. TypeOK
    BY <1>1, TypeInit
  <2>2. pc = "idle" /\ config = {} /\ since = {"feed"} /\ last.restorable = {}
    BY <1>1 DEF Init
  <2>3. QED
    BY <2>1, <2>2
    DEF IInv, Complete, Reported, DraftApart, AliasesApart, Current, LastAwaiting, Unedited,
        SweptKnown
<1>2. ASSUME IInv, [Next]_vars PROVE IInv'
  BY <1>2, TypeStep, CompleteStep, ReportedStep, ApartStep, CurrentStep, AwaitingStep,
     SweptStep DEF IInv
<1>3. QED
  BY <1>1, <1>2, PTL DEF Spec

-----------------------------------------------------------------------------
(* No Generated Config offers one Alias twice, whatever Policy declares,   *)
(* overrides and suffixes and in whatever order the Feed lists Offerings.  *)
THEOREM AliasesApartHolds == Spec => []AliasesApart
<1>1. IInv => AliasesApart
  BY DEF IInv
<1>2. QED
  BY <1>1, Inductive, PTL

(* With Feed and Policy as they were, no measurement short of a Gone or a  *)
(* first success changes the Generated Config, so none restarts the proxy. *)
THEOREM NoWriteForOpinionsHolds == Spec => NoWriteForOpinions
<1>1. ASSUME IInv, [Next]_vars PROVE [config' # config => since # {}]_vars
  <2>1. SUFFICES ASSUME config' # config, since = {} PROVE FALSE
    OBVIOUS
  <2>2. CASE Apply
    <3>1. config' = draft.entries /\ todo = {} /\ pc = "planning"
      BY <2>2 DEF Apply, Planned
    <3>2. config' = EntriesOver(Considered)
      BY <1>1, <3>1 DEF IInv, Complete
    <3>3. QED
      BY <1>1, <2>1, <3>2 DEF IInv, Current
  <2>3. CASE ~Apply
    <3>1. ASSUME NEW o \in Offering
          PROVE  Drop(o) \/ Untranslatable(o) \/ Admit(o) => config' = config
      BY DEF Drop, Untranslatable, Admit
    <3>2. PlanDeclared \/ UNCHANGED vars => config' = config
      BY DEF PlanDeclared, vars
    <3>3. QED
      BY <1>1, <2>1, <2>3, <3>1, <3>2, OtherSteps DEF Next
  <2>4. QED
    BY <2>2, <2>3
<1>2. QED
  BY <1>1, Inductive, PTL DEF Spec, NoWriteForOpinions

(* What a plan called restorable by a Probe stays on the Prober's worklist *)
(* until Feed or Policy change: a Probe can clear the refusal of generate. *)
THEOREM RestorableInReachHolds == Spec => []RestorableInReach
<1>1. ASSUME IInv PROVE RestorableInReach
  <2>1. last.restorable \subseteq Offering
    BY <1>1 DEF IInv, TypeOK
  <2>2. QED
    BY <1>1, <2>1, AwaitingProbed DEF IInv, LastAwaiting, RestorableInReach
<1>2. QED
  BY <1>1, Inductive, PTL

(* Once a Probe answered for it, the next plan that is written serves it,  *)
(* unless it is Gone since or cannot be translated.                        *)
THEOREM RestorableReturnsHolds == Spec => RestorableReturns
<1> DEFINE Returns(o) ==
      health[o].answered => \/ o \in Served(config') \/ Unlisting(health[o])
                            \/ feed[o].thin
<1>1. ASSUME IInv, Apply, Unedited, NEW o \in last.restorable PROVE Returns(o)
  <2>1. SUFFICES ASSUME health[o].answered, ~Unlisting(health[o]), ~feed[o].thin
                 PROVE  o \in Served(config')
    OBVIOUS
  <2>2. Awaiting(o)
    BY <1>1 DEF IInv, LastAwaiting
  <2>3. Why(o) = "nothing"
    BY <2>1, <2>2 DEF Awaiting, WouldPass, Why, Hidden, Sunsetting
  <2>4. config' = EntriesOver(Considered)
    BY <1>1 DEF IInv, Complete, Apply, Planned
  <2>5. Primary(o) \in config' /\ Primary(o).id = o
    BY <2>1, <2>2, <2>3, <2>4 DEF EntriesOver, Passes, EntriesOf, Awaiting, Primary
  <2>6. QED
    BY <2>5 DEF Served
<1>2. ASSUME IInv
      PROVE  [Apply /\ Unedited => \A o \in last.restorable : Returns(o)]_vars
  BY <1>1, <1>2
<1>3. QED
  BY <1>2, Inductive, PTL DEF Spec, RestorableReturns

(* generate refuses, and a sweep has measured, before a plan drops what    *)
(* only leaves its catalogue.                                              *)
THEOREM MeasuredBeforeDroppedHolds == Spec => MeasuredBeforeDropped
<1> DEFINE Measured ==
      \A o \in Considered \cap (Served(config) \ Served(config')) :
         Restorable(o) => health[o].known
<1>1. ASSUME IInv, Apply, by \in {"generate", "sweep"} PROVE Measured
  <2>1. SUFFICES ASSUME NEW o \in Considered, Restorable(o) PROVE health[o].known
    OBVIOUS
  <2>2. o \in Offering
    BY DEF Considered, Published
  <2>3. CASE by = "generate"
    <3>1. o \in draft.report.restorable
      BY <1>1, <2>1 DEF IInv, Complete, RestorableOver, Apply, Planned
    <3>2. NeverProbed = {}
      BY <1>1, <2>3 DEF Apply
    <3>3. QED
      BY <3>1, <3>2 DEF NeverProbed
  <2>4. CASE by = "sweep"
    <3>1. o \in Targets
      BY <2>1, <2>2, RestorableIsHidden, AwaitingProbed
    <3>2. QED
      BY <1>1, <2>4, <3>1 DEF IInv, SweptKnown, Apply, Planned
  <2>5. QED
    BY <1>1, <2>3, <2>4
<1>2. ASSUME IInv
      PROVE  [Apply /\ by \in {"generate", "sweep"} => Measured]_vars
  BY <1>1, <1>2
<1>3. QED
  BY <1>2, Inductive, PTL DEF Spec, MeasuredBeforeDropped

(* A declared Client-Facing Variant is offered exactly when the Alias it   *)
(* widens is, for any Declared Offerings.                                  *)
THEOREM VariantsTogetherHolds == Spec => []VariantsTogether
<1>1. ASSUME IInv PROVE VariantsTogether
  <2> USE PlanAssumption
  <2>1. SUFFICES ASSUME Planned, NEW d \in policy.declared,
                        policy.widens[d] \in policy.declared,
                        policy.widens[policy.widens[d]] = Nothing
                 PROVE  (d \in Served(draft.entries)) = (policy.widens[d] \in Served(draft.entries))
    BY DEF VariantsTogether
  <2>2. draft.entries = EntriesOver(Considered)
    BY <1>1, <2>1 DEF IInv, Complete, Planned
  <2>3. policy.declared \subseteq Declaration
    BY <1>1, DeclaredEntriesType DEF IInv
  <2>4. ASSUME NEW e \in policy.declared
        PROVE  (e \in Served(draft.entries)) = (e \in Offered)
    <3>1. \A o \in Offering : \A f \in EntriesOf(o) : f.id = o
      BY DEF EntriesOf, Primary, Variant
    <3>2. e \notin Offering
      BY <2>3, <2>4 DEF PlanAssumption
    <3>3. \A f \in draft.entries : f.id = e => f \in DeclaredEntries
      BY <2>2, <3>1, <3>2 DEF EntriesOver, Considered, Published
    <3>4. \A f \in DeclaredEntries : f.id \in Offered
      BY DEF DeclaredEntries
    <3>5. ASSUME e \in Offered PROVE \E f \in DeclaredEntries : f.id = e
      <4>1. [alias |-> policy.alias[e], id |-> e, kind |-> "declared"] \in DeclaredEntries
        BY <3>5 DEF DeclaredEntries
      <4>2. QED
        BY <4>1
    <3>6. DeclaredEntries \subseteq draft.entries
      BY <2>2 DEF EntriesOver
    <3>7. QED
      BY <3>3, <3>4, <3>5, <3>6 DEF Served
  <2>5. HealthKey(d) = HealthKey(policy.widens[d])
    <3>1. policy.widens[d] # Nothing
      BY <2>1, <2>3 DEF PlanAssumption
    <3>2. QED
      BY <2>1, <3>1 DEF HealthKey
  <2>6. (d \in Offered) = (policy.widens[d] \in Offered)
    BY <2>1, <2>5 DEF Offered
  <2>7. QED
    BY <2>1, <2>4, <2>6
<1>2. QED
  BY <1>1, Inductive, PTL

-----------------------------------------------------------------------------
(* A plan that has walked the Feed, and what it has of each key.           *)
LEMMA PlannedReport ==
  ASSUME IInv, Planned
  PROVE  /\ draft.entries = EntriesOver(Considered)
         /\ ReportOver(draft.report, Considered)
         /\ \A k \in draft.report.admitted : \/ k \in Offering /\ k \in Considered /\ Passes(k)
                                             \/ k \in policy.declared /\ k \in Offered
<1>1. pc = "planning" /\ Considered \ todo = Considered
  BY DEF Planned
<1>2. draft.entries = EntriesOver(Considered) /\ ReportOver(draft.report, Considered)
  BY <1>1 DEF IInv, Complete, Reported
<1>3. QED
  BY <1>2 DEF ReportOver, AdmittedOver, Considered, Published, Offered

(* Which is what it writes. *)
LEMMA ServedEntries == Served(EntriesOver(Considered)) = AdmittedOver(Considered)
<1>1. ASSUME NEW o \in Offering PROVE Primary(o) \in EntriesOf(o) /\ Primary(o).id = o
  BY DEF EntriesOf, Primary
<1>2. \A o \in Offering : \A e \in EntriesOf(o) : e.id = o
  BY DEF EntriesOf, Primary, Variant
<1>3. ASSUME NEW d \in Offered
      PROVE  \E e \in DeclaredEntries : e.id = d
  <2>1. [alias |-> policy.alias[d], id |-> d, kind |-> "declared"] \in DeclaredEntries
    BY DEF DeclaredEntries
  <2>2. QED
    BY <2>1
<1>4. \A e \in DeclaredEntries : e.id \in Offered
  BY DEF DeclaredEntries
<1>5. ASSUME NEW k \in AdmittedOver(Considered) PROVE \E e \in EntriesOver(Considered) : e.id = k
  <2>1. CASE k \in Offered
    BY <1>3, <2>1 DEF EntriesOver
  <2>2. CASE k \in Considered /\ Passes(k)
    <3>1. Primary(k) \in EntriesOver(Considered)
      BY <1>1, <2>2 DEF EntriesOver, Considered, Published
    <3>2. QED
      BY <1>1, <2>2, <3>1 DEF Considered, Published
  <2>3. QED
    BY <2>1, <2>2 DEF AdmittedOver
<1>6. ASSUME NEW e \in EntriesOver(Considered) PROVE e.id \in AdmittedOver(Considered)
  <2>1. CASE e \in DeclaredEntries
    BY <1>4, <2>1 DEF AdmittedOver
  <2>2. ASSUME NEW o \in Considered, Passes(o), e \in EntriesOf(o) PROVE e.id = o
    BY <1>2, <2>2 DEF Considered, Published
  <2>3. QED
    BY <2>1, <2>2 DEF EntriesOver, AdmittedOver
<1>7. QED
  BY <1>5, <1>6 DEF Served

LEMMA ReportHolds == ASSUME PlanAssumption, IInv PROVE ReportIsTrue
<1>1. SUFFICES ASSUME Planned
               PROVE  LET report == draft.report
                          untranslatable == {o \in Offering : report.dropped[o] = "untranslatable"} IN
                      /\ report.admitted = Served(draft.entries)
                      /\ \A o \in Considered : (o \in report.admitted) # (report.dropped[o] # "nothing")
                      /\ \A o \in Offering \ Considered :
                           o \notin report.admitted /\ report.dropped[o] = "nothing"
                      /\ report.excluded \subseteq report.admitted \cup untranslatable
                      /\ report.sunsetting \subseteq report.admitted
                      /\ report.unlisted \cap report.admitted = {}
                      /\ report.candidates \cap report.admitted = {}
  BY DEF ReportIsTrue
<1> DEFINE report == draft.report
<1>2. draft.entries = EntriesOver(Considered) /\ ReportOver(report, Considered)
  BY <1>1, PlannedReport
<1>3. policy.declared \subseteq Declaration /\ Offered \subseteq policy.declared
  BY DeclaredEntriesType DEF IInv, Offered
<1>4. ASSUME NEW o \in Offering
      PROVE  /\ o \notin policy.declared /\ o \notin Offered
             /\ Passes(o) = (ReasonOf(o) = "nothing")
  BY <1>3 DEF PlanAssumption, Passes, ReasonOf
<1>5. report.admitted = Served(draft.entries)
  BY <1>2, ServedEntries DEF ReportOver
<1>6. ASSUME NEW o \in Considered
      PROVE  /\ o \in Offering
             /\ (o \in report.admitted) = Passes(o)
             /\ report.dropped[o] = ReasonOf(o)
  <2>1. o \in Offering
    BY DEF Considered, Published
  <2>2. (o \in report.admitted) = Passes(o)
    BY <1>2, <1>4, <2>1 DEF ReportOver, AdmittedOver, Passes
  <2>3. report.dropped[o] = ReasonOf(o)
    BY <1>2, <2>1 DEF ReportOver, DroppedOver
  <2>4. QED
    BY <2>1, <2>2, <2>3
<1>7. \A o \in Considered : (o \in report.admitted) # (report.dropped[o] # "nothing")
  BY <1>4, <1>6
<1>8. ASSUME NEW k \in report.excluded
      PROVE  k \in report.admitted \/ (k \in Offering /\ report.dropped[k] = "untranslatable")
  <2>1. CASE k \in Offered
    BY <1>2, <2>1 DEF ReportOver, AdmittedOver
  <2>2. CASE k \in Considered /\ Why(k) = "nothing"
    BY <1>6, <2>2 DEF Passes, ReasonOf
  <2>3. QED
    BY <1>2, <2>1, <2>2 DEF ReportOver, ExcludedOver
<1>9. report.sunsetting \subseteq report.admitted
  BY <1>2 DEF ReportOver, SunsettingOver, AdmittedOver
<1>10. report.unlisted \cap report.admitted = {}
  <2>1. ASSUME NEW k \in report.unlisted PROVE k \notin report.admitted
    <3>1. CASE k \in policy.declared \ Offered
      BY <1>2, <1>4, <3>1 DEF ReportOver, AdmittedOver, Considered, Published
    <3>2. CASE k \in Considered /\ Why(k) = "gone"
      BY <1>6, <3>2 DEF Passes
    <3>3. QED
      BY <1>2, <3>1, <3>2 DEF ReportOver, UnlistedOver
  <2>2. QED
    BY <2>1
<1>11. report.candidates \cap report.admitted = {}
  <2>1. ASSUME NEW k \in report.candidates PROVE k \notin report.admitted
    <3>1. k \in Considered /\ Why(k) = "unscored"
      BY <1>2 DEF ReportOver, CandidatesOver
    <3>2. QED
      BY <1>6, <3>1 DEF Passes
  <2>2. QED
    BY <2>1
<1>12. \A o \in Offering \ Considered : o \notin report.admitted /\ report.dropped[o] = "nothing"
  BY <1>2, <1>4 DEF ReportOver, AdmittedOver, DroppedOver
<1>13. QED
  BY <1>5, <1>7, <1>8, <1>9, <1>10, <1>11, <1>12

(* While the config is current, it holds what the plan admitted. *)
LEMMA ConfigAdmitted ==
  ASSUME IInv, Planned, since = {}
  PROVE  config = draft.entries /\ Served(config) = draft.report.admitted
<1>1. config = EntriesOver(Considered)
  BY DEF IInv, Current
<1>2. QED
  BY <1>1, PlannedReport, ServedEntries DEF ReportOver

(* Whatever is admitted has its Alias in the config. *)
LEMMA AliasServed ==
  ASSUME PlanAssumption, IInv, Planned, since = {}, NEW k \in draft.report.admitted
  PROVE  AliasFor(k) \in ServedAliases
<1>1. CASE k \in Offering /\ k \in Considered /\ Passes(k)
  <2>1. Primary(k) \in config
    BY <1>1, ConfigAdmitted, PlannedReport DEF EntriesOver, EntriesOf
  <2>2. Primary(k).alias = AliasFor(k)
    BY <1>1 DEF Primary, AliasFor
  <2>3. QED
    BY <2>1, <2>2 DEF ServedAliases
<1>2. CASE k \in policy.declared /\ k \in Offered
  <2>1. k \notin Offering
    BY <1>2, DeclaredEntriesType DEF IInv, PlanAssumption
  <2> DEFINE entry == [alias |-> policy.alias[k], id |-> k, kind |-> "declared"]
  <2>2. entry \in config
    BY <1>2, ConfigAdmitted, PlannedReport DEF EntriesOver, DeclaredEntries
  <2>3. entry.alias = AliasFor(k)
    BY <2>1 DEF AliasFor
  <2>4. QED
    BY <2>2, <2>3 DEF ServedAliases
<1>3. QED
  BY <1>1, <1>2, PlannedReport

LEMMA ExplainHolds == ASSUME PlanAssumption, IInv PROVE ExplainIsServed
<1>1. SUFFICES ASSUME Planned, since = {}, NEW query \in Offering \cup Name, NEW k \in Resolved(query)
               PROVE  /\ (StoppedAt(k, ServedAliases) = "none") = (k \in Served(config))
                      /\ StoppedAt(k, ServedAliases) # "generated_config"
  BY DEF ExplainIsServed
<1>2. Served(config) = draft.report.admitted
  BY <1>1, ConfigAdmitted
<1>3. \/ k \in Offering /\ (k \in Published \/ k \in draft.report.admitted)
      \/ k \in policy.declared
  BY <1>1 DEF Resolved, DeclaredAs, Published
<1>4. ASSUME k \notin draft.report.admitted
      PROVE  StoppedAt(k, ServedAliases) \in {"health", "policy"}
  <2>1. CASE k \in Considered
    <3>1. k \in Offering /\ draft.report.dropped[k] # "nothing"
      BY <1>1, <1>4, <2>1, ReportHolds DEF ReportIsTrue, Considered, Published
    <3>2. QED
      BY <3>1 DEF StoppedAt, DroppedFor
  <2>2. CASE k \in Offering /\ k \in Published /\ k \notin Considered
    BY <2>2 DEF StoppedAt, Considered, Configured
  <2>3. CASE k \in policy.declared
    <3>1. k \in draft.report.unlisted
      BY <1>1, <1>4, <2>3, PlannedReport DEF ReportOver, AdmittedOver, UnlistedOver
    <3>2. QED
      BY <3>1 DEF StoppedAt
  <2>4. QED
    BY <1>3, <1>4, <2>1, <2>2, <2>3
<1>5. ASSUME k \in draft.report.admitted PROVE StoppedAt(k, ServedAliases) = "none"
  <2>1. AliasFor(k) \in ServedAliases
    BY <1>1, <1>5, AliasServed
  <2>2. k \notin draft.report.unlisted
    BY <1>1, <1>5, ReportHolds DEF ReportIsTrue
  <2>3. ASSUME k \in Offering PROVE draft.report.dropped[k] = "nothing" /\ k \in Configured
    <3>1. k \in Considered
      <4>1. k \notin policy.declared
        BY <2>3, DeclaredEntriesType DEF IInv, PlanAssumption
      <4>2. QED
        BY <1>1, <1>5, <4>1, PlannedReport
    <3>2. QED
      BY <1>1, <1>5, <2>3, <3>1, ReportHolds DEF ReportIsTrue, Considered, Configured
  <2>4. QED
    BY <1>5, <2>1, <2>2, <2>3 DEF StoppedAt, DroppedFor
<1>6. QED
  BY <1>2, <1>4, <1>5

LEMMA EntitlementsHold == ASSUME PlanAssumption, ReportsAssumption, IInv PROVE EntitlementsAreServed
<1>1. SUFFICES ASSUME Planned, since = {}, NEW a \in Allowances
               PROVE  LET served == Members(a) \cap Served(config) IN
                      /\ State(a) = "healthy" =>
                           /\ served # {}
                           /\ \A k \in served :
                                ~health[IF k \in Offering THEN k ELSE HealthKey(k)].excluded
                      /\ State(a) \in {"dry", "empty"} => served = {}
  BY DEF EntitlementsAreServed
<1>2. Members(a) \cap Served(config) = Answering(a)
  BY <1>1, ConfigAdmitted DEF Answering
<1>3. IsFiniteSet(Answering(a)) /\ IsFiniteSet(Unavailable(a))
  <2>1. policy.declared \subseteq Declaration
    BY DeclaredEntriesType DEF IInv
  <2>2. Answering(a) \subseteq Offering \cup Declaration
        /\ Unavailable(a) \subseteq Offering \cup Declaration
    BY <2>1 DEF Answering, Unavailable, Members, Plain, Configured
  <2>3. QED
    BY <2>2, FS_Subset DEF ReportsAssumption
<1>4. (InScope(a) = 0) = (Answering(a) = {} /\ Unavailable(a) = {})
  <2>1. Cardinality(Answering(a)) \in Nat /\ Cardinality(Unavailable(a)) \in Nat
    BY <1>3, FS_CardinalityType
  <2>2. /\ (Cardinality(Answering(a)) = 0) = (Answering(a) = {})
        /\ (Cardinality(Unavailable(a)) = 0) = (Unavailable(a) = {})
    BY <1>3, FS_EmptySet
  <2>3. QED
    BY <2>1, <2>2 DEF InScope
<1>5. ASSUME Unavailable(a) = {}, NEW k \in Answering(a)
      PROVE  ~health[IF k \in Offering THEN k ELSE HealthKey(k)].excluded
  <2>1. k \in draft.report.admitted /\ k \notin draft.report.excluded
    BY <1>5 DEF Answering, Unavailable
  <2>2. CASE k \in Offering /\ k \in Considered /\ Passes(k)
    BY <1>1, <2>1, <2>2, PlannedReport DEF ReportOver, ExcludedOver, Passes
  <2>3. CASE k \in policy.declared /\ k \in Offered
    <3>1. k \notin Offering
      BY <2>3, DeclaredEntriesType DEF IInv, PlanAssumption
    <3>2. QED
      BY <1>1, <2>1, <2>3, <3>1, PlannedReport DEF ReportOver, ExcludedOver
  <2>4. QED
    BY <1>1, <2>1, <2>2, <2>3, PlannedReport
<1>6. State(a) = "healthy" => Answering(a) # {} /\ Unavailable(a) = {}
  BY <1>4 DEF State
<1>7. State(a) \in {"dry", "empty"} => Answering(a) = {}
  BY <1>4 DEF State
<1>8. QED
  BY <1>2, <1>5, <1>6, <1>7

(* The plan's report, explain and entitlements say of every Offering and   *)
(* every Allowance what the Generated Config holds, for any Feed and any   *)
(* Policy, those that leave providers out included: what the report lists  *)
(* is what the walk did, and a config with nothing new since is what the   *)
(* walk over the same inputs would write.                                  *)
THEOREM ReportsAreTrueHolds == Spec => []ReportsAreTrue
<1>1. IInv => ReportsAreTrue
  BY PlanAssumption, ReportsAssumption, ReportHolds, ExplainHolds, EntitlementsHold
  DEF ReportsAreTrue
<1>2. QED
  BY <1>1, Inductive, PTL
=============================================================================
