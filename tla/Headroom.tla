------------------------------ MODULE Headroom ------------------------------
(***************************************************************************)
(* Headroom State: how much of a capped Allowance is used, as codexbar     *)
(* reports it.  headroom refresh asks codexbar and replaces the records,   *)
(* under a lock of its own; guidance and entitlements read the records     *)
(* later, without a lock, under the Policy of their own time.              *)
(*                                                                         *)
(* A provider's windows are external, and so is codexbar, which answers    *)
(* with its own last measurement.  A used share is a level in 0..Full; a   *)
(* moment is kept relative to now, as an age or as the time left.  What    *)
(* cannot matter again saturates, so behaviours may be infinite.           *)
(***************************************************************************)
EXTENDS Integers

CONSTANTS
  Allowances,     \* Allowance ids the Policy can map
  Sources,        \* codexbar identities: a provider and an account
  Batched,        \* the Sources the one batched call covers
  Slots,          \* window slots of a Reading
  StatedSlots,    \* the Slots whose windows state their reset
  NamedSlots,     \* per Allowance, the slots that Policy names: Sub-allowances
  Refreshers,     \* processes that run headroom refresh
  Full,           \* the level of a fully drawn window
  Thresholds,     \* levels a crossing is reported at
  Length,         \* length of a window with a stated reset
  Staleness,      \* maximum_staleness_hours
  MaxRun,         \* bound: how long one refresh may run
  MaxChanges,     \* bound: changes of use, edits, units of time
  Unstated,       \* no reset, an unreadable one, or one not after the Reading
  Declared,       \* the mapping the Policy starts with
  None            \* no record, no Reading, no window, no mapping

ASSUME HeadroomAssumption ==
  /\ Batched \subseteq Sources
  /\ StatedSlots \subseteq Slots
  /\ NamedSlots \in [Allowances -> SUBSET Slots]
  /\ Full \in Nat \ {0}
  /\ Thresholds \subseteq 1..Full
  /\ Length \in Nat \ {0}
  /\ Staleness \in Nat \ {0}
  /\ MaxRun \in Nat
  /\ MaxChanges \in Nat
  /\ Declared \in [Allowances -> Sources]
  /\ None \notin Sources \cup Refreshers
  /\ Unstated \notin Int

VARIABLES
  used,      \* per Source and slot, the level really used
  left,      \* per Source and stated slot, the time to its reset
  codexbar,  \* per Source, codexbar's own last measurement
  mapping,   \* Policy: the Source of each Allowance
  records,   \* Headroom State
  lock,      \* who holds Headroom State's lock
  pc,        \* how far each refresher is
  policy,    \* the mapping a refresher loaded when it started
  waited,    \* the age of its reading of the clock
  previous,  \* the records it read
  answers,   \* the Readings it has been given
  changes,   \* how many changes were made
  \* History variables: read by no action, only by properties.
  sinceFull, \* per Source and other slot, the time since it was fully drawn
  crossed,   \* the crossings the last step reported
  fired      \* the rises reported that the stored Readings still show

vendor == <<used, left, sinceFull>>
locals == <<pc, policy, waited, previous, answers>>
vars   == <<vendor, changes, codexbar, mapping, records, lock, locals, crossed, fired>>

MaxAge == Staleness + MaxRun
Age    == 0..MaxAge
Left   == -MaxRun..Length
Window == [used : 0..Full, left : Left \cup {Unstated}]

(* updated_at is codexbar's clock: the age of the measurement. *)
Reading == [windows : [Slots -> Window], age : Age]
Record  == [source : Sources, reading : Reading]

(* What entitlements says of an Allowance: levels, or nothing, by window.  *)
Description == [binding : Slots \cup {None}, windows : [Slots -> (0..Full) \cup {None}]]

ASSUME NoneAssumption == None \notin (Reading \cup Record) \cup Description

Stage == {"idle", "waiting", "locked", "batched", "asked"}

-----------------------------------------------------------------------------
(* window_is_void at a moment lag ago: past its stated reset, or as old as *)
(* the staleness limit where it states none.                               *)
Void(reading, slot, lag) ==
  LET w == reading.windows[slot] IN
  IF w.left # Unstated THEN w.left + lag <= 0 ELSE reading.age - lag >= Staleness

LiveIn(slots, reading, lag) == {k \in slots : ~Void(reading, k, lag)}

Worst(slots, reading) ==
  CHOOSE k \in slots : \A j \in slots : reading.windows[j].used <= reading.windows[k].used

(* binding_window: the worst live window outside the named slots. *)
Binding(a, reading, lag) ==
  LET live == LiveIn(Slots \ NamedSlots[a], reading, lag) IN
  IF live = {} THEN None ELSE Worst(live, reading)

(* route_binding_window: a Route inside a Sub-allowance, whose own is the  *)
(* named slot, binds on the worse of its parent's window and its own.      *)
RouteWindows(a, sub, reading) ==
  LET live == LiveIn((Slots \ NamedSlots[a]) \cup ({sub} \ {None}), reading, 0) IN
  IF live = {} THEN {} ELSE {Worst(live, reading)}

(* Faulty: whatever is stored for the Allowance is its figure. *)
PublishedAnyway(a) == records[a] # None

(* _route_headroom: only the figure of the Source the Policy names now. *)
Published(a) == records[a] # None /\ mapping[a] # None /\ records[a].source = mapping[a]

(* _demoted_by_headroom, with the flag on: the window that demotes. *)
DemotedBy(a, sub) ==
  IF Published(a)
  THEN {k \in RouteWindows(a, sub, records[a].reading) :
          records[a].reading.windows[k].used >= Full}
  ELSE {}

(* _window_view: what entitlements says of one window, nothing if it is void. *)
Shown(reading, slot) ==
  IF Void(reading, slot, 0) THEN None ELSE reading.windows[slot].used

(* describe_headroom: nothing measured is no figure.  An Allowance whose   *)
(* live slots are all named is measured, and no figure binds the whole.    *)
Described(a, reading) ==
  IF LiveIn(Slots, reading, 0) = {} THEN None
  ELSE [binding |-> Binding(a, reading, 0), windows |-> [k \in Slots |-> Shown(reading, k)]]

(* entitlements, of the Source the Policy names now. *)
AllowanceHeadroom(a) ==
  IF Published(a) THEN Described(a, records[a].reading) ELSE None

(* Faulty: a figure that stands at a threshold crosses it by moving on. *)
CrossingsInclusive(a, record, source, reading, lag) ==
  LET k0 == Binding(a, record.reading, lag)
      k1 == Binding(a, reading, lag)
      u0 == record.reading.windows[k0].used
      u1 == reading.windows[k1].used
  IN IF k0 = None \/ k1 = None THEN {}
     ELSE {[allowance |-> a, slot |-> k1, threshold |-> t, rising |-> u0 < u1,
            from |-> record.source, source |-> source] :
             t \in {th \in Thresholds : (u0 <= th /\ th <= u1) \/ (u1 < th /\ th <= u0)}}

(* thresholds.crossings, on the binding windows before and after: what     *)
(* the thresholds between the two levels are reported as.                  *)
Crossings(a, record, source, reading, lag) ==
  LET k0 == Binding(a, record.reading, lag)
      k1 == Binding(a, reading, lag)
      u0 == record.reading.windows[k0].used
      u1 == reading.windows[k1].used
  IN IF k0 = None \/ k1 = None THEN {}
     ELSE {[allowance |-> a, slot |-> k1, threshold |-> t, rising |-> u0 < u1,
            from |-> record.source, source |-> source] :
             t \in {th \in Thresholds : (u0 < th /\ th <= u1) \/ (u1 < th /\ th <= u0)}}

(* The rises among them, of one account each. *)
Rises(crossings) ==
  {[allowance |-> c.allowance, slot |-> c.slot, threshold |-> c.threshold, source |-> c.source] :
     c \in {d \in crossings : d.rising /\ d.from = d.source}}

-----------------------------------------------------------------------------
NoAnswers == [s \in Sources |-> None]
NoRecords == [a \in Allowances |-> None]
Unmapped  == [a \in Allowances |-> None]

Init ==
  /\ used = [s \in Sources |-> [k \in Slots |-> 0]]
  /\ left = [s \in Sources |-> [k \in StatedSlots |-> Length]]
  /\ codexbar = NoAnswers
  /\ mapping = Declared
  /\ records = NoRecords
  /\ lock = None
  /\ pc = [r \in Refreshers |-> "idle"]
  /\ policy = [r \in Refreshers |-> Unmapped]
  /\ waited = [r \in Refreshers |-> 0]
  /\ previous = [r \in Refreshers |-> NoRecords]
  /\ answers = [r \in Refreshers |-> NoAnswers]
  /\ sinceFull = [s \in Sources |-> [k \in Slots \ StatedSlots |-> MaxAge]]
  /\ changes = 0
  /\ crossed = {}
  /\ fired = {}

(* --- The provider and codexbar ----------------------------------------- *)

Change == changes < MaxChanges /\ changes' = changes + 1

(* Traffic draws on a window. *)
Draw(s, k) ==
  /\ Change
  /\ used[s][k] < Full
  /\ used' = [used EXCEPT ![s][k] = @ + 1]
  /\ sinceFull' = IF k \notin StatedSlots /\ used'[s][k] = Full
                  THEN [sinceFull EXCEPT ![s][k] = 0] ELSE sinceFull
  /\ crossed' = {}
  /\ UNCHANGED <<left, codexbar, mapping, records, lock, locals, fired>>

(* A window that states no reset gives some of its share back. *)
GiveBack(s, k) ==
  /\ Change
  /\ k \notin StatedSlots
  /\ used[s][k] > 0
  /\ used' = [used EXCEPT ![s][k] = 0]
  /\ fired' = {c \in fired : ~(c.source = s /\ c.slot = k)}
  /\ crossed' = {}
  /\ UNCHANGED <<left, sinceFull, codexbar, mapping, records, lock, locals>>

(* codexbar measures one Source. *)
Measure(s) ==
  /\ codexbar' = [codexbar EXCEPT ![s] =
       [windows |-> [k \in Slots |->
                       [used |-> used[s][k],
                        left |-> IF k \in StatedSlots THEN left[s][k] ELSE Unstated]],
        age |-> 0]]
  /\ crossed' = {}
  /\ UNCHANGED <<changes, vendor, mapping, records, lock, locals, fired>>

Older(reading) ==
  IF reading = None THEN None
  ELSE [windows |-> [k \in Slots |->
                       [reading.windows[k] EXCEPT !.left =
                          IF @ = Unstated \/ @ = -MaxRun THEN @ ELSE @ - 1]],
        age |-> IF reading.age = MaxAge THEN MaxAge ELSE reading.age + 1]

OlderRecord(r) == IF r = None THEN None ELSE [r EXCEPT !.reading = Older(@)]

(* One unit of time passes.  A window at its reset refills. *)
Pass ==
  /\ Change
  /\ \A r \in Refreshers : pc[r] # "idle" => waited[r] < MaxRun
  /\ LET refilled(s, k) == k \in StatedSlots /\ left[s][k] = 1 IN
     /\ used' = [s \in Sources |-> [k \in Slots |->
                   IF refilled(s, k) THEN 0 ELSE used[s][k]]]
     /\ left' = [s \in Sources |-> [k \in StatedSlots |->
                   IF refilled(s, k) THEN Length ELSE left[s][k] - 1]]
     /\ sinceFull' = [s \in Sources |-> [k \in Slots \ StatedSlots |->
                   IF used'[s][k] = Full THEN 0
                   ELSE IF sinceFull[s][k] = MaxAge THEN MaxAge ELSE sinceFull[s][k] + 1]]
     /\ records' = [a \in Allowances |-> OlderRecord(records[a])]
     /\ fired' = {c \in fired : ~refilled(c.source, c.slot)
                                /\ records'[c.allowance].reading.windows[c.slot].used >= c.threshold
                  /\ ~Void(records'[c.allowance].reading, c.slot, 0)}
  /\ codexbar' = [s \in Sources |-> Older(codexbar[s])]
  /\ previous' = [r \in Refreshers |-> [a \in Allowances |-> OlderRecord(previous[r][a])]]
  /\ answers' = [r \in Refreshers |-> [s \in Sources |-> Older(answers[r][s])]]
  /\ waited' = [r \in Refreshers |-> IF pc[r] = "idle" THEN 0 ELSE waited[r] + 1]
  /\ crossed' = {}
  /\ UNCHANGED <<mapping, lock, pc, policy>>

(* The operator maps an Allowance to a Source, or removes it. *)
Remap(a) ==
  /\ Change
  /\ \E s \in (Sources \cup {None}) \ {mapping[a]} :
       mapping' = [mapping EXCEPT ![a] = s]
  /\ fired' = {c \in fired : c.allowance # a}
  /\ crossed' = {}
  /\ UNCHANGED <<vendor, codexbar, records, lock, locals>>

(* --- headroom refresh -------------------------------------------------- *)

Back(r) ==
  /\ pc' = [pc EXCEPT ![r] = "idle"]
  /\ policy' = [policy EXCEPT ![r] = Unmapped]
  /\ waited' = [waited EXCEPT ![r] = 0]
  /\ previous' = [previous EXCEPT ![r] = NoRecords]
  /\ answers' = [answers EXCEPT ![r] = NoAnswers]

(* The Policy is loaded and the clock read, before the wait for the lock.  *)
(* With nothing mapped there is nothing to do.                             *)
Start(r) ==
  /\ pc[r] = "idle"
  /\ mapping # Unmapped
  /\ pc' = [pc EXCEPT ![r] = "waiting"]
  /\ policy' = [policy EXCEPT ![r] = mapping]
  /\ crossed' = {}
  /\ UNCHANGED <<changes, vendor, codexbar, mapping, records, lock, waited, previous, answers, fired>>

(* The wait for the lock times out. *)
GiveUp(r) ==
  /\ pc[r] = "waiting"
  /\ lock # None
  /\ Back(r)
  /\ crossed' = {}
  /\ UNCHANGED <<changes, vendor, codexbar, mapping, records, lock, fired>>

(* Faulty: the records are read while waiting, and the lock taken later. *)
AcquireAnyway(r) ==
  /\ pc[r] = "waiting"
  /\ lock' = r
  /\ pc' = [pc EXCEPT ![r] = "locked"]
  /\ previous' = [previous EXCEPT ![r] = records]
  /\ crossed' = {}
  /\ UNCHANGED <<changes, vendor, codexbar, mapping, records, policy, waited, answers, fired>>

(* The lock is taken and Headroom State read. *)
Acquire(r) ==
  /\ pc[r] = "waiting"
  /\ lock = None
  /\ lock' = r
  /\ pc' = [pc EXCEPT ![r] = "locked"]
  /\ previous' = [previous EXCEPT ![r] = records]
  /\ crossed' = {}
  /\ UNCHANGED <<changes, vendor, codexbar, mapping, records, policy, waited, answers, fired>>

(* query_codexbar_readings: the batched call, and then a call for each     *)
(* provider with several accounts.  A Source gives a Reading, or none: its *)
(* call failed, no entry or two entries match it, or its entry is an error *)
(* or does not parse.                                                      *)
Ask(r) ==
  /\ \/ pc[r] = "locked" /\ pc' = [pc EXCEPT ![r] = "batched"]
     \/ pc[r] = "batched" /\ pc' = [pc EXCEPT ![r] = "asked"]
  /\ LET covered == IF pc[r] = "locked" THEN Batched ELSE Sources \ Batched
         wanted  == {s \in covered : \E a \in Allowances : policy[r][a] = s}
     IN \E answering \in SUBSET wanted :
          answers' = [answers EXCEPT ![r] =
            [s \in Sources |-> IF s \in answering THEN codexbar[s] ELSE @[s]]]
  /\ crossed' = {}
  /\ UNCHANGED <<changes, vendor, codexbar, mapping, records, lock, policy, waited, previous, fired>>

(* Faulty: an entry with an error is stored like any other. *)
RefreshedErrors(r, a) ==
  LET s == policy[r][a] IN
  IF s = None THEN None ELSE [source |-> s, reading |-> answers[r][s]]

(* The new record of one Allowance: pruned, kept, or replaced. *)
Refreshed(r, a) ==
  LET s == policy[r][a] IN
  IF s = None THEN None
  ELSE IF answers[r][s] = None THEN previous[r][a]
  ELSE [source |-> s, reading |-> answers[r][s]]

(* _binding_window_crossings, for every Allowance that got a Reading. *)
NewCrossings(r) ==
  UNION {Crossings(a, previous[r][a], policy[r][a], answers[r][policy[r][a]], waited[r]) :
           a \in {b \in Allowances :
                    /\ previous[r][b] # None
                    /\ policy[r][b] # None
                    /\ answers[r][policy[r][b]] # None}}

(* Headroom State is replaced, the lock left, and the crossings reported,  *)
(* unless the process is killed before it reports them.                    *)
Store(r) ==
  /\ pc[r] = "asked"
  /\ records' = [a \in Allowances |-> Refreshed(r, a)]
  /\ lock' = None
  /\ crossed' \in {NewCrossings(r), {}}
  /\ fired' = {c \in fired \cup Rises(crossed') :
                  /\ records'[c.allowance] # None
                  /\ records'[c.allowance].source = c.source
                  /\ records'[c.allowance].reading.windows[c.slot].used >= c.threshold
                  /\ ~Void(records'[c.allowance].reading, c.slot, 0)}
  /\ Back(r)
  /\ UNCHANGED <<changes, vendor, codexbar, mapping>>

(* A refresher is killed; the kernel frees its lock. *)
Die(r) ==
  /\ pc[r] # "idle"
  /\ lock' = IF lock = r THEN None ELSE lock
  /\ Back(r)
  /\ crossed' = {}
  /\ UNCHANGED <<changes, vendor, codexbar, mapping, records, fired>>

Next ==
  \/ \E s \in Sources : Measure(s) \/ (\E k \in Slots : Draw(s, k) \/ GiveBack(s, k))
  \/ Pass
  \/ \E a \in Allowances : Remap(a)
  \/ \E r \in Refreshers :
       Start(r) \/ GiveUp(r) \/ Acquire(r) \/ Ask(r) \/ Store(r) \/ Die(r)

Spec == Init /\ [][Next]_vars
-----------------------------------------------------------------------------
(* Type invariant. *)
TypeOK ==
  /\ used \in [Sources -> [Slots -> 0..Full]]
  /\ left \in [Sources -> [StatedSlots -> 1..Length]]
  /\ codexbar \in [Sources -> Reading \cup {None}]
  /\ mapping \in [Allowances -> Sources \cup {None}]
  /\ records \in [Allowances -> Record \cup {None}]
  /\ lock \in Refreshers \cup {None}
  /\ pc \in [Refreshers -> Stage]
  /\ policy \in [Refreshers -> [Allowances -> Sources \cup {None}]]
  /\ waited \in [Refreshers -> 0..MaxRun]
  /\ previous \in [Refreshers -> [Allowances -> Record \cup {None}]]
  /\ answers \in [Refreshers -> [Sources -> Reading \cup {None}]]
  /\ changes \in 0..MaxChanges
  /\ sinceFull \in [Sources -> [Slots \ StatedSlots -> Age]]

(* A Route is demoted only while the account that serves it now is really  *)
(* fully drawn: in a window that states its reset at this very moment, and *)
(* in any other window less than the staleness limit ago.  The stored      *)
(* Reading may be old, codexbar's own measurement older than that, and the *)
(* Policy may have mapped the Allowance to another account since.  And     *)
(* entitlements, which derives its figures apart from guidance, shows the  *)
(* window that demotes as drawn.                                           *)
DemotedIsDry ==
  \A a \in Allowances : \A sub \in NamedSlots[a] \cup {None} : \A k \in DemotedBy(a, sub) :
    /\ IF k \in StatedSlots THEN used[mapping[a]][k] = Full
                           ELSE sinceFull[mapping[a]][k] < Staleness
    /\ AllowanceHeadroom(a) # None /\ AllowanceHeadroom(a).windows[k] = Full

(* Of one account, an older measurement never replaces a newer one,        *)
(* whatever refreshers overlap, fail in part or die.                       *)
ReadingsMoveForward ==
  [][\A a \in Allowances :
       /\ records[a] # None
       /\ records'[a] # None
       /\ records'[a].source = records[a].source
       => \/ records'[a].reading.age <= records[a].reading.age
          \/ records'[a] = OlderRecord(records[a])]_vars

(* The rise of a window over a threshold is reported once: again only      *)
(* after a stored Reading showed the window lower, or the window was       *)
(* reset, expired in the stored Reading, or the Allowance mapped anew.     *)
(* Overlapping refreshers, failed calls, deaths and codexbar's old         *)
(* measurements report nothing twice.                                      *)
FiredOnce ==
  [][Rises(crossed') \cap fired = {}]_vars

(* "A crossing says the figure MOVED": both levels are of one account.     *)
CrossingsAreMoves == \A c \in crossed : c.from = c.source
=============================================================================
