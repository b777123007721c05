------------------------ MODULE GeneratedConfigProofs ------------------------
(***************************************************************************)
(* Proofs about ConfigWrite, how the Generated Config is written, and      *)
(* about Guidance, whose ladders go into it.                               *)
(*                                                                         *)
(* ConfigWrite, for any number of writers, plans and snapshots kept.  What *)
(* makes OnlyVetted inductive is where a content can come from: the file,  *)
(* a snapshot, a writer past the rail, or the copy a rollback has under    *)
(* way.  UndoesLastWrite needs that a writer nothing overlapped is the     *)
(* only one at work, with the latest clock reading, so that its snapshot   *)
(* is the newest and still holds what it will replace.                     *)
(*                                                                         *)
(* Guidance, for any Offerings, models and Roles: both sorts are strict    *)
(* total orders (RouteOrder, RowOrder), so every place is taken by one     *)
(* member (Places), and what a ladder leaves out comes after all it names. *)
(***************************************************************************)
EXTENDS ConfigWrite, Guidance, FiniteSetTheorems, TLAPS

(* A content that is not a whole config, or one a rail let through. *)
Good(c) == c \in Plans => Vetted(c)

(* Everything a config on disk can come from is good. *)
SourcesVetted ==
  /\ Good(config)
  /\ \A s \in snapshots : Good(s.holds)
  /\ \A w \in Writer : pc[w] \in {"allowed", "saved"} => plan[w] \in Plans /\ Vetted(plan[w])
  /\ Good(restoring)

(* A command at work has read the clock. *)
ClockRead == \A w \in Writer : pc[w] # "idle" => now[w] \in 1..MaxClock

IInv == TypeOK /\ SourcesVetted /\ ClockRead

(* A snapshot that a rollback would bring back holds this. *)
LatestHolds(c) == \E s \in snapshots : IsLatest(s) /\ s.holds = c

(* No snapshot and no reading is of a time to come. *)
NoneAhead ==
  /\ \A s \in snapshots : s.at <= clock
  /\ \A w \in Writer : pc[w] # "idle" => now[w] <= clock

(* A writer that nothing has overlapped: its reading is later than every   *)
(* snapshot but its own, and its own holds the config it is to replace.    *)
Lone(w) ==
  /\ restoring = None
  /\ now[w] = clock
  /\ \A v \in Writer \ {w} : pc[v] = "idle"
  /\ pc[w] \in {"planned", "allowed"} => \A s \in snapshots : s.at < clock
  /\ pc[w] = "saved" => config = None \/ LatestHolds(config)

AloneApart == \A w \in alone : pc[w] # "idle" => Lone(w)

(* While no command is between its snapshot and its write, the newest      *)
(* snapshot holds what the last write replaced.                            *)
ReplacedKept ==
  replaced # None /\ (\A w \in Writer : pc[w] # "saved") => LatestHolds(replaced)

Undoable == NoneAhead /\ AloneApart /\ ReplacedKept

-----------------------------------------------------------------------------
(* Pruning only removes files. *)
LEMMA PrunedSubset == ASSUME NEW files PROVE Pruned(files) \subseteq files
  BY DEF Pruned

(* The initial state satisfies the invariant. *)
LEMMA Initially == Init => IInv
  BY ConfigAssumption DEF Init, IInv, TypeOK, ClockRead, SourcesVetted, Good, Vetted, Content

(* What was vetted stays vetted: passed only grows. *)
LEMMA VettedGrows ==
  ASSUME passed \subseteq passed', NEW c, Vetted(c) PROVE Vetted(c)'
  BY DEF Vetted

(* The type invariant is preserved. *)
LEMMA TypeStep ==
  ASSUME IInv, [Next]_vars PROVE TypeOK'
<1> USE ConfigAssumption DEF IInv, TypeOK, Content, local, history
<1>1. ASSUME NEW w \in Writer, Plan(w) PROVE TypeOK'
  BY <1>1 DEF Plan
<1>2. ASSUME NEW w \in Writer, Allow(w) PROVE TypeOK'
  <2>1. plan[w] \in Plans /\ force[w] \in BOOLEAN
    BY <1>2 DEF Allow, RailAllows
  <2>2. [plan |-> plan[w], forced |-> force[w]] \in [plan : Plans, forced : BOOLEAN]
    BY <2>1
  <2>3. passed' \subseteq [plan : Plans, forced : BOOLEAN]
    <3>1. passed' = passed \cup {[plan |-> plan[w], forced |-> force[w]]}
      BY <1>2 DEF Allow
    <3>2. QED BY <2>2, <3>1
  <2>4. pc' \in [Writer -> {"idle", "planned", "allowed", "saved"}]
    BY <1>2 DEF Allow
  <2>5. QED BY <1>2, <2>3, <2>4 DEF Allow
<1>3. ASSUME NEW w \in Writer, Refuse(w) \/ SkipUnchanged(w) PROVE TypeOK'
  <2>1. Done(w) /\ UNCHANGED <<config, snapshots, clock, restoring, history>>
    BY <1>3 DEF Refuse, SkipUnchanged
  <2>2. pc' \in [Writer -> {"idle", "planned", "allowed", "saved"}]
        /\ now' \in [Writer -> 0..MaxClock]
    BY <2>1 DEF Done
  <2>3. plan' \in [Writer -> Plans \cup {None}] /\ force' \in [Writer -> BOOLEAN]
    BY <2>1 DEF Done
  <2>4. QED BY <2>1, <2>2, <2>3
<1>4. ASSUME NEW w \in Writer, Snapshot(w) PROVE TypeOK'
  <2>1. now[w] \in 1..MaxClock /\ (config # None => config \in Content)
    BY <1>4 DEF Snapshot, ClockRead
  <2>2. config # None =>
          [at |-> now[w], holds |-> config] \in [at : 1..MaxClock, holds : Content]
    BY <2>1
  <2>3. snapshots' \subseteq [at : 1..MaxClock, holds : Content]
    <3>1. config # None =>
            snapshots \cup {[at |-> now[w], holds |-> config]}
              \subseteq [at : 1..MaxClock, holds : Content]
      BY <2>2
    <3>2. QED BY <1>4, <3>1, PrunedSubset DEF Snapshot
  <2>4. QED BY <1>4, <2>3 DEF Snapshot
<1>5. ASSUME NEW w \in Writer, SnapshotTorn(w) PROVE TypeOK'
  <2>1. now[w] \in 1..MaxClock
    BY <1>5 DEF SnapshotTorn, ClockRead
  <2>2. [at |-> now[w], holds |-> Torn] \in [at : 1..MaxClock, holds : Content]
    BY <2>1
  <2>3. QED BY <1>5, <2>2 DEF SnapshotTorn, Done
<1>6. ASSUME NEW w \in Writer, Write(w) PROVE TypeOK'
  BY <1>6 DEF Write, Done, SourcesVetted
<1>7. ASSUME NEW w \in Writer, Die(w) PROVE TypeOK'
  BY <1>7 DEF Die, Done
<1>8. ASSUME RollbackOpens PROVE TypeOK'
  BY <1>8 DEF RollbackOpens
<1>9. ASSUME RollbackCopies \/ RollbackDies PROVE TypeOK'
  BY <1>9 DEF RollbackCopies, RollbackDies
<1>10. CASE UNCHANGED vars
  BY <1>10 DEF vars
<1>11. QED
  BY <1>1, <1>2, <1>3, <1>4, <1>5, <1>6, <1>7, <1>8, <1>9, <1>10 DEF Next

(* A command at work keeps the clock reading it started with. *)
LEMMA ClockStep ==
  ASSUME IInv, [Next]_vars PROVE ClockRead'
<1> USE ConfigAssumption DEF IInv, TypeOK, ClockRead, local
<1>1. ASSUME NEW w \in Writer, Plan(w) PROVE ClockRead'
  BY <1>1 DEF Plan
<1>2. ASSUME NEW w \in Writer, Allow(w) \/ Snapshot(w) PROVE ClockRead'
  BY <1>2 DEF Allow, Snapshot
<1>3. ASSUME NEW w \in Writer, Done(w) PROVE ClockRead'
  BY <1>3 DEF Done
<1>4. CASE RollbackOpens \/ RollbackCopies \/ RollbackDies \/ UNCHANGED vars
  BY <1>4 DEF RollbackOpens, RollbackCopies, RollbackDies, vars
<1>5. QED
  BY <1>1, <1>2, <1>3, <1>4
  DEF Next, Refuse, SkipUnchanged, SnapshotTorn, Write, Die

(* No step forgets what a rail let through. *)
LEMMA PassedGrows ==
  ASSUME [Next]_vars PROVE passed \subseteq passed'
  BY DEF Next, vars, history, Plan, Allow, Refuse, SkipUnchanged, Snapshot,
         SnapshotTorn, Write, Die, RollbackOpens, RollbackCopies, RollbackDies

(* A config on disk comes from a writer past the rail or from a rollback. *)
LEMMA ConfigSource ==
  ASSUME IInv, [Next]_vars
  PROVE  \/ config' \in {config, Torn, restoring}
         \/ \E w \in Writer : pc[w] = "saved" /\ config' = plan[w]
  BY DEF Next, vars, local, Plan, Allow, Refuse, SkipUnchanged, Snapshot,
         SnapshotTorn, Write, Die, RollbackOpens, RollbackCopies, RollbackDies

(* A new snapshot holds the config on disk, or a piece of it. *)
LEMMA SnapshotSource ==
  ASSUME IInv, [Next]_vars, NEW s \in snapshots'
  PROVE  s \in snapshots \/ s.holds \in {config, Torn}
<1>1. ASSUME NEW w \in Writer, Snapshot(w)
      PROVE  s \in snapshots \/ s.holds \in {config, Torn}
  <2>1. s \in snapshots \cup {[at |-> now[w], holds |-> config]}
    BY <1>1, PrunedSubset DEF Snapshot
  <2>2. QED BY <2>1
<1>2. ASSUME NEW w \in Writer, SnapshotTorn(w)
      PROVE  s \in snapshots \/ s.holds \in {config, Torn}
  BY <1>2 DEF SnapshotTorn
<1>3. ASSUME \A w \in Writer : ~Snapshot(w) /\ ~SnapshotTorn(w)
      PROVE  s \in snapshots
  BY <1>3 DEF Next, vars, Plan, Allow, Refuse, SkipUnchanged, Write, Die,
              RollbackOpens, RollbackCopies, RollbackDies
<1>4. QED BY <1>1, <1>2, <1>3

(* A rollback copies a snapshot. *)
LEMMA RestoreSource ==
  ASSUME IInv, [Next]_vars
  PROVE  restoring' \in {restoring, None} \/ \E s \in snapshots : restoring' = s.holds
  BY DEF Next, vars, Plan, Allow, Refuse, SkipUnchanged, Snapshot,
         SnapshotTorn, Write, Die, RollbackOpens, RollbackCopies, RollbackDies

(* A writer gets past the rail only by being let through. *)
LEMMA PlanSource ==
  ASSUME IInv, [Next]_vars, NEW w \in Writer, pc'[w] \in {"allowed", "saved"}
  PROVE  /\ plan'[w] = plan[w]
         /\ pc[w] \in {"allowed", "saved"} \/ Allow(w)
<1> USE DEF IInv, TypeOK
<1>1. ASSUME NEW v \in Writer, Plan(v)
      PROVE  plan'[w] = plan[w] /\ pc[w] \in {"allowed", "saved"}
  BY <1>1 DEF Plan
<1>2. ASSUME NEW v \in Writer, Allow(v)
      PROVE  plan'[w] = plan[w] /\ (pc[w] \in {"allowed", "saved"} \/ Allow(w))
  <2>1. CASE v = w BY <1>2, <2>1 DEF Allow
  <2>2. CASE v # w BY <1>2, <2>2 DEF Allow
  <2>3. QED BY <2>1, <2>2
<1>3. ASSUME NEW v \in Writer, Snapshot(v)
      PROVE  plan'[w] = plan[w] /\ pc[w] \in {"allowed", "saved"}
  BY <1>3 DEF Snapshot
<1>4. ASSUME NEW v \in Writer, Done(v)
      PROVE  plan'[w] = plan[w] /\ pc[w] \in {"allowed", "saved"}
  BY <1>4 DEF Done
<1>5. CASE RollbackOpens \/ RollbackCopies \/ RollbackDies \/ UNCHANGED vars
  BY <1>5 DEF RollbackOpens, RollbackCopies, RollbackDies, vars, local
<1>6. QED
  BY <1>1, <1>2, <1>3, <1>4, <1>5
  DEF Next, Refuse, SkipUnchanged, SnapshotTorn, Write, Die

(* Every source of a config stays good. *)
LEMMA SourcesStep ==
  ASSUME IInv, [Next]_vars PROVE SourcesVetted'
<1>1. ASSUME NEW c, Vetted(c) PROVE Vetted(c)'
  BY <1>1, PassedGrows, VettedGrows
<1>2. Torn \notin Plans /\ None \notin Plans
  BY ConfigAssumption
<1>3. Good(config)'
  <2>1. ASSUME config' \in Plans PROVE Vetted(config')
    BY <1>2, <2>1, ConfigSource DEF IInv, SourcesVetted, Good
  <2>2. ASSUME config' \in Plans
        PROVE  \E e \in passed' : /\ e.plan = config'
                                  /\ config' \in Sound
                                  /\ e.forced \/ ~ZeroOffered(config')
    BY <2>1, <2>2, PassedGrows DEF Vetted
  <2>3. QED BY <2>2 DEF Good, Vetted
<1>4. ASSUME NEW s \in snapshots' PROVE s.holds \in Plans => Vetted(s.holds)'
  <2>1. s.holds \in Plans => Vetted(s.holds)
    BY <1>2, SnapshotSource DEF IInv, SourcesVetted, Good
  <2>2. QED BY <1>1, <2>1
<1>5. ASSUME NEW w \in Writer, pc'[w] \in {"allowed", "saved"}
      PROVE  (plan[w] \in Plans /\ Vetted(plan[w]))'
  <2>1. CASE pc[w] \in {"allowed", "saved"}
    <3>1. plan'[w] = plan[w] /\ plan[w] \in Plans /\ Vetted(plan[w])
      BY <1>5, <2>1, PlanSource DEF IInv, SourcesVetted
    <3>2. QED BY <3>1, PassedGrows DEF Vetted
  <2>2. CASE Allow(w)
    <3>1. plan[w] \in Sound /\ (force[w] \/ ~ZeroOffered(plan[w]))
          /\ plan'[w] = plan[w]
      BY <2>2 DEF Allow, RailAllows
    <3>2. [plan |-> plan[w], forced |-> force[w]] \in passed'
      BY <2>2 DEF Allow
    <3>3. plan[w] \in Plans
      BY <3>1, ConfigAssumption
    <3>4. \E e \in passed' : /\ e.plan = plan[w]
                             /\ plan[w] \in Sound
                             /\ e.forced \/ ~ZeroOffered(plan[w])
      BY <3>1, <3>2
    <3>5. QED BY <3>1, <3>3, <3>4 DEF Vetted
  <2>3. QED BY <1>5, <2>1, <2>2, PlanSource
<1>6. Good(restoring)'
  <2>1. ASSUME restoring' \in Plans PROVE Vetted(restoring')
    BY <1>2, <2>1, RestoreSource DEF IInv, SourcesVetted, Good
  <2>2. ASSUME restoring' \in Plans
        PROVE  \E e \in passed' : /\ e.plan = restoring'
                                  /\ restoring' \in Sound
                                  /\ e.forced \/ ~ZeroOffered(restoring')
    BY <2>1, <2>2, PassedGrows DEF Vetted
  <2>3. QED BY <2>2 DEF Good, Vetted
<1>7. QED
  BY <1>3, <1>4, <1>5, <1>6 DEF SourcesVetted, Good, Vetted

-----------------------------------------------------------------------------
(* The invariant holds in every reachable state. *)
THEOREM Invariance == Spec => []IInv
<1>1. IInv /\ [Next]_vars => IInv'
  BY TypeStep, ClockStep, SourcesStep DEF IInv
<1>2. QED BY Initially, <1>1, PTL DEF Spec

(* The state stays well typed. *)
THEOREM TypeCorrect == Spec => []TypeOK
<1>1. IInv => TypeOK BY DEF IInv
<1>2. QED BY Invariance, <1>1, PTL

(* A whole config on disk, or in a snapshot that a rollback may bring      *)
(* back, went through some writer's safety rail, whatever the writers and  *)
(* rollbacks do to one another.                                            *)
THEOREM OnlyVettedHolds == Spec => []OnlyVetted
<1>1. IInv => OnlyVetted
  BY DEF IInv, SourcesVetted, Good, OnlyVetted
<1>2. QED BY Invariance, <1>1, PTL

-----------------------------------------------------------------------------
(* The newest file survives the pruning. *)
LEMMA NewestKept ==
  ASSUME NEW files, NEW s \in files, \A t \in files : t.at \in Int /\ t.at <= s.at
  PROVE  s \in Pruned(files)
<1>1. {t \in files : t.at > s.at} = {}
  OBVIOUS
<1>2. Cardinality({}) = 0
  BY FS_EmptySet
<1>3. QED BY <1>1, <1>2, ConfigAssumption DEF Pruned

(* So a snapshot later than all others becomes the latest. *)
LEMMA SavedIsLatest ==
  ASSUME IInv, NEW w \in Writer, Snapshot(w), config # None, \A s \in snapshots : s.at < now[w]
  PROVE  LatestHolds(config)'
<1> DEFINE new == [at |-> now[w], holds |-> config]
           files == snapshots \cup {new}
<1>1. now[w] \in Int /\ \A s \in snapshots : s.at \in Int
  BY ConfigAssumption DEF IInv, TypeOK
<1>2. new.at = now[w] /\ new.holds = config
  OBVIOUS
<1>3. \A t \in files : t.at \in Int /\ t.at <= new.at
  <2> HIDE DEF new
  <2>1. QED BY <1>1, <1>2
<1>4. new \in files
  OBVIOUS
<1>5. new \in Pruned(files) /\ Pruned(files) \subseteq files
  <2> HIDE DEF files, new
  <2>1. QED BY <1>3, <1>4, NewestKept, PrunedSubset
<1>6. snapshots' = Pruned(files) /\ config' = config
  BY DEF Snapshot
<1>7. new \in snapshots' /\ \A t \in snapshots' : t.at <= new.at
  <2> HIDE DEF files, new
  <2>1. QED BY <1>3, <1>5, <1>6
<1>8. QED BY <1>2, <1>6, <1>7 DEF LatestHolds, IsLatest

LEMMA NoneAheadStep ==
  ASSUME IInv, NoneAhead, [Next]_vars PROVE NoneAhead'
<1> USE ConfigAssumption DEF IInv, TypeOK, local, history
<1>1. \A w \in Writer : now[w] \in Int
  OBVIOUS
<1>2. ASSUME NEW w \in Writer, Plan(w) PROVE NoneAhead'
  <2>1. clock' = clock + 1 /\ snapshots' = snapshots /\ \A s \in snapshots : s.at \in Int
    BY <1>2 DEF Plan
  <2>2. ASSUME NEW v \in Writer, pc'[v] # "idle" PROVE now'[v] <= clock'
    BY <1>2, <2>1, <2>2 DEF Plan, NoneAhead
  <2>3. QED BY <2>1, <2>2 DEF NoneAhead
<1>3. ASSUME NEW w \in Writer, Allow(w) PROVE NoneAhead'
  BY <1>3 DEF Allow, NoneAhead
<1>4. ASSUME NEW w \in Writer, Snapshot(w) PROVE NoneAhead'
  <2>1. now[w] <= clock
    BY <1>4 DEF Snapshot, NoneAhead
  <2>2. snapshots' \subseteq snapshots \cup {[at |-> now[w], holds |-> config]}
    BY <1>4, PrunedSubset DEF Snapshot
  <2>3. \A s \in snapshots' : s.at <= clock
    BY <2>1, <2>2 DEF NoneAhead
  <2>4. QED BY <1>4, <2>3 DEF Snapshot, NoneAhead
<1>5. ASSUME NEW w \in Writer, SnapshotTorn(w) PROVE NoneAhead'
  <2>1. now[w] <= clock
    BY <1>5 DEF SnapshotTorn, NoneAhead
  <2>2. \A s \in snapshots' : s.at <= clock
    BY <1>5, <2>1 DEF SnapshotTorn, NoneAhead
  <2>3. QED BY <1>5, <2>2 DEF SnapshotTorn, Done, NoneAhead
<1>6. ASSUME NEW w \in Writer, Done(w), UNCHANGED <<clock, snapshots>> PROVE NoneAhead'
  BY <1>6 DEF Done, NoneAhead
<1>7. CASE RollbackOpens \/ RollbackCopies \/ RollbackDies \/ UNCHANGED vars
  BY <1>7 DEF RollbackOpens, RollbackCopies, RollbackDies, vars, NoneAhead
<1>8. QED
  BY <1>2, <1>3, <1>4, <1>5, <1>6, <1>7 DEF Next, Refuse, SkipUnchanged, Write, Die

(* A writer that stays alone has just started, or takes the step itself.   *)
LEMMA AloneStep ==
  ASSUME IInv, NoneAhead, AloneApart, [Next]_vars PROVE AloneApart'
<1> SUFFICES ASSUME NEW w \in alone', pc'[w] # "idle" PROVE Lone(w)'
  BY DEF AloneApart
<1> USE ConfigAssumption DEF IInv, TypeOK, local, history
<1>1. clock \in Int /\ \A s \in snapshots : s.at \in Int
  OBVIOUS
<1>2. ASSUME NEW v \in Writer, w \in alone, pc[w] # "idle", pc[v] # "idle" PROVE v = w
  BY <1>2 DEF AloneApart, Lone
<1>3. ASSUME NEW v \in Writer, Plan(v) PROVE Lone(w)'
  <2>1. v = w /\ Idle /\ restoring' = None /\ clock' = clock + 1 /\ snapshots' = snapshots
    BY <1>3 DEF Plan
  <2>2. now'[w] = clock' /\ pc'[w] = "planned"
    BY <1>3, <2>1 DEF Plan
  <2>3. \A u \in Writer \ {w} : pc'[u] = "idle"
    BY <1>3, <2>1 DEF Plan, Idle
  <2>4. \A s \in snapshots' : s.at < clock'
    BY <1>1, <2>1 DEF NoneAhead
  <2>5. QED BY <2>1, <2>2, <2>3, <2>4 DEF Lone
<1>4. ASSUME NEW v \in Writer, Allow(v) PROVE Lone(w)'
  <2>1. w \in alone /\ pc[w] # "idle"
    BY <1>4 DEF Allow
  <2>2. v = w
    BY <1>2, <1>4, <2>1 DEF Allow
  <2>3. QED BY <1>4, <2>1, <2>2 DEF AloneApart, Lone, Allow
<1>5. ASSUME NEW v \in Writer, Snapshot(v) PROVE Lone(w)'
  <2>1. w \in alone /\ pc[w] # "idle"
    BY <1>5 DEF Snapshot
  <2>2. v = w
    BY <1>2, <1>5, <2>1 DEF Snapshot
  <2>3. pc[w] = "allowed" /\ pc'[w] = "saved" /\ config' = config
    BY <1>5, <2>2 DEF Snapshot
  <2>4. config' = None \/ LatestHolds(config)'
    BY <1>5, <2>1, <2>2, <2>3, SavedIsLatest DEF AloneApart, Lone
  <2>5. /\ restoring' = None /\ now'[w] = clock'
        /\ \A u \in Writer \ {w} : pc'[u] = "idle"
    BY <1>5, <2>1, <2>2 DEF AloneApart, Lone, Snapshot
  <2>6. QED BY <2>3, <2>4, <2>5 DEF Lone
<1>6. ASSUME NEW v \in Writer, pc[v] # "idle", Done(v), alone' = alone PROVE FALSE
  <2>1. CASE v = w
    BY <1>6, <2>1 DEF Done
  <2>2. CASE v # w
    BY <1>2, <1>6, <2>2 DEF Done
  <2>3. QED BY <2>1, <2>2
<1>7. CASE RollbackOpens
  BY <1>7 DEF RollbackOpens
<1>8. CASE RollbackCopies \/ RollbackDies
  BY <1>8 DEF RollbackCopies, RollbackDies, AloneApart, Lone
<1>9. CASE UNCHANGED vars
  BY <1>9 DEF vars, AloneApart, Lone, LatestHolds, IsLatest
<1>10. QED
  BY <1>3, <1>4, <1>5, <1>6, <1>7, <1>8, <1>9
  DEF Next, Refuse, SkipUnchanged, SnapshotTorn, Write, Die

(* What was replaced can only be lost where the promise ends.              *)
LEMMA ReplacedStep ==
  ASSUME IInv, AloneApart, ReplacedKept, [Next]_vars PROVE ReplacedKept'
<1> SUFFICES ASSUME replaced' # None, \A w \in Writer : pc'[w] # "saved"
             PROVE  LatestHolds(replaced)'
  BY DEF ReplacedKept
<1> USE DEF IInv, TypeOK, local, history
<1>1. ASSUME UNCHANGED <<replaced, snapshots>>, \A w \in Writer : pc[w] # "saved"
      PROVE  LatestHolds(replaced)'
  BY <1>1 DEF ReplacedKept, LatestHolds, IsLatest
<1>2. ASSUME NEW w \in Writer, Plan(w) \/ Allow(w) PROVE LatestHolds(replaced)'
  <2>1. \A v \in Writer : pc[v] # "saved"
    BY <1>2 DEF Plan, Allow
  <2>2. QED BY <1>1, <1>2, <2>1 DEF Plan, Allow
<1>3. ASSUME NEW w \in Writer, Refuse(w) \/ SkipUnchanged(w) PROVE LatestHolds(replaced)'
  <2>1. \A v \in Writer : pc[v] # "saved"
    BY <1>3 DEF Refuse, SkipUnchanged, Done
  <2>2. QED BY <1>1, <1>3, <2>1 DEF Refuse, SkipUnchanged
<1>4. ASSUME NEW w \in Writer, Snapshot(w) \/ SnapshotTorn(w) PROVE FALSE
  BY <1>4 DEF Snapshot, SnapshotTorn
<1>5. ASSUME NEW w \in Writer, Write(w) PROVE LatestHolds(replaced)'
  <2>1. w \in alone /\ replaced' = config /\ snapshots' = snapshots
    BY <1>5 DEF Write
  <2>2. LatestHolds(config)
    BY <1>5, <2>1 DEF Write, AloneApart, Lone
  <2>3. QED BY <2>1, <2>2 DEF LatestHolds, IsLatest
<1>6. ASSUME NEW w \in Writer, Die(w) PROVE LatestHolds(replaced)'
  <2>1. pc[w] # "saved" /\ UNCHANGED <<replaced, snapshots>>
    BY <1>6 DEF Die
  <2>2. \A v \in Writer : pc[v] # "saved"
    BY <1>6, <2>1 DEF Die, Done
  <2>3. QED BY <1>1, <2>1, <2>2
<1>7. CASE RollbackOpens \/ RollbackCopies \/ RollbackDies \/ UNCHANGED vars
  BY <1>1, <1>7 DEF RollbackOpens, RollbackCopies, RollbackDies, vars
<1>8. QED BY <1>2, <1>3, <1>4, <1>5, <1>6, <1>7 DEF Next

(* The newest snapshot is what the last write replaced, wherever commands  *)
(* die and whatever they are interleaved with, unless the write itself was *)
(* overlapped or a later command died between its snapshot and its write.  *)
THEOREM UndoesLastWriteHolds == Spec => []UndoesLastWrite
<1>1. Init => Undoable
  BY DEF Init, Undoable, NoneAhead, AloneApart, ReplacedKept
<1>2. IInv /\ Undoable /\ [Next]_vars => Undoable'
  BY NoneAheadStep, AloneStep, ReplacedStep DEF Undoable
<1>3. Undoable => UndoesLastWrite
  BY DEF Undoable, ReplacedKept, LatestHolds, UndoesLastWrite, Idle
<1>4. QED BY Invariance, <1>1, <1>2, <1>3, PTL DEF Spec

-----------------------------------------------------------------------------
(* While a writer is alone, what its rail and its comparison found of the  *)
(* file is still so.                                                       *)
LoneRail ==
  \A w \in alone :
    /\ pc[w] \in {"allowed", "saved"} => RailAllows(w)
    /\ pc[w] = "saved" => config # plan[w]

LEMMA LoneRailStep ==
  ASSUME IInv, AloneApart, LoneRail, [Next]_vars PROVE LoneRail'
<1> SUFFICES ASSUME NEW w \in alone', pc'[w] \in {"allowed", "saved"}
             PROVE  RailAllows(w)' /\ (pc'[w] = "saved" => config' # plan'[w])
  BY DEF LoneRail
<1> USE DEF IInv, TypeOK, local, history
<1>1. ASSUME config' = config, plan'[w] = plan[w], force'[w] = force[w], RailAllows(w)
      PROVE  RailAllows(w)'
  BY <1>1 DEF RailAllows, ZeroOffered, RemovalTooLarge, PreviousSize
<1>2. ASSUME NEW v \in Writer, w \in alone, pc[w] # "idle", pc[v] # "idle" PROVE v = w
  BY <1>2 DEF AloneApart, Lone
<1>3. ASSUME NEW v \in Writer, Plan(v) PROVE FALSE
  BY <1>3 DEF Plan
<1>4. ASSUME NEW v \in Writer, Allow(v)
      PROVE  RailAllows(w)' /\ (pc'[w] = "saved" => config' # plan'[w])
  <2>1. w \in alone /\ pc[w] # "idle" /\ pc[v] # "idle"
    BY <1>4 DEF Allow
  <2>2. v = w
    BY <1>2, <2>1
  <2>3. pc'[w] = "allowed" /\ RailAllows(w)
    BY <1>4, <2>2 DEF Allow
  <2>4. QED BY <1>1, <1>4, <2>3 DEF Allow
<1>5. ASSUME NEW v \in Writer, Snapshot(v)
      PROVE  RailAllows(w)' /\ (pc'[w] = "saved" => config' # plan'[w])
  <2>1. w \in alone /\ pc[w] # "idle" /\ pc[v] # "idle"
    BY <1>5 DEF Snapshot
  <2>2. v = w
    BY <1>2, <2>1
  <2>3. RailAllows(w) /\ config # plan[w]
    BY <1>5, <2>1, <2>2 DEF Snapshot, LoneRail
  <2>4. QED BY <1>1, <1>5, <2>3 DEF Snapshot
<1>6. ASSUME NEW v \in Writer, pc[v] # "idle", Done(v), alone' = alone PROVE FALSE
  <2>1. CASE v = w
    BY <1>6, <2>1 DEF Done
  <2>2. CASE v # w
    BY <1>2, <1>6, <2>2 DEF Done
  <2>3. QED BY <2>1, <2>2
<1>7. CASE RollbackOpens
  BY <1>7 DEF RollbackOpens
<1>8. CASE RollbackCopies
  BY <1>8 DEF RollbackCopies, AloneApart, Lone
<1>9. CASE RollbackDies \/ UNCHANGED vars
  <2>1. w \in alone /\ UNCHANGED <<config, local>>
    BY <1>9 DEF RollbackDies, vars
  <2>2. QED BY <1>1, <2>1 DEF LoneRail
<1>10. QED
  BY <1>3, <1>4, <1>5, <1>6, <1>7, <1>8, <1>9
  DEF Next, Refuse, SkipUnchanged, SnapshotTorn, Write, Die

LEMMA LoneRailHolds == Spec => [](IInv /\ Undoable /\ LoneRail)
<1>1. Init => Undoable /\ LoneRail
  BY DEF Init, Undoable, NoneAhead, AloneApart, ReplacedKept, LoneRail
<1>2. IInv /\ Undoable /\ LoneRail /\ [Next]_vars => (Undoable /\ LoneRail)'
  BY NoneAheadStep, AloneStep, ReplacedStep, LoneRailStep DEF Undoable
<1>3. QED BY Invariance, <1>1, <1>2, PTL DEF Spec

(* A writer nothing overlapped renames no file that is on disk already, so *)
(* the proxy is not restarted for the bytes it serves, whatever died or    *)
(* was rolled back before.                                                 *)
THEOREM ReloadsForNewsHolds == Spec => ReloadsForNews
<1>1. LoneRail => (\A w \in alone : Renames(w) => config # plan[w])
  BY DEF LoneRail, Renames
<1>2. QED BY LoneRailHolds, <1>1, PTL DEF ReloadsForNews

(* And one that was not forced leaves of a whole config the share that     *)
(* Policy states, by count, of what is on disk at the rename.              *)
THEOREM ShareRespectedHolds == Spec => ShareRespected
<1>1. ASSUME IInv, LoneRail, NEW w \in alone, Renames(w), config \in Plans, ~force[w]
      PROVE  100 * (Size[config] - Size[plan[w]]) <= Share * Size[config]
  <2>1. RailAllows(w) /\ w \in Writer /\ pc[w] = "saved"
    BY <1>1 DEF LoneRail, Renames, IInv, TypeOK
  <2>2. plan[w] \in Plans
    BY <1>1, <2>1 DEF IInv, SourcesVetted
  <2>3. ~RemovalTooLarge(plan[w]) /\ PreviousSize = Size[config]
    BY <1>1, <2>1 DEF RailAllows, PreviousSize
  <2>4. Size[config] \in Nat /\ Size[plan[w]] \in Nat /\ Share \in Nat
    BY <1>1, <2>2, ConfigAssumption
  <2>5. ~(100 * (Size[config] - Size[plan[w]]) > Share * Size[config])
    BY <2>3 DEF RemovalTooLarge
  <2> DEFINE a == 100 * (Size[config] - Size[plan[w]])
             b == Share * Size[config]
  <2>6. a \in Int /\ b \in Int
    BY <2>4
  <2>7. QED
    <3>1. ~(a > b)
      BY <2>5
    <3> HIDE DEF a, b
    <3>2. a <= b
      BY <2>6, <3>1
    <3>3. QED BY <3>2 DEF a, b
<1>2. IInv /\ LoneRail =>
        (\A w \in alone : Renames(w) /\ config \in Plans /\ ~force[w] =>
           100 * (Size[config] - Size[plan[w]]) <= Share * Size[config])
  BY <1>1
<1>3. QED BY LoneRailHolds, <1>2, PTL DEF ShareRespected

-----------------------------------------------------------------------------
(* Orders and places.                                                      *)

(* B orders S strictly and totally. *)
Orders(B, S) ==
  /\ \A x \in S : <<x, x>> \notin B
  /\ \A x, y \in S : x # y => <<x, y>> \in B \/ <<y, x>> \in B
  /\ \A x, y, z \in S : <<x, y>> \in B /\ <<y, z>> \in B => <<x, z>> \in B

(* Each member's place in that order. *)
PlaceIn(B, S) == [x \in S |-> Cardinality({y \in S : <<y, x>> \in B}) + 1]

(* Every place is taken by one member, in the order's sense. *)
InPlace(B, S, place) ==
  /\ Cardinality(S) \in Nat
  /\ place \in [S -> 1..Cardinality(S)]
  /\ \A x, y \in S : <<x, y>> \in B <=> place[x] < place[y]
  /\ \A i \in 1..Cardinality(S) : \E x \in S : place[x] = i

(* In a finite set that B orders strictly and totally, every place from 1  *)
(* to its size is taken by one member.                                     *)
LEMMA Places ==
  ASSUME NEW S, IsFiniteSet(S), NEW B, Orders(B, S)
  PROVE  InPlace(B, S, PlaceIn(B, S))
<1> USE DEF Orders
<1> DEFINE place == PlaceIn(B, S)
           below(x) == {y \in S : <<y, x>> \in B}
<1>1. Cardinality(S) \in Nat
  BY FS_CardinalityType
<1>2. ASSUME NEW x \in S
      PROVE  /\ IsFiniteSet(below(x)) /\ Cardinality(below(x)) \in Nat
             /\ Cardinality(below(x)) < Cardinality(S)
  <2>1. IsFiniteSet(S \ {x}) /\ Cardinality(S \ {x}) = Cardinality(S) - 1
    BY FS_RemoveElement
  <2>2. below(x) \in SUBSET (S \ {x})
    OBVIOUS
  <2> HIDE DEF below
  <2>3. IsFiniteSet(below(x)) /\ Cardinality(below(x)) <= Cardinality(S \ {x})
    BY <2>1, <2>2, FS_Subset
  <2>4. Cardinality(below(x)) \in Nat
    BY <2>3, FS_CardinalityType
  <2>5. QED BY <1>1, <2>1, <2>3, <2>4
<1>3. ASSUME NEW x \in S, NEW y \in S, <<x, y>> \in B
      PROVE  Cardinality(below(x)) < Cardinality(below(y))
  <2>1. below(x) \in SUBSET below(y) /\ x \in below(y) /\ x \notin below(x)
    BY <1>3
  <2> HIDE DEF below
  <2>2. /\ Cardinality(below(x)) <= Cardinality(below(y))
        /\ Cardinality(below(y)) = Cardinality(below(x)) => below(y) = below(x)
    BY <1>2, <2>1, FS_Subset
  <2>3. QED BY <1>2, <2>1, <2>2
<1>4. place = [x \in S |-> Cardinality(below(x)) + 1]
  BY DEF PlaceIn
<1> HIDE DEF place
<1>5. place \in [S -> 1..Cardinality(S)]
  <2> HIDE DEF below
  <2>1. \A x \in S : place[x] \in 1..Cardinality(S)
    BY <1>1, <1>2, <1>4
  <2>2. QED BY <1>4, <2>1
<1> HIDE DEF below
<1>6. \A x, y \in S : <<x, y>> \in B => place[x] < place[y]
  BY <1>2, <1>3, <1>4
<1>7. \A x, y \in S : place[x] < place[y] => <<x, y>> \in B
  <2>1. SUFFICES ASSUME NEW x \in S, NEW y \in S, place[x] < place[y] PROVE <<x, y>> \in B
    OBVIOUS
  <2>2. place[x] \in Int /\ place[y] \in Int
    BY <1>1, <1>5
  <2>3. ~(place[y] < place[x]) /\ x # y
    BY <2>1, <2>2
  <2>4. <<y, x>> \notin B
    BY <1>6, <2>3, Zenon
  <2>5. QED BY <2>3, <2>4, Zenon
<1>8. \A i \in 1..Cardinality(S) : \E x \in S : place[x] = i
  <2> DEFINE T == 1..Cardinality(S)
  <2>1. IsFiniteSet(T) /\ Cardinality(T) = Cardinality(S)
    BY <1>1, FS_Interval
  <2>2. \A x, y \in S : place[x] = place[y] => x = y
    <3>1. SUFFICES ASSUME NEW x \in S, NEW y \in S, place[x] = place[y] PROVE x = y
      OBVIOUS
    <3>2. place[x] \in Int /\ place[y] \in Int
      BY <1>1, <1>5
    <3>3. ~(place[x] < place[y]) /\ ~(place[y] < place[x])
      BY <3>1, <3>2
    <3>4. <<x, y>> \notin B /\ <<y, x>> \notin B
      BY <1>6, <3>3, Zenon
    <3>5. QED BY <3>4, Zenon
  <2>3. place \in Injection(S, T)
    BY <1>5, <2>2 DEF Injection, IsInjective
  <2> HIDE DEF T
  <2>4. place \in Surjection(S, T)
    BY <2>1, <2>3, FS_Injection
  <2>5. \A i \in T : \E x \in S : place[x] = i
    BY <2>4 DEF Surjection
  <2>6. QED BY <2>5 DEF T
<1>9. QED BY <1>1, <1>5, <1>6, <1>7, <1>8 DEF InPlace, place
(* What derive may see. *)
IsView(k) ==
  /\ k.admitted \subseteq Offering
  /\ k.recommendable \subseteq k.admitted
  /\ k.success \in [Offering -> Age]

(* Of two Routes, one is before the other. *)
LEMMA RouteOrder ==
  ASSUME NEW k, IsView(k)
  PROVE  /\ \A o \in Offering : ~RouteBefore(k, o, o)
         /\ \A o, p \in Offering : o # p => RouteBefore(k, o, p) \/ RouteBefore(k, p, o)
         /\ \A o, p, q \in Offering :
              RouteBefore(k, o, p) /\ RouteBefore(k, p, q) => RouteBefore(k, o, q)
<1> DEFINE away(o) == IF o \in k.recommendable THEN 0 ELSE 1
           stale(o) == IF k.success[o] = Nothing THEN Staleness + 1 ELSE k.success[o]
           Before(o, p) ==
             IF away(o) # away(p) THEN away(o) < away(p)
             ELSE IF Basis[o] # Basis[p] THEN Basis[o] < Basis[p]
             ELSE IF stale(o) # stale(p) THEN stale(o) < stale(p)
             ELSE Position[o] < Position[p]
<1>1. \A o \in Offering : /\ Basis[o] \in Int /\ Position[o] \in Int
                          /\ away(o) \in Int /\ stale(o) \in Int
  BY GuidanceAssumption DEF IsView, Age
<1>2. \A o, p \in Offering : o # p => Position[o] # Position[p]
  BY GuidanceAssumption
<1>3. ASSUME NEW o \in Offering, NEW p \in Offering
      PROVE  RouteBefore(k, o, p) <=> Before(o, p)
  <2>1. ((o \in k.recommendable) # (p \in k.recommendable)) <=> away(o) # away(p)
    OBVIOUS
  <2>2. away(o) # away(p) => ((o \in k.recommendable) <=> away(o) < away(p))
    OBVIOUS
  <2>3. /\ k.success[o] \in Age /\ k.success[p] \in Age
        /\ Staleness \in Nat /\ Nothing \notin Int
    BY GuidanceAssumption DEF IsView
  <2>4. (k.success[o] # k.success[p]) <=> stale(o) # stale(p)
    BY <2>3 DEF Age
  <2>5. stale(o) # stale(p) => (Staler(k.success[p], k.success[o]) <=> stale(o) < stale(p))
    BY <2>3 DEF Age, Staler
  <2> HIDE DEF away, stale
  <2>6. QED BY <2>1, <2>2, <2>4, <2>5 DEF RouteBefore
<1> HIDE DEF away, stale
<1>4. \A o \in Offering : ~Before(o, o)
  BY <1>1
<1>5. \A o, p \in Offering : o # p => Before(o, p) \/ Before(p, o)
  BY <1>1, <1>2
<1>6. ASSUME NEW o \in Offering, NEW p \in Offering, NEW q \in Offering,
             Before(o, p), Before(p, q)
      PROVE  Before(o, q)
  BY <1>1, <1>6
<1> HIDE DEF Before
<1>7. QED BY <1>3, <1>4, <1>5, <1>6

(* Of any Routes, one is listed first. *)
LEMMA FirstRoute ==
  ASSUME NEW k, IsView(k), NEW routes \in SUBSET Offering, routes # {}
  PROVE  \E o \in routes : /\ First(k, routes) = {o}
                           /\ \A p \in routes \ {o} : RouteBefore(k, o, p)
<1> DEFINE B == {b \in routes \X routes : RouteBefore(k, b[1], b[2])}
           place == PlaceIn(B, routes)
<1>1. \A o, p \in routes : <<o, p>> \in B <=> RouteBefore(k, o, p)
  OBVIOUS
<1>2. IsFiniteSet(routes) /\ Cardinality(routes) \in Nat \ {0}
  <2>1. IsFiniteSet(routes)
    BY GuidanceAssumption, FS_Subset
  <2>2. QED BY <2>1, FS_CardinalityType, FS_EmptySet
<1>3. Orders(B, routes)
  <2> HIDE DEF B
  <2>1. \A x \in routes : x \in Offering
    OBVIOUS
  <2>2. QED BY <1>1, <2>1, RouteOrder DEF Orders
<1>4. InPlace(B, routes, place)
  <2> HIDE DEF B
  <2>1. IsFiniteSet(routes)
    BY <1>2
  <2>2. QED BY <1>3, <2>1, Places, Zenon
<1> USE DEF InPlace
<1> HIDE DEF B, place
<1>5. PICK o \in routes : place[o] = 1
  BY <1>2, <1>4
<1>6. ASSUME NEW p \in routes \ {o} PROVE RouteBefore(k, o, p) /\ ~RouteBefore(k, p, o)
  <2>1. ~(place[p] < place[o])
    <3>1. place[p] \in 1..Cardinality(routes)
      BY <1>4
    <3>2. QED BY <1>2, <1>5, <3>1
  <2>2. <<p, o>> \notin B
    BY <1>4, <2>1
  <2>3. QED BY <1>1, <1>3, <2>2 DEF Orders
<1>7. First(k, routes) = {o}
  BY <1>6 DEF First
<1>8. QED BY <1>6, <1>7

(* Of two rows, one is before the other. *)
LEMMA RowOrder ==
  ASSUME NEW k, NEW rule
  PROVE  /\ \A m \in Models : ~RowBefore(k, rule, m, m)
         /\ \A m, n \in Models : m # n => RowBefore(k, rule, m, n) \/ RowBefore(k, rule, n, m)
         /\ \A m, n, l \in Models :
              RowBefore(k, rule, m, n) /\ RowBefore(k, rule, n, l) => RowBefore(k, rule, m, l)
<1> DEFINE tier(m) == Tier(k, m, rule)
           dead(m) == IF BestRoute(k, m, rule) = {} THEN 1 ELSE 0
           Before(m, n) == IF tier(m) # tier(n) THEN tier(m) < tier(n)
                           ELSE IF dead(m) # dead(n) THEN dead(m) < dead(n)
                           ELSE Score[m] > Score[n]
<1>1. \A m \in Models : tier(m) \in Int /\ dead(m) \in Int /\ Score[m] \in Int
  BY GuidanceAssumption DEF Tier
<1>2. \A m, n \in Models : m # n => Score[m] # Score[n]
  BY GuidanceAssumption
<1>3. ASSUME NEW m \in Models, NEW n \in Models
      PROVE  RowBefore(k, rule, m, n) <=> Before(m, n)
  BY DEF RowBefore
<1> HIDE DEF tier, dead
<1>4. \A m \in Models : ~Before(m, m)
  BY <1>1
<1>5. \A m, n \in Models : m # n => Before(m, n) \/ Before(n, m)
  BY <1>1, <1>2
<1>6. ASSUME NEW m \in Models, NEW n \in Models, NEW l \in Models, Before(m, n), Before(n, l)
      PROVE  Before(m, l)
  BY <1>1, <1>6
<1> HIDE DEF Before
<1>7. QED BY <1>3, <1>4, <1>5, <1>6
(* The Routes of a row that a Role may name, of which one is the rung. *)
Fitting(k, rule, m) ==
  {o \in RoutesOf(k, m, rule) \cap k.recommendable : Basis[o] \in rule.bases}

LEMMA RungIs ==
  ASSUME NEW k, IsView(k), NEW rule, NEW m \in Models
  PROVE  /\ Rung(k, rule, m) # {} <=> m \in Able /\ Fitting(k, rule, m) # {}
         /\ \A o \in Rung(k, rule, m) :
              /\ Qualifies(k, rule, o) /\ Model[o] = m /\ o \in Offering
              /\ \A p \in Fitting(k, rule, m) : Basis[o] <= Basis[p]
         /\ Rung(k, rule, m) # {} => BestRoute(k, m, rule) # {}
<1> DEFINE fits == Fitting(k, rule, m)
           called == RoutesOf(k, m, rule) \cap k.recommendable
<1>1. fits \in SUBSET Offering /\ called \in SUBSET Offering /\ fits \subseteq called
  BY DEF Fitting, RoutesOf, IsView
<1>2. Rung(k, rule, m) = IF m \in Able THEN First(k, fits) ELSE {}
  BY DEF Rung, Fitting
<1>3. fits = {} => First(k, fits) = {}
  BY DEF First
<1>4. \A o \in fits : /\ o \in k.recommendable /\ Basis[o] \in rule.bases
                      /\ Context[o] >= rule.context /\ Model[o] = m
  BY DEF Fitting, RoutesOf
<1> HIDE DEF fits, called
<1>5. ASSUME fits # {}
      PROVE  \E o \in fits : First(k, fits) = {o} /\ \A p \in fits \ {o} : RouteBefore(k, o, p)
  BY <1>1, <1>5, FirstRoute
<1>6. called # {} => BestRoute(k, m, rule) # {}
  <2>1. BestRoute(k, m, rule) = First(k, called)
    BY DEF BestRoute, called
  <2>2. QED BY <1>1, <2>1, FirstRoute
<1>7. Rung(k, rule, m) # {} <=> m \in Able /\ fits # {}
  BY <1>2, <1>3, <1>5
<1>8. ASSUME NEW o \in Rung(k, rule, m)
      PROVE  /\ Qualifies(k, rule, o) /\ Model[o] = m /\ o \in Offering
             /\ \A p \in fits : Basis[o] <= Basis[p]
  <2>1. m \in Able /\ fits # {} /\ o \in fits /\ \A p \in fits \ {o} : RouteBefore(k, o, p)
    BY <1>2, <1>3, <1>5
  <2>2. Qualifies(k, rule, o) /\ Model[o] = m /\ o \in Offering
    BY <1>1, <1>4, <2>1 DEF Qualifies
  <2>3. ASSUME NEW p \in fits PROVE Basis[o] <= Basis[p]
    <3>1. Basis[o] \in Int /\ Basis[p] \in Int
      BY <1>1, <2>1, GuidanceAssumption
    <3>2. o \in k.recommendable /\ p \in k.recommendable
      BY <1>4, <2>1
    <3>3. p # o => RouteBefore(k, o, p)
      BY <2>1
    <3>4. QED BY <3>1, <3>2, <3>3 DEF RouteBefore
  <2>4. QED BY <2>2, <2>3
<1>9. QED BY <1>1, <1>6, <1>7, <1>8 DEF fits

LEMMA ModelsFinite == IsFiniteSet(Models)
<1> DEFINE f == [o \in Offering |-> Model[o]]
<1>1. f \in Surjection(Offering, Models)
  BY DEF Surjection, Models
<1>2. QED BY <1>1, GuidanceAssumption, FS_Surjection

(* The rungs of some rows, each at its row's place. *)
RungsInPlace(k, rule, rows, place) ==
  /\ Cardinality(rows) \in Nat
  /\ place \in [rows -> 1..Cardinality(rows)]
  /\ \A m, n \in rows : RowBefore(k, rule, m, n) <=> place[m] < place[n]
  /\ Listed(k, rule, rows) \in [1..Cardinality(rows) -> Offering]
  /\ \A m \in rows : Listed(k, rule, rows)[place[m]] \in Rung(k, rule, m)
  /\ \A i \in 1..Cardinality(rows) : \E m \in rows : place[m] = i

LEMMA ListedIs ==
  ASSUME NEW k, IsView(k), NEW rule, NEW rows \in SUBSET Models,
         \A m \in rows : Rung(k, rule, m) # {}
  PROVE  \E place : RungsInPlace(k, rule, rows, place)
<1> DEFINE B == {b \in rows \X rows : RowBefore(k, rule, b[1], b[2])}
           place == PlaceIn(B, rows)
           listed == Listed(k, rule, rows)
<1>1. \A m, n \in rows : <<m, n>> \in B <=> RowBefore(k, rule, m, n)
  OBVIOUS
<1>2. IsFiniteSet(rows)
  BY ModelsFinite, FS_Subset
<1>3. Orders(B, rows)
  <2> HIDE DEF B
  <2>1. \A m \in rows : m \in Models
    OBVIOUS
  <2>2. QED BY <1>1, <2>1, RowOrder DEF Orders
<1>4. \A m \in rows : Place(k, rule, rows, m) = place[m]
  <2>1. ASSUME NEW m \in rows
        PROVE  {n \in rows : RowBefore(k, rule, n, m)} = {n \in rows : <<n, m>> \in B}
    BY <1>1
  <2> HIDE DEF B
  <2>2. QED BY <2>1 DEF Place, PlaceIn
<1>5. InPlace(B, rows, place)
  <2> HIDE DEF B
  <2>1. QED BY <1>2, <1>3, Places, Zenon
<1> HIDE DEF B, place
<1> USE DEF InPlace
<1>6. ASSUME NEW i \in 1..Cardinality(rows)
      PROVE  \E m \in rows : /\ place[m] = i
                             /\ listed[i] \in Offering /\ listed[i] \in Rung(k, rule, m)
  <2> DEFINE Is(o) == \E m \in rows : o \in Rung(k, rule, m) /\ Place(k, rule, rows, m) = i
  <2>1. PICK m \in rows : place[m] = i
    BY <1>5
  <2>2. PICK o : o \in Rung(k, rule, m)
    BY <2>1
  <2>3. o \in Offering /\ Is(o)
    BY <1>4, <2>1, <2>2, RungIs
  <2>4. listed[i] = CHOOSE p \in Offering : Is(p)
    BY DEF Listed
  <2> HIDE DEF Is, listed
  <2>5. listed[i] \in Offering /\ Is(listed[i])
    BY <2>3, <2>4
  <2>6. QED BY <1>4, <2>5 DEF Is
<1>7. listed \in [1..Cardinality(rows) -> Offering]
  <2> DEFINE taken(i) == CHOOSE o \in Offering :
                           \E m \in rows : o \in Rung(k, rule, m) /\ Place(k, rule, rows, m) = i
  <2>1. listed = [i \in 1..Cardinality(rows) |-> taken(i)]
    BY DEF Listed
  <2> HIDE DEF taken, listed
  <2>2. QED BY <1>6, <2>1
<1>8. ASSUME NEW m \in rows PROVE listed[place[m]] \in Rung(k, rule, m)
  <2>1. place[m] \in 1..Cardinality(rows)
    BY <1>5
  <2>2. PICK n \in rows : place[n] = place[m] /\ listed[place[m]] \in Rung(k, rule, n)
    BY <1>6, <2>1
  <2>3. ~(place[m] < place[n]) /\ ~(place[n] < place[m])
    BY <1>5, <2>1, <2>2
  <2>4. m = n
    BY <1>3, <1>5, <2>3 DEF Orders
  <2>5. QED BY <2>2, <2>4
<1>9. QED BY <1>1, <1>5, <1>7, <1>8 DEF RungsInPlace
(* A ladder is the best there is, whatever derive sees. *)
LEMMA LadderBest ==
  ASSUME NEW k, IsView(k), NEW rule, rule.limit \in Nat \ {0}
  PROVE  BestLadder(k, rule, Ladder(k, rule))
<1> DEFINE rows == {m \in Models : Rung(k, rule, m) # {}}
           full == Listed(k, rule, rows)
           size == Cardinality(rows)
           ladder == Ladder(k, rule)
           length == IF size > rule.limit THEN rule.limit ELSE size
<1>1. PICK place : RungsInPlace(k, rule, rows, place)
  <2>1. rows \in SUBSET Models /\ \A m \in rows : Rung(k, rule, m) # {}
    OBVIOUS
  <2> HIDE DEF rows
  <2>2. QED BY <2>1, ListedIs
<1> USE DEF RungsInPlace
<1>2. length \in Nat /\ length <= size /\ length <= rule.limit
  BY <1>1
<1>3. /\ DOMAIN ladder = 1..length /\ Len(ladder) = length
      /\ \A i \in 1..length : ladder[i] = full[i]
  <2>1. full \in Seq(Offering) /\ Len(full) = size
    <3>1. full \in [1..size -> Offering] /\ size \in Nat
      BY <1>1
    <3> HIDE DEF full, size
    <3>2. QED BY <3>1
  <2>2. ladder = SubSeq(full, 1, length)
    BY <2>1 DEF Ladder, UpTo
  <2> HIDE DEF full, ladder, length
  <2>3. QED BY <1>1, <1>2, <2>1, <2>2
<1>4. /\ size \in Nat
      /\ place \in [rows -> 1..size]
      /\ \A m, n \in rows : RowBefore(k, rule, m, n) <=> place[m] < place[n]
      /\ \A m \in rows : full[place[m]] \in Rung(k, rule, m)
      /\ \A i \in 1..size : \E m \in rows : place[m] = i
  BY <1>1
<1> HIDE DEF full, ladder, size, RungsInPlace
<1>5. \A m \in rows : /\ m \in Models /\ Rung(k, rule, m) # {}
                      /\ BestRoute(k, m, rule) # {}
  BY RungIs
<1>6. ASSUME NEW i \in 1..length
      PROVE  \E m \in rows : place[m] = i /\ ladder[i] \in Rung(k, rule, m)
  <2>1. i \in 1..size
    BY <1>4, <1>2
  <2>2. PICK m \in rows : place[m] = i
    BY <1>4, <2>1
  <2>3. QED BY <1>4, <1>3, <2>2
<1> HIDE DEF rows, length
<1>7. ASSUME NEW m \in rows, NEW n \in rows, place[m] < place[n]
      PROVE  Score[m] > Score[n] \/ Tier(k, m, rule) < Tier(k, n, rule)
  BY <1>4, <1>5, <1>7 DEF RowBefore
<1>8. ASSUME NEW i \in 1..length
      PROVE  /\ Qualifies(k, rule, ladder[i])
             /\ Model[ladder[i]] \in rows /\ place[Model[ladder[i]]] = i
  BY <1>5, <1>6, RungIs
<1>9. \A i, j \in 1..length : i # j => Model[ladder[i]] # Model[ladder[j]]
  BY <1>8
<1>10. \A i, j \in 1..length : i < j =>
        \/ Score[Model[ladder[i]]] > Score[Model[ladder[j]]]
        \/ Tier(k, Model[ladder[i]], rule) < Tier(k, Model[ladder[j]], rule)
  BY <1>7, <1>8
<1>11. ASSUME NEW o \in Offering, Qualifies(k, rule, o)
       PROVE  \/ \E i \in 1..length : /\ Model[ladder[i]] = Model[o]
                                      /\ Basis[ladder[i]] <= Basis[o]
              \/ /\ length = rule.limit
                 /\ \A i \in 1..length :
                      \/ Score[Model[ladder[i]]] > Score[Model[o]]
                      \/ Tier(k, Model[ladder[i]], rule) < Tier(k, Model[o], rule)
  <2> DEFINE m == Model[o]
  <2>1. o \in Fitting(k, rule, m) /\ m \in Models /\ m \in Able
    BY <1>11 DEF Fitting, RoutesOf, Qualifies, Models, IsView
  <2>2. m \in rows
    BY <2>1, RungIs DEF rows
  <2>3. place[m] \in 1..size
    BY <1>4, <2>2
  <2>4. CASE place[m] <= length
    <3>1. place[m] \in 1..length
      BY <1>2, <2>3, <2>4
    <3>2. ladder[place[m]] \in Rung(k, rule, m)
      BY <1>4, <1>3, <2>2, <3>1
    <3>3. Model[ladder[place[m]]] = m /\ Basis[ladder[place[m]]] <= Basis[o]
      BY <2>1, <3>2, RungIs
    <3>4. QED BY <3>1, <3>3
  <2>5. CASE length < place[m]
    <3>1. length = rule.limit
      BY <1>4, <2>3, <2>5 DEF length
    <3>2. ASSUME NEW i \in 1..length
          PROVE  \/ Score[Model[ladder[i]]] > Score[m]
                 \/ Tier(k, Model[ladder[i]], rule) < Tier(k, m, rule)
      <4>1. Model[ladder[i]] \in rows /\ place[Model[ladder[i]]] < place[m]
        BY <1>2, <1>8, <2>3, <2>5
      <4>2. QED BY <1>7, <2>2, <4>1
    <3>3. QED BY <3>1, <3>2
  <2>6. QED BY <1>2, <2>3, <2>4, <2>5
<1>12. DOMAIN ladder = 1..length /\ Len(ladder) = length
  BY <1>3
<1> DEFINE rungs == {ladder[i] : i \in DOMAIN ladder}
<1>13. \A o \in rungs : Qualifies(k, rule, o)
  BY <1>8, <1>12
<1>14. \A o \in Offering : Qualifies(k, rule, o) =>
         \/ \E p \in rungs : Model[p] = Model[o] /\ Basis[p] <= Basis[o]
         \/ /\ length = rule.limit
            /\ \A p \in rungs : \/ Score[Model[p]] > Score[Model[o]]
                                \/ Tier(k, Model[p], rule) < Tier(k, Model[o], rule)
  BY <1>11, <1>12
<1>15. BestLadder(k, rule, ladder)
  BY <1>9, <1>10, <1>12, <1>13, <1>14 DEF BestLadder
<1>16. QED BY <1>15 DEF ladder
-----------------------------------------------------------------------------
(* Type correctness. *)

(* A record, and an exclusion has a reason. *)
Reasoned(r) == r \in Record /\ (r.excluded => r.reason # "none")

LEMMA RecordsType ==
  /\ Reasoned(NoRecord)
  /\ \A r : Reasoned(r) => Reasoned(Expired(r))
  /\ \A r : Reasoned(r) => Reasoned([r EXCEPT !.left = Nearer(@), !.attempt = Older(@),
                                             !.success = Older(@)])
  /\ \A o, r : \A what \in Answer : Reasoned(r) => Reasoned(Observed(o, r, what))
<1>1. /\ 0 \in Age /\ Nothing \in Age /\ \A a \in Age : Older(a) \in Age
      /\ ResetAfter \in 0..ResetAfter /\ 0 \in 0..ResetAfter
      /\ \A l \in 0..ResetAfter \cup {Nothing} : Nearer(l) \in 0..ResetAfter \cup {Nothing}
  BY GuidanceAssumption DEF Age, Older, Nearer
<1>2. NoRecord \in Record
  BY <1>1 DEF NoRecord, Record, Reason
<1>3. Reasoned(NoRecord)
  BY <1>2 DEF Reasoned, NoRecord
<1>4. ASSUME NEW r, Reasoned(r) PROVE Reasoned(Expired(r))
  BY <1>4 DEF Reasoned, Expired, Record, Reason
<1>5. ASSUME NEW r, Reasoned(r)
      PROVE  Reasoned([r EXCEPT !.left = Nearer(@), !.attempt = Older(@), !.success = Older(@)])
  BY <1>1, <1>5 DEF Reasoned, Record
<1>6. ASSUME NEW o, NEW r, NEW what \in Answer, Reasoned(r) PROVE Reasoned(Observed(o, r, what))
  <2>1. CASE what = "answered"
    <3>1. Observed(o, r, what) = [NoRecord EXCEPT !.attempt = 0, !.success = 0]
      BY <2>1 DEF Observed
    <3>2. QED BY <1>1, <3>1 DEF Reasoned, NoRecord, Record, Reason
  <2>2. CASE what # "answered"
    <3>1. r.success \in Age /\ (r.excluded \/ ~(o \in Passthrough /\ what # "other")) \in BOOLEAN
      BY <1>6 DEF Reasoned, Record
    <3>2. QED BY <1>1, <2>2, <3>1 DEF Observed, Reasoned, Record, Reason
  <2>3. QED BY <2>1, <2>2
<1>7. QED BY <1>3, <1>4, <1>5, <1>6

LEMMA GTypeInit == GInit => GTypeOK
<1> SUFFICES ASSUME GInit PROVE GTypeOK
  OBVIOUS
<1>1. truth \in [Offering -> Answer] /\ figure \in [Allowances -> 0..FigureFor]
  <2>1. "answered" \in Answer /\ 0 \in 0..FigureFor
    <3>1. FigureFor \in Nat
      BY GuidanceAssumption
    <3>2. QED BY <3>1 DEF Answer
  <2>2. truth = [o \in Offering |-> "answered"] /\ figure = [a \in Allowances |-> 0]
    BY DEF GInit
  <2>3. QED BY <2>1, <2>2
<1>2. health \in [Offering -> Record] /\ \A o \in Offering : ~health[o].excluded
  BY RecordsType DEF GInit, Reasoned, NoRecord
<1>3. QED BY <1>1, <1>2 DEF GInit, GTypeOK

LEMMA GTypeFold ==
  ASSUME GTypeOK, NEW probed, NEW failed, Fold(probed, failed)
  PROVE  GTypeOK'
<1>1. \A o \in Offering : Reasoned(health[o]) /\ truth[o] \in Answer
  BY DEF GTypeOK, Reasoned
<1>2. ASSUME NEW o \in Offering
      PROVE  Reasoned(IF o \notin admitted THEN NoRecord
                      ELSE IF o \in probed \cup failed THEN Observed(o, health[o], truth[o])
                      ELSE Expired(health[o]))
  BY <1>1, RecordsType
<1>3. \A o \in Offering : Reasoned(health'[o])
  BY <1>2 DEF Fold
<1>4. DOMAIN health' = Offering /\ health' = [o \in Offering |-> health'[o]]
  BY DEF Fold
<1>5. health' \in [Offering -> Record] /\ \A o \in Offering : health'[o].excluded =>
                                                              health'[o].reason # "none"
  BY <1>3, <1>4 DEF Reasoned
<1>6. QED BY <1>5 DEF GTypeOK, Fold

LEMMA GTypePass == GTypeOK /\ Pass => GTypeOK'
<1> SUFFICES ASSUME GTypeOK, Pass PROVE GTypeOK'
  OBVIOUS
<1>1. \A o \in Offering : Reasoned(health'[o])
  BY RecordsType DEF GTypeOK, Reasoned, Pass
<1>2. DOMAIN health' = Offering /\ health' = [o \in Offering |-> health'[o]]
  BY DEF Pass
<1>3. health' \in [Offering -> Record] /\ \A o \in Offering : health'[o].excluded =>
                                                              health'[o].reason # "none"
  BY <1>1, <1>2 DEF Reasoned
<1>4. figure' \in [Allowances -> 0..FigureFor]
  <2>1. \A n \in 0..FigureFor : Nearer(n) \in 0..FigureFor
    BY GuidanceAssumption DEF Nearer
  <2>2. figure \in [Allowances -> 0..FigureFor]
    BY DEF GTypeOK
  <2>3. QED BY <2>1, <2>2 DEF Pass
<1>5. QED BY <1>3, <1>4 DEF GTypeOK, Pass

LEMMA GTypeStep == GTypeOK /\ [GNext]_Gvars => GTypeOK'
<1> SUFFICES ASSUME GTypeOK, [GNext]_Gvars PROVE GTypeOK'
  OBVIOUS
<1>1. ASSUME NEW o \in Offering, TruthChanges(o) PROVE GTypeOK'
  <2>1. Truths[o] \subseteq Answer
    BY GuidanceAssumption
  <2>2. truth' \in [Offering -> Answer]
    BY <1>1, <2>1 DEF TruthChanges, GTypeOK
  <2>3. QED BY <1>1, <2>2 DEF TruthChanges, GTypeOK
<1>2. ASSUME NEW o \in Edited, PolicyChanges(o) PROVE GTypeOK'
  BY <1>2, GuidanceAssumption DEF PolicyChanges, GTypeOK
<1>3. ASSUME NEW a \in Allowances, DrawnChanges(a) PROVE GTypeOK'
  BY <1>3 DEF DrawnChanges, GTypeOK
<1>4. ASSUME NEW a \in Allowances, Refresh(a) PROVE GTypeOK'
  <2>1. figure' \in [Allowances -> 0..FigureFor]
    BY <1>4, GuidanceAssumption DEF Refresh, GTypeOK
  <2>2. QED BY <1>4, <2>1 DEF Refresh, GTypeOK
<1>5. CASE Pass
  BY <1>5, GTypePass
<1>6. CASE Sweep \/ Confirm
  <2>1. PICK probed, failed : Fold(probed, failed)
    BY <1>6 DEF Sweep, Confirm
  <2>2. QED BY <2>1, GTypeFold
<1>7. CASE UNCHANGED Gvars
  BY <1>7 DEF Gvars, GTypeOK
<1>8. QED BY <1>1, <1>2, <1>3, <1>4, <1>5, <1>6, <1>7 DEF GNext

(* What guidance sees keeps its type, and an exclusion has a reason. *)
THEOREM GuidanceTypeCorrect == GSpec => []GTypeOK
BY GTypeInit, GTypeStep, PTL DEF GSpec

(* At any time, every Role's ladder is the best there is. *)
THEOREM LadderIsBestHolds == GSpec => []LadderIsBest
<1>1. GTypeOK => IsView(Now)
  BY DEF GTypeOK, IsView, Now, View, Recommendable, Record
<1>2. GTypeOK => LadderIsBest
  <2>1. \A r \in Roles : Rules[r].limit \in Nat \ {0}
    BY GuidanceAssumption
  <2>2. QED BY <1>1, <2>1, LadderBest DEF LadderIsBest
<1>3. QED BY <1>2, GuidanceTypeCorrect, PTL
=============================================================================
