----------------------------- MODULE ConfigWrite ----------------------------
(***************************************************************************)
(* How the Generated Config, the one file the proxy reloads, is replaced.  *)
(* A writer (the scheduled run, or the operator's generate) has a plan,    *)
(* compares it with the file, and refuses, skips, or snapshots the file    *)
(* and renames the new one over it.  The operator's rollback copies the    *)
(* newest snapshot back in place.  No lock is taken: cmd_run and           *)
(* cmd_generate hold none here, and a rollback may fall anywhere between.  *)
(*                                                                         *)
(* A config is abstract: the Aliases it offers, how many entries its Roles *)
(* add, and whether it is structurally sound.                              *)
(***************************************************************************)
EXTENDS Integers, FiniteSets

CONSTANTS
  Writer,    \* processes that plan and write: run, generate
  Plans,     \* the configs a plan may result in
  Size,      \* entries in each plan's model_list
  Sound,     \* the plans validate_config_before_write finds no fault with
  Share,     \* safety.maximum_removal_share, in percent
  Keep,      \* safety.snapshot_count
  MaxClock,  \* bound: distinct clock readings
  None,      \* no file, nothing chosen
  Torn       \* a file cut short in the middle of a copy

ASSUME ConfigAssumption ==
  /\ Size \in [Plans -> Nat]
  /\ Sound \subseteq Plans
  /\ Share \in 1..100
  /\ Keep \in Nat \ {0}
  /\ MaxClock \in Nat
  /\ None \notin Plans /\ Torn \notin Plans /\ None # Torn

VARIABLES
  config,     \* the Generated Config on disk
  snapshots,  \* the snapshot files: when named, and what they hold
  clock,      \* the clock
  pc,         \* where each writer is
  now,        \* the writer's reading of the clock, which names its snapshot
  plan,       \* what the writer is about to write
  force,      \* whether the operator passed --force
  restoring,  \* the content a rollback is copying, or None
  \* History variables: read by no action, only by properties.
  passed,     \* the plans some writer's rail let through, and how
  alone,      \* the writers nothing has overlapped since they started
  replaced    \* the config the last write took the place of, if it was alone

local   == <<pc, now, plan, force>>
history == <<passed, alone, replaced>>
vars    == <<config, snapshots, clock, local, restoring, history>>

Content == Plans \cup {Torn}

-----------------------------------------------------------------------------
(* read_previous_config: a file that is not there or does not parse is no  *)
(* previous config, and then there is no count to compare with.            *)
PreviousSize == IF config \in Plans THEN Size[config] ELSE 0

ZeroOffered(p) == Size[p] = 0

(* refusal_for_removal_share compares counts, not names. *)
RemovalTooLarge(p) ==
  100 * (PreviousSize - Size[p]) > Share * PreviousSize

(* Faulty: --force overrides the structural validation too. *)
RailForcible(w) ==
  \/ force[w]
  \/ plan[w] \in Sound /\ ~ZeroOffered(plan[w]) /\ ~RemovalTooLarge(plan[w])

(* The safety rail: a structural fault is never forced past, the           *)
(* thresholds are.                                                         *)
RailAllows(w) ==
  /\ plan[w] \in Sound
  /\ force[w] \/ (~ZeroOffered(plan[w]) /\ ~RemovalTooLarge(plan[w]))

(* list_snapshots sorts by name; rollback takes the last one. *)
IsLatest(s) == s \in snapshots /\ \A t \in snapshots : t.at <= s.at

(* Faulty: the newest snapshot is pruned first. *)
PrunedNewest(files) ==
  {s \in files : Cardinality({t \in files : t.at < s.at}) < Keep}

(* prune_snapshots keeps the newest ones. *)
Pruned(files) ==
  {s \in files : Cardinality({t \in files : t.at > s.at}) < Keep}

-----------------------------------------------------------------------------
Init ==
  /\ config = None
  /\ snapshots = {}
  /\ clock = 0
  /\ pc = [w \in Writer |-> "idle"]
  /\ now = [w \in Writer |-> 0]
  /\ plan = [w \in Writer |-> None]
  /\ force = [w \in Writer |-> FALSE]
  /\ restoring = None
  /\ passed = {}
  /\ replaced = None
  /\ alone = {}

Idle == \A w \in Writer : pc[w] = "idle"

Done(w) ==
  /\ pc' = [pc EXCEPT ![w] = "idle"]
  /\ plan' = [plan EXCEPT ![w] = None]
  /\ force' = [force EXCEPT ![w] = FALSE]
  /\ now' = [now EXCEPT ![w] = 0]

(* The command starts: it reads the clock, and what it loads leads to one  *)
(* plan or another, or to none (plan refused an Alias collision).          *)
Plan(w) ==
  /\ pc[w] = "idle"
  /\ clock < MaxClock
  /\ clock' = clock + 1
  /\ now' = [now EXCEPT ![w] = clock']
  /\ \E p \in Plans \cup {None}, f \in BOOLEAN :
       /\ plan' = [plan EXCEPT ![w] = p]
       /\ force' = [force EXCEPT ![w] = f]
  /\ pc' = [pc EXCEPT ![w] = "planned"]
  /\ alone' = IF Idle /\ restoring = None THEN {w} ELSE {}
  /\ UNCHANGED <<config, snapshots, restoring, passed, replaced>>

(* The file is read and the rail lets the plan through. *)
Allow(w) ==
  /\ pc[w] = "planned"
  /\ RailAllows(w)
  /\ pc' = [pc EXCEPT ![w] = "allowed"]
  /\ passed' = passed \cup {[plan |-> plan[w], forced |-> force[w]]}
  /\ UNCHANGED <<config, snapshots, clock, now, plan, force, restoring, alone, replaced>>

(* The rail refuses: nothing is written, not even a snapshot. *)
Refuse(w) ==
  /\ pc[w] = "planned"
  /\ ~RailAllows(w)
  /\ Done(w)
  /\ UNCHANGED <<config, snapshots, clock, restoring, history>>

(* The file already holds these bytes: no snapshot, no write, no reload. *)
SkipUnchanged(w) ==
  /\ pc[w] = "allowed"
  /\ config = plan[w]
  /\ Done(w)
  /\ UNCHANGED <<config, snapshots, clock, restoring, history>>

(* snapshot_config: copy what is there and prune. *)
Snapshot(w) ==
  /\ pc[w] = "allowed"
  /\ config # plan[w]
  /\ snapshots' = IF config = None THEN snapshots
                  ELSE Pruned(snapshots \cup {[at |-> now[w], holds |-> config]})
  /\ pc' = [pc EXCEPT ![w] = "saved"]
  /\ UNCHANGED <<config, clock, now, plan, force, restoring, history>>

(* The command dies in the middle of that copy, before the pruning.       *)
SnapshotTorn(w) ==
  /\ pc[w] = "allowed"
  /\ config \notin {plan[w], None}
  /\ snapshots' = snapshots \cup {[at |-> now[w], holds |-> Torn]}
  /\ replaced' = None
  /\ Done(w)
  /\ UNCHANGED <<config, clock, restoring, passed, alone>>

(* write_config: a temporary file renamed over the Generated Config. *)
Write(w) ==
  /\ pc[w] = "saved"
  /\ config' = plan[w]
  /\ replaced' = IF w \in alone THEN config ELSE None
  /\ Done(w)
  /\ UNCHANGED <<snapshots, clock, restoring, passed, alone>>

(* The command dies, or a step of it raises. *)
Die(w) ==
  /\ pc[w] # "idle"
  /\ Done(w)
  /\ replaced' = IF pc[w] = "saved" THEN None ELSE replaced
  /\ UNCHANGED <<config, snapshots, clock, restoring, passed, alone>>

(* rollback_latest_snapshot opens the Generated Config for a copy, which   *)
(* empties it.                                                             *)
RollbackOpens ==
  /\ restoring = None
  /\ \E s \in snapshots : IsLatest(s) /\ restoring' = s.holds
  /\ config' = Torn
  /\ alone' = {}
  /\ UNCHANGED <<snapshots, clock, local, passed, replaced>>

(* The copy completes, on the file it opened: if a writer has renamed      *)
(* another one into its place, that one stays.                             *)
RollbackCopies ==
  /\ restoring # None
  /\ config' = IF config = Torn THEN restoring ELSE config
  /\ restoring' = None
  /\ UNCHANGED <<snapshots, clock, local, history>>

(* The rollback dies half-way through its copy. *)
RollbackDies ==
  /\ restoring # None
  /\ restoring' = None
  /\ UNCHANGED <<config, snapshots, clock, local, history>>

Next ==
  \/ \E w \in Writer :
       \/ Plan(w) \/ Allow(w) \/ Refuse(w) \/ SkipUnchanged(w)
       \/ Snapshot(w) \/ SnapshotTorn(w) \/ Write(w) \/ Die(w)
  \/ RollbackOpens \/ RollbackCopies \/ RollbackDies

Spec == Init /\ [][Next]_vars

-----------------------------------------------------------------------------
(* Type invariant. *)
TypeOK ==
  /\ config \in Content \cup {None}
  /\ snapshots \subseteq [at : 1..MaxClock, holds : Content]
  /\ clock \in 0..MaxClock
  /\ pc \in [Writer -> {"idle", "planned", "allowed", "saved"}]
  /\ now \in [Writer -> 0..MaxClock]
  /\ plan \in [Writer -> Plans \cup {None}]
  /\ force \in [Writer -> BOOLEAN]
  /\ restoring \in Content \cup {None}
  /\ passed \subseteq [plan : Plans, forced : BOOLEAN]
  /\ alone \subseteq Writer
  /\ replaced \in Content \cup {None}

(* A content the rail has let through: sound, and empty only if forced.    *)
Vetted(c) ==
  \E e \in passed : /\ e.plan = c
                    /\ c \in Sound
                    /\ e.forced \/ ~ZeroOffered(c)

(* Whatever the interleaving of writers, deaths and rollbacks, a whole     *)
(* Generated Config on disk went through a writer's rail: it is            *)
(* structurally sound, and it offers nothing only if the operator forced   *)
(* that.  The same holds for what a rollback can bring back.               *)
OnlyVetted ==
  /\ config \in Plans => Vetted(config)
  /\ \A s \in snapshots : s.holds \in Plans => Vetted(s.holds)

(* Rollback undoes the last write: when no command is under way, the       *)
(* newest snapshot holds the config that the last write replaced, if       *)
(* nothing overlapped that write and no later command died between its     *)
(* snapshot and its own write.                                             *)
UndoesLastWrite ==
  Idle /\ restoring = None /\ replaced # None
    => \E s \in snapshots : IsLatest(s) /\ s.holds = replaced

(* A step in which w renames its plan into place. *)
Renames(w) == pc[w] = "saved" /\ pc'[w] = "idle" /\ config' = plan[w]

(* The proxy is never restarted for the bytes it already serves: a writer  *)
(* that nothing overlapped renames a file that differs from the one on     *)
(* disk.                                                                   *)
ReloadsForNews ==
  [][\A w \in alone : Renames(w) => config # plan[w]]_vars

(* A writer that nothing overlapped and that was not forced leaves, of a   *)
(* whole config, at least the share of entries that Policy states.         *)
ShareRespected ==
  [][\A w \in alone : Renames(w) /\ config \in Plans /\ ~force[w] =>
       100 * (Size[config] - Size[plan[w]]) <= Share * Size[config]]_vars

(* "Snapshot file names sort lexicographically in write order": each       *)
(* snapshot is newer by name than the ones already there.                  *)
NamesInWriteOrder ==
  [][\A s \in snapshots' \ snapshots : \A t \in snapshots : t.at < s.at]_vars
=============================================================================
