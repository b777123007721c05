----------------------------- MODULE HealthFold -----------------------------
(***************************************************************************)
(* How an Observation becomes Health State.  The proxy appends to the      *)
(* Observation Journal without a lock; maintainer processes (the tick's    *)
(* cmd_run and the operator's cmd_probe) and the watcher's confirming      *)
(* Probe measure first and then fold under the maintainer's lock:          *)
(* cli._fold_into_health_state reads Health State again, reads the         *)
(* Journal, reduces, writes Health State, and only then rotates the        *)
(* Journal.  A process may die between any two of these steps.             *)
(*                                                                         *)
(* What reduce computes for one record is module OfferingHealth.  Here a   *)
(* record is only how often each event has been applied to it: that is     *)
(* enough to tell a lost, a repeated and a discarded event apart.          *)
(***************************************************************************)
EXTENDS Integers, Sequences, SequencesExt

CONSTANTS
  Maintainer,    \* processes that sweep and fold the Journal: run, probe
  Confirmer,     \* watcher threads: fold one confirming Probe, no Journal
  Entry,         \* Observations the proxy may append, each at most once
  Probe,         \* Probe outcomes the processes may measure, each once
  Key,           \* Health State keys
  KeyOf,         \* the key an Observation or a Probe outcome is about
  AdmittedSets,  \* the admitted sets Policy and Feed can give a Maintainer
  MaxCrash,      \* bound: process deaths
  NoProcess      \* the lock's holder when it is free

Process == Maintainer \cup Confirmer
Event == Entry \cup Probe

ASSUME ConstantsAssumption ==
  /\ Maintainer \cap Confirmer = {}
  /\ Entry \cap Probe = {}
  /\ KeyOf \in [Event -> Key]
  /\ AdmittedSets \subseteq SUBSET Key
  /\ MaxCrash \in Nat
  /\ NoProcess \notin Process

VARIABLES
  journal,   \* the Journal file: the entries in the order they were appended
  health,    \* the Health State file: times each event is in its key's record
  lock,      \* the process holding the maintainer's lock
  pc,        \* where each process is
  outcomes,  \* process-local: what its Probes answered
  admitted,  \* process-local: the keys whose records its fold keeps
  prior,     \* process-local: Health State as read inside the lock
  batch,     \* process-local: the entries read inside the lock
  survivors, \* process-local: the entries the rotation is about to keep
  measured,  \* Probe outcomes already used
  crashes,   \* deaths so far
  \* History variables: they are read by no action, only by properties.
  appended,  \* entries the proxy has written
  folds,     \* how many written Health States consumed each entry
  redo,      \* how many deaths left each entry folded and not rotated
  exposed    \* entries appended between a rotation's read and its rename

files   == <<journal, health>>
locals  == <<outcomes, admitted, prior, batch, survivors>>
history == <<appended, folds, redo, exposed>>
vars    == <<files, lock, pc, locals, measured, crashes, history>>

Stage == {"idle", "measured", "locked", "read", "written", "rotating"}
Inside == {"locked", "read", "written", "rotating"}
Folded == {"written", "rotating"}

NoEvents == [e \in Event |-> 0]

-----------------------------------------------------------------------------
(* reduce: every event of this run is applied to its key's record, and a   *)
(* record whose key is not admitted is discarded.                          *)
Times(e, measurements, observations) ==
  IF e \in measurements \/ e \in ToSet(observations) THEN 1 ELSE 0

(* Faulty: only the keys with an event this run keep their record. *)
ReduceEventsOnly(state, measurements, observations, keep) ==
  [e \in Event |->
     IF KeyOf[e] \in keep \cap {KeyOf[x] : x \in measurements \cup ToSet(observations)}
     THEN state[e] + Times(e, measurements, observations) ELSE 0]

Reduce(state, measurements, observations, keep) ==
  [e \in Event |-> IF KeyOf[e] \in keep
                   THEN state[e] + Times(e, measurements, observations)
                   ELSE 0]

(* Faulty: an Observation's own name is taken for its Health State key. *)
RecordedUnresolved(state) == {e \in Event : state[e] > 0}

(* The keys Health State has a record for. *)
Recorded(state) == {KeyOf[e] : e \in {x \in Event : state[x] > 0}}

-----------------------------------------------------------------------------
Init ==
  /\ journal = <<>>
  /\ health = NoEvents
  /\ lock = NoProcess
  /\ pc = [p \in Process |-> "idle"]
  /\ outcomes = [p \in Process |-> {}]
  /\ admitted = [p \in Process |-> {}]
  /\ prior = [p \in Process |-> NoEvents]
  /\ batch = [p \in Process |-> <<>>]
  /\ survivors = [p \in Process |-> <<>>]
  /\ measured = {}
  /\ crashes = 0
  /\ appended = {}
  /\ folds = [e \in Entry |-> 0]
  /\ redo = [e \in Entry |-> 0]
  /\ exposed = {}

(* The proxy's failure callback appends one line, taking no lock. *)
AppendObservation(e) ==
  /\ e \notin appended
  /\ journal' = Append(journal, e)
  /\ appended' = appended \cup {e}
  /\ exposed' = IF \E p \in Process : pc[p] = "rotating"
                THEN exposed \cup {e} ELSE exposed
  /\ UNCHANGED <<health, lock, pc, locals, measured, crashes, folds, redo>>

(* A run or an operator's probe: the worklist's targets are probed with no *)
(* lock held; the admitted keys come from the Policy and Feed it loaded.   *)
Sweep(p) ==
  /\ p \in Maintainer
  /\ pc[p] = "idle"
  /\ \E answers \in SUBSET (Probe \ measured), keep \in AdmittedSets :
       /\ outcomes' = [outcomes EXCEPT ![p] = answers]
       /\ admitted' = [admitted EXCEPT ![p] = keep]
       /\ measured' = measured \cup answers
  /\ pc' = [pc EXCEPT ![p] = "measured"]
  /\ UNCHANGED <<files, lock, prior, batch, survivors, crashes, history>>

(* The watcher's confirming Probe of one key.  Its admitted keys are those *)
(* of a Health State read before the Probe, with no lock held.             *)
Confirm(p) ==
  /\ p \in Confirmer
  /\ pc[p] = "idle"
  /\ \E answer \in Probe \ measured :
       /\ outcomes' = [outcomes EXCEPT ![p] = {answer}]
       /\ admitted' = [admitted EXCEPT ![p] = Recorded(health) \cup {KeyOf[answer]}]
       /\ measured' = measured \cup {answer}
  /\ pc' = [pc EXCEPT ![p] = "measured"]
  /\ UNCHANGED <<files, lock, prior, batch, survivors, crashes, history>>

(* Faulty: the fold starts whether or not the lock is free. *)
AcquireAnyway(p) ==
  /\ pc[p] = "measured"
  /\ lock' = p
  /\ pc' = [pc EXCEPT ![p] = "locked"]
  /\ UNCHANGED <<files, locals, measured, crashes, history>>

(* maintainer_lock: flock succeeds only when no live process holds it. *)
Acquire(p) ==
  /\ pc[p] = "measured"
  /\ lock = NoProcess
  /\ lock' = p
  /\ pc' = [pc EXCEPT ![p] = "locked"]
  /\ UNCHANGED <<files, locals, measured, crashes, history>>

(* What a process forgets when its fold ends, one way or another. *)
Forget(p) ==
  /\ outcomes' = [outcomes EXCEPT ![p] = {}]
  /\ admitted' = [admitted EXCEPT ![p] = {}]
  /\ prior' = [prior EXCEPT ![p] = NoEvents]
  /\ batch' = [batch EXCEPT ![p] = <<>>]
  /\ survivors' = [survivors EXCEPT ![p] = <<>>]
  /\ pc' = [pc EXCEPT ![p] = "idle"]

(* LockBusy: the wait ran out while another process held the lock.  Every  *)
(* caller drops what it measured.                                          *)
GiveUp(p) ==
  /\ pc[p] = "measured"
  /\ lock # NoProcess
  /\ Forget(p)
  /\ UNCHANGED <<files, lock, measured, crashes, history>>

(* Faulty: the Journal is never read. *)
ReadStateOnly(p) ==
  /\ pc[p] = "locked"
  /\ prior' = [prior EXCEPT ![p] = health]
  /\ pc' = [pc EXCEPT ![p] = "read"]
  /\ UNCHANGED <<files, lock, outcomes, admitted, batch, survivors, measured, crashes, history>>

(* Inside the lock: read Health State again, and the Journal when the      *)
(* caller passed a key map, which the confirming Probe does not.           *)
ReadState(p) ==
  /\ pc[p] = "locked"
  /\ prior' = [prior EXCEPT ![p] = health]
  /\ batch' = [batch EXCEPT ![p] = IF p \in Maintainer THEN journal ELSE <<>>]
  /\ pc' = [pc EXCEPT ![p] = "read"]
  /\ UNCHANGED <<files, lock, outcomes, admitted, survivors, measured, crashes, history>>

(* reduce, then write_health: a temporary file renamed over the old one. *)
WriteHealth(p) ==
  /\ pc[p] = "read"
  /\ health' = Reduce(prior[p], outcomes[p], batch[p], admitted[p])
  /\ folds' = [e \in Entry |-> folds[e] + Times(e, {}, batch[p])]
  /\ pc' = [pc EXCEPT ![p] = "written"]
  /\ UNCHANGED <<journal, lock, locals, measured, crashes, appended, redo, exposed>>

(* Faulty: one entry too many is dropped. *)
ReadSurvivorsShort(p) ==
  /\ pc[p] = "written"
  /\ batch[p] # <<>>
  /\ survivors' = [survivors EXCEPT ![p] =
                     SubSeq(journal, Len(batch[p]) + 2, Len(journal))]
  /\ pc' = [pc EXCEPT ![p] = "rotating"]
  /\ UNCHANGED <<files, lock, outcomes, admitted, prior, batch, measured, crashes, history>>

(* Faulty: the last consumed entry is kept. *)
ReadSurvivorsLong(p) ==
  /\ pc[p] = "written"
  /\ batch[p] # <<>>
  /\ survivors' = [survivors EXCEPT ![p] =
                     SubSeq(journal, Len(batch[p]), Len(journal))]
  /\ pc' = [pc EXCEPT ![p] = "rotating"]
  /\ UNCHANGED <<files, lock, outcomes, admitted, prior, batch, measured, crashes, history>>

(* truncate_first: read the Journal again and keep what follows the first  *)
(* Len(batch) entries.                                                     *)
ReadSurvivors(p) ==
  /\ pc[p] = "written"
  /\ batch[p] # <<>>
  /\ survivors' = [survivors EXCEPT ![p] =
                     SubSeq(journal, Len(batch[p]) + 1, Len(journal))]
  /\ pc' = [pc EXCEPT ![p] = "rotating"]
  /\ UNCHANGED <<files, lock, outcomes, admitted, prior, batch, measured, crashes, history>>

(* _rewrite: rename the survivors over the Journal, and leave the lock. *)
ReplaceJournal(p) ==
  /\ pc[p] = "rotating"
  /\ journal' = survivors[p]
  /\ lock' = NoProcess
  /\ Forget(p)
  /\ UNCHANGED <<health, measured, crashes, history>>

(* Nothing was read from the Journal: leave the lock without rotating. *)
LeaveUnrotated(p) ==
  /\ pc[p] = "written"
  /\ batch[p] = <<>>
  /\ lock' = NoProcess
  /\ Forget(p)
  /\ UNCHANGED <<files, measured, crashes, history>>

(* The process dies, or an exception ends the fold.  The kernel drops its  *)
(* lock; the files stay as the last completed rename left them.            *)
Crash(p) ==
  /\ pc[p] # "idle"
  /\ crashes < MaxCrash
  /\ crashes' = crashes + 1
  /\ lock' = IF lock = p THEN NoProcess ELSE lock
  /\ redo' = [e \in Entry |-> IF pc[p] \in Folded
                              THEN redo[e] + Times(e, {}, batch[p]) ELSE redo[e]]
  /\ Forget(p)
  /\ UNCHANGED <<files, measured, appended, folds, exposed>>

Fold(p) ==
  \/ ReadState(p)
  \/ WriteHealth(p)
  \/ ReadSurvivors(p)
  \/ ReplaceJournal(p)
  \/ LeaveUnrotated(p)

Next ==
  \/ \E e \in Entry : AppendObservation(e)
  \/ \E p \in Process :
       \/ Sweep(p)
       \/ Confirm(p)
       \/ Acquire(p)
       \/ GiveUp(p)
       \/ Fold(p)
       \/ Crash(p)

Spec == Init /\ [][Next]_vars

(* The scheduler starts a tick again and again, a started process is not   *)
(* suspended for ever, and a poll of flock every 50 ms finds the lock free *)
(* when it keeps becoming free.                                            *)
Fairness ==
  \A p \in Process :
    /\ WF_vars(Sweep(p))
    /\ WF_vars(Fold(p))
    /\ SF_vars(Acquire(p))

FairSpec == Spec /\ Fairness

-----------------------------------------------------------------------------
(* Type invariant. *)
TypeOK ==
  /\ journal \in Seq(Entry)
  /\ health \in [Event -> Nat]
  /\ lock \in Process \cup {NoProcess}
  /\ pc \in [Process -> Stage]
  /\ outcomes \in [Process -> SUBSET Probe]
  /\ admitted \in [Process -> SUBSET Key]
  /\ prior \in [Process -> [Event -> Nat]]
  /\ batch \in [Process -> Seq(Entry)]
  /\ survivors \in [Process -> Seq(Entry)]
  /\ measured \subseteq Probe
  /\ crashes \in 0..MaxCrash
  /\ appended \subseteq Entry
  /\ folds \in [Entry -> Nat]
  /\ redo \in [Entry -> Nat]
  /\ exposed \subseteq Entry

(* Two processes are never both between taking the lock and leaving it.    *)
MutualExclusion ==
  \A p, q \in Process : pc[p] \in Inside /\ pc[q] \in Inside => p = q

(* An entry the proxy wrote is still in the Journal, or some written       *)
(* Health State consumed it; the only entries that may vanish unread were  *)
(* appended between a rotation's second read and its rename, the window    *)
(* ADR 0001 accepts.  No death of a process widens that window.            *)
NothingLostUnread ==
  \A e \in appended :
    e \in ToSet(journal) \/ folds[e] > 0 \/ e \in exposed

(* An entry is consumed once, plus once for each death that hit between    *)
(* write_health and the rotation of that entry: a repeat of a fold is      *)
(* never the doing of two live processes.                                  *)
FoldedOnce ==
  \A e \in Entry : folds[e] <= redo[e] + 1

(* While a fold is between its read and its rotation, the entries it read  *)
(* are still the first ones of the Journal: what truncate_first's removal  *)
(* by position relies on.                                                  *)
BatchStillFirst ==
  \A p \in Process : pc[p] \in {"read", "written", "rotating"} =>
    IsPrefix(batch[p], journal)

(* The copy of Health State that a fold reduces from is the file's current *)
(* content at the moment it writes: no other fold's update is overwritten. *)
PriorIsCurrent ==
  \A p \in Process : pc[p] = "read" => prior[p] = health

(* A step takes an event out of Health State only as the write of a fold   *)
(* that does not admit the event's key.                                    *)
OnlyPrunes ==
  \A e \in Event : health'[e] < health[e] =>
    \E p \in Process : /\ pc[p] = "read"
                      /\ pc'[p] = "written"
                      /\ KeyOf[e] \notin admitted[p]

(* No fold overwrites the update of another: what was folded stays folded  *)
(* until a fold that no longer admits its key discards the record.         *)
RecordsOnlyPruned == [][OnlyPrunes]_vars

(* A confirming Probe adds one measurement and takes nothing away.  The    *)
(* lock exists so that no concurrent update is silently lost (ADR 0002).   *)
ConfirmKeepsRecords ==
  [][\A p \in Confirmer : pc[p] = "read" /\ pc'[p] = "written" =>
       \A e \in Event : health'[e] >= health[e]]_vars

(* Every entry the proxy writes is folded into Health State in the end,    *)
(* unless it fell into the rotation window.                                *)
EventuallyFolded ==
  \A e \in Entry : (e \in appended) ~> (folds[e] > 0 \/ e \in exposed)

(* The detailed fold implements the Journal's promise. *)
Delivery == INSTANCE JournalDelivery
              WITH pending <- journal, delivered <- folds, written <- appended

(* Every behaviour of the processes is, seen from the Journal, at-least-   *)
(* once delivery oldest first.                                             *)
ImplementsDelivery == Delivery!Spec
=============================================================================
