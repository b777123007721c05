------------------------------ MODULE Schedule ------------------------------
(***************************************************************************)
(* schedule.due: whether a scheduled tick runs, and as what kind of run.   *)
(* A pure function of ages (now minus a recorded time), of the proxy's     *)
(* state and of whether the Observation Journal holds an entry.            *)
(***************************************************************************)
EXTENDS Integers

CONSTANTS
  Enabled,           \* schedule.enabled
  RequireProxy,      \* schedule.require_proxy
  Interval,          \* schedule.interval_minutes
  MaximumStaleness,  \* schedule.maximum_staleness_hours
  JournalFloor,      \* JOURNAL_FLOOR
  Never              \* the age of something that has not happened yet

ASSUME ScheduleAssumption ==
  /\ Enabled \in BOOLEAN
  /\ RequireProxy \in BOOLEAN
  /\ Interval \in Nat \ {0}
  /\ MaximumStaleness \in Nat \ {0}
  /\ JournalFloor \in Nat
  /\ Never \notin Nat

CatchUpMultiplier == 2

(* What due answers.  "forced" is a run despite a down proxy. *)
SweepKind == {"forced", "catch_up", "ordinary"}
RunKind == SweepKind \cup {"journal"}
SkipKind == {"disabled", "waiting", "blocked"}
Answer == RunKind \cup SkipKind

Elapsed(age, limit) == age = Never \/ age >= limit

(* Rules 1 and 2: whether the clock, or a Journal entry, lets a tick run. *)
MayStart(sinceRun, pending) ==
  \/ Elapsed(sinceRun, Interval)
  \/ pending /\ Elapsed(sinceRun, JournalFloor)

LongAbsence(sinceRun) ==
  RequireProxy /\ sinceRun # Never /\ sinceRun >= CatchUpMultiplier * Interval

Due(sinceRun, sinceSuccess, proxyUp, pending) ==
  IF ~Enabled THEN "disabled"
  ELSE IF ~MayStart(sinceRun, pending) THEN "waiting"
  ELSE IF RequireProxy /\ ~proxyUp
       THEN IF Elapsed(sinceSuccess, MaximumStaleness) THEN "forced" ELSE "blocked"
  ELSE IF LongAbsence(sinceRun) THEN "catch_up"
  ELSE IF ~Elapsed(sinceRun, Interval) THEN "journal"
  ELSE "ordinary"
=============================================================================
