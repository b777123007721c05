----------------------------- MODULE TickProofs -----------------------------
(***************************************************************************)
(* Proofs about the due gate and about the runs it lets start, for every   *)
(* interval, floor, staleness and bound.                                   *)
(***************************************************************************)
EXTENDS Tick, TLAPS

-----------------------------------------------------------------------------
(* cmd_run asks due first as if the proxy were up, and skips the call to   *)
(* the proxy when even that answer is no: a down proxy never turns a       *)
(* refusal into a run.                                                     *)
THEOREM PreCheckSound ==
  ASSUME NEW run, NEW success, NEW pending,
         Due(run, success, TRUE, pending) \notin RunKind
  PROVE  Due(run, success, FALSE, pending) \notin RunKind
BY DEF Due, RunKind, SweepKind

LEMMA DueAnswers ==
  ASSUME NEW run, NEW success, NEW up, NEW pending
  PROVE  Due(run, success, up, pending) \in Answer
BY DEF Due, Answer, RunKind, SweepKind, SkipKind

(* What a run's kind says of the last counted line. *)
LEMMA RunElapsed ==
  ASSUME NEW run \in Age, NEW success, NEW up, NEW pending,
         Due(run, success, up, pending) \in RunKind
  PROVE  \/ Elapsed(run, Interval)
         \/ /\ Due(run, success, up, pending) \in {"journal", "forced"}
            /\ Elapsed(run, JournalFloor)
BY ScheduleAssumption, TickAssumption
   DEF Due, RunKind, SweepKind, MayStart, LongAbsence, Elapsed, Age, CatchUpMultiplier

(* Only a pending entry brings a journal-triggered run. *)
LEMMA JournalNeedsEntry ==
  ASSUME NEW run, NEW success, NEW up, NEW pending,
         Due(run, success, up, pending) = "journal"
  PROVE  pending
BY DEF Due, MayStart

LEMMA OlderAge ==
  ASSUME NEW age \in Age
  PROVE  /\ Older(age) \in Age
         /\ age \in 0..MaxAge => Older(age) \in 0..MaxAge
BY ScheduleAssumption, TickAssumption DEF Older, Age

LEMMA FresherAge ==
  ASSUME NEW a \in Age, NEW b \in Age
  PROVE  Fresher(a, b) \in Age
BY DEF Fresher

(* A tick that has ended holds nothing. *)
LEMMA ExitType ==
  /\ Nothing \in Reading
  /\ Exit => /\ pc' \in Stage
             /\ started' \in 0..MaxAge
             /\ seen' \in Reading
             /\ kind' \in RunKind \cup {"none"}
<1>1. Nothing \in Reading
  BY DEF Nothing, Reading, Age
<1> QED
  BY <1>1, TickAssumption DEF Exit, Stage

LEMMA LineType ==
  ASSUME NEW marker, NEW age \in 0..MaxAge, sinceRun \in Age,
         AppendLine(marker, age)
  PROVE  sinceRun' \in Age
BY DEF AppendLine, Age

-----------------------------------------------------------------------------
LEMMA TypeInit == Init => TypeOK
<1>1. Nothing \in Reading
  BY ExitType
<1>2. Never \in Age /\ 0 \in 0..MaxAge /\ 0 \in 0..MaxEntries /\ "idle" \in Stage
  BY TickAssumption DEF Age, Stage
<1>3. Init => /\ sinceRun \in Age /\ sinceSuccess \in Age /\ sinceProbing \in Age
              /\ journal \in 0..MaxEntries /\ started \in 0..MaxAge /\ chain \in Nat
              /\ seen \in Reading
  BY <1>1, <1>2 DEF Init
<1>4. Init => /\ proxyUp \in BOOLEAN /\ excused \in BOOLEAN
              /\ pc \in Stage /\ kind \in RunKind \cup {"none"}
  BY <1>2 DEF Init
<1> QED
  BY <1>3, <1>4 DEF TypeOK

LEMMA TypeNext == TypeOK /\ [Next]_vars => TypeOK'
<1> SUFFICES ASSUME TypeOK, [Next]_vars PROVE TypeOK'
  OBVIOUS
<1> USE DEF TypeOK
<1>1. CASE Pass
  BY <1>1, OlderAge, TickAssumption DEF Pass, Age
<1>2. CASE ProxyFlips
  BY <1>2 DEF ProxyFlips, files, locals, history
<1>3. CASE TrafficFails
  BY <1>3, TickAssumption DEF TrafficFails, locals
<1>4. CASE OperatorProbe
  BY <1>4, TickAssumption DEF OperatorProbe, locals, history, Age
<1>5. CASE PreCheck
  <2> DEFINE read == [run |-> sinceRun, success |-> sinceSuccess, pending |-> journal > 0]
  <2>1. read \in Reading
    BY DEF Reading
  <2>2. CASE AppendLine("skip:", 0) /\ UNCHANGED <<pc, locals>>
    <3>1. sinceRun' \in Age
      BY <2>2, LineType, TickAssumption
    <3> QED
      BY <1>5, <2>2, <3>1 DEF PreCheck, locals, history
  <2>3. CASE pc' = "checking" /\ seen' = read /\ UNCHANGED <<sinceRun, started, kind>>
    BY <1>5, <2>1, <2>3 DEF PreCheck, history, Stage
  <2> QED
    BY <1>5, <2>2, <2>3 DEF PreCheck
<1>6. CASE Gate
  <2> DEFINE answer == Due(seen.run, seen.success, proxyUp, seen.pending)
  <2>1. CASE answer \in RunKind
    BY <1>6, <2>1 DEF Gate, Stage
  <2>2. CASE answer \notin RunKind
    <3>1. AppendLine("skip:", started) /\ Exit /\ UNCHANGED chain
      BY <1>6, <2>2 DEF Gate
    <3>2. sinceRun' \in Age
      BY <3>1, LineType
    <3> QED
      BY <1>6, <3>1, <3>2, ExitType DEF Gate
  <2> QED
    BY <2>1, <2>2
<1>7. CASE FeedUnreadable \/ FeedImplausible
  <2>1. sinceRun' \in Age
    BY <1>7, LineType DEF FeedUnreadable, FeedImplausible, files
  <2>2. Exit /\ chain' = 0 /\ UNCHANGED <<sinceSuccess, journal, proxyUp, sinceProbing, excused>>
    BY <1>7 DEF FeedUnreadable, FeedImplausible, files
  <2>3. /\ pc' \in Stage /\ started' \in 0..MaxAge
        /\ seen' \in Reading /\ kind' \in RunKind \cup {"none"}
    BY <2>2, ExitType
  <2> QED
    BY <2>1, <2>2, <2>3
<1>8. CASE ProbeTargets
  BY <1>8, TickAssumption DEF ProbeTargets, files, locals, Age, Stage
<1>9. CASE LockBusy \/ WriteRefused \/ Finish
  <2>1. sinceRun' \in Age
    BY <1>9, LineType DEF LockBusy, WriteRefused, Finish
  <2>2. /\ Exit
        /\ excused' \in BOOLEAN
        /\ chain' \in Nat
        /\ UNCHANGED <<sinceSuccess, journal, proxyUp, sinceProbing>>
    <3>1. Exit /\ excused' = FALSE
      BY <1>9 DEF LockBusy, WriteRefused, Finish, OnRecord
    <3>2. chain' = 0 \/ chain' = chain
      BY <1>9 DEF LockBusy, WriteRefused, Finish
    <3>3. UNCHANGED <<sinceSuccess, journal, proxyUp, sinceProbing>>
      BY <1>9 DEF LockBusy, WriteRefused, Finish
    <3>4. chain' \in Nat
      BY <3>2
    <3> QED
      BY <3>1, <3>3, <3>4
  <2>3. /\ pc' \in Stage /\ started' \in 0..MaxAge
        /\ seen' \in Reading /\ kind' \in RunKind \cup {"none"}
    BY <2>2, ExitType
  <2> QED
    BY <2>1, <2>2, <2>3
<1>10. CASE Fold
  <2> started \in Age /\ Never \in Age
    BY DEF Age
  <2>1. sinceSuccess' \in Age
    BY <1>10, FresherAge DEF Fold
  <2> QED
    BY <1>10, <2>1, TickAssumption DEF Fold, locals, history, Stage
<1>11. CASE RoleRefusal \/ Die
  <2>1. /\ Exit /\ excused' \in BOOLEAN /\ chain' \in Nat
        /\ UNCHANGED <<files, proxyUp, sinceProbing>>
    <3>1. excused' \in BOOLEAN
      BY <1>11 DEF RoleRefusal, Die
    <3>2. chain' = 0
      BY <1>11 DEF RoleRefusal, Die
    <3> QED
      BY <1>11, <3>1, <3>2 DEF RoleRefusal, Die
  <2> QED
    BY <2>1, ExitType DEF files
<1>12. CASE WriteConfig
  BY <1>12 DEF WriteConfig, files, locals, history, Stage
<1>13. CASE Smoke
  BY <1>13, TickAssumption DEF Smoke, locals, Stage
<1>14. CASE UNCHANGED vars
  BY <1>14 DEF vars, files, locals, history
<1> QED
  BY <1>1, <1>2, <1>3, <1>4, <1>5, <1>6, <1>7, <1>8, <1>9, <1>10, <1>11, <1>12, <1>13, <1>14
     DEF Next, Run

(* Every variable keeps its type. *)
THEOREM TypeCorrect == Spec => []TypeOK
BY TypeInit, TypeNext, PTL DEF Spec

-----------------------------------------------------------------------------
(* The age a is at most the age b; what never happened is oldest. *)
AtMost(a, b) == b = Never \/ (a # Never /\ a <= b)

LEMMA OlderAtMost ==
  ASSUME NEW a \in Age, NEW b \in Age, AtMost(a, b)
  PROVE  AtMost(Older(a), Older(b))
BY ScheduleAssumption, TickAssumption DEF AtMost, Older, Age

LEMMA ElapsedAtMost ==
  ASSUME NEW a \in Age, NEW b \in Age, NEW limit \in Nat,
         AtMost(a, b), Elapsed(a, limit)
  PROVE  Elapsed(b, limit)
BY ScheduleAssumption, TickAssumption DEF AtMost, Elapsed, Age

(* How the run log and the tick's readings relate to the last probing:     *)
(* until a tick probes, the newest counted line is at least as new as the  *)
(* last tick that probed, unless that one left no line.                    *)
LogInv ==
  /\ pc \notin Probed => AtMost(started, sinceProbing)
  /\ pc \notin Probed /\ ~excused => AtMost(sinceRun, sinceProbing)
  /\ pc = "checking" /\ ~excused => AtMost(seen.run, sinceProbing)
  /\ pc \in Probed => sinceProbing = started /\ ~excused
  /\ pc = "idle" => started = 0

LEMMA LogInit == Init => LogInv
BY DEF Init, LogInv, AtMost, Probed

LEMMA LogNext == TypeOK /\ LogInv /\ [Next]_vars => LogInv'
<1> SUFFICES ASSUME TypeOK, LogInv, [Next]_vars PROVE LogInv'
  OBVIOUS
<1>0. started \in Age /\ sinceRun \in Age /\ sinceProbing \in Age /\ seen.run \in Age
  BY DEF TypeOK, Age, Reading
<1>a. started \in Nat /\ started # Never
  BY ScheduleAssumption, TickAssumption DEF TypeOK
<1>1. CASE Pass
  <2>1. /\ AtMost(started, sinceProbing) => AtMost(Older(started), Older(sinceProbing))
        /\ AtMost(sinceRun, sinceProbing) => AtMost(Older(sinceRun), Older(sinceProbing))
        /\ AtMost(seen.run, sinceProbing) => AtMost(seen.run, Older(sinceProbing))
    BY <1>0, OlderAtMost, ScheduleAssumption, TickAssumption DEF AtMost, Older, Age
  <2>2. CASE pc = "idle"
    <3>1. AtMost(0, Older(sinceProbing))
      BY <1>0, ScheduleAssumption, TickAssumption DEF AtMost, Older, Age
    <3> QED
      BY <1>1, <2>1, <2>2, <3>1 DEF LogInv, Pass, Probed
  <2>3. CASE pc # "idle"
    BY <1>1, <2>1, <2>3 DEF LogInv, Pass, Probed
  <2> QED
    BY <2>2, <2>3
<1>2. CASE ProxyFlips \/ TrafficFails \/ OperatorProbe
  BY <1>2 DEF LogInv, ProxyFlips, TrafficFails, OperatorProbe, files, locals, history, AtMost, Probed
<1>3. CASE PreCheck
  <2>1. /\ started' = started
        /\ sinceProbing' = sinceProbing
        /\ excused' = excused
        /\ pc = "idle"
    BY <1>3 DEF PreCheck, history, locals
  <2>2. \/ pc' = "checking" /\ sinceRun' = sinceRun /\ seen'.run = sinceRun
        \/ pc' = "idle" /\ AppendLine("skip:", 0)
    <3> DEFINE read == [run |-> sinceRun, success |-> sinceSuccess, pending |-> journal > 0]
    <3>1. \/ pc' = "checking" /\ sinceRun' = sinceRun /\ seen' = read
          \/ pc' = "idle" /\ AppendLine("skip:", 0)
      BY <1>3, <2>1 DEF PreCheck
    <3> QED
      BY <3>1
  <2>3. AppendLine("skip:", 0) => sinceRun' = sinceRun
    BY DEF AppendLine, RunMarkers
  <2> QED
    BY <2>1, <2>2, <2>3 DEF LogInv, AtMost, Probed
<1>4. CASE Gate
  <2>1. /\ sinceProbing' = sinceProbing
        /\ excused' = excused
        /\ sinceRun' = sinceRun
        /\ pc = "checking"
        /\ \/ pc' = "running" /\ started' = started
           \/ pc' = "idle" /\ started' = 0
    BY <1>4 DEF Gate, AppendLine, RunMarkers, Exit
  <2>2. AtMost(0, sinceProbing)
    BY <1>0, ScheduleAssumption, TickAssumption DEF AtMost, Age
  <2> QED
    BY <2>1, <2>2 DEF LogInv, AtMost, Probed
<1>5. AtMost(0, sinceProbing)
  BY <1>0, ScheduleAssumption, TickAssumption DEF AtMost, Age
<1>6. CASE FeedUnreadable
  BY <1>5, <1>6 DEF LogInv, FeedUnreadable, Exit, files, AtMost, Probed
<1>7. CASE FeedImplausible
  BY <1>5, <1>7 DEF LogInv, FeedImplausible, AppendLine, RunMarkers, Exit, AtMost, Probed
<1>8. CASE ProbeTargets
  BY <1>8 DEF LogInv, ProbeTargets, files, locals, AtMost, Probed
<1>9. CASE LockBusy \/ WriteRefused \/ Finish
  <2>1. /\ pc \in Probed
        /\ pc' = "idle"
        /\ sinceRun' = started
        /\ started' = 0
        /\ sinceProbing' = sinceProbing
    BY <1>9 DEF LockBusy, WriteRefused, Finish, AppendLine, RunMarkers, Exit, Probed
  <2> QED
    BY <1>5, <1>a, <2>1 DEF LogInv, AtMost, Probed
<1>10. CASE Fold \/ WriteConfig \/ Smoke
  <2>1. /\ pc \in Probed
        /\ pc' \in Probed
        /\ UNCHANGED <<started, sinceProbing, excused>>
    BY <1>10 DEF Fold, WriteConfig, Smoke, locals, history, Probed
  <2> QED
    BY <2>1 DEF LogInv, Probed
<1>11. CASE RoleRefusal
  BY <1>5, <1>11 DEF LogInv, RoleRefusal, Exit, files, AtMost, Probed
<1>12. CASE Die
  BY <1>5, <1>12 DEF LogInv, Die, Exit, files, AtMost, Probed
<1>13. CASE UNCHANGED vars
  BY <1>13 DEF LogInv, vars, files, locals, history, AtMost, Probed
<1> QED
  BY <1>1, <1>2, <1>3, <1>4, <1>6, <1>7, <1>8, <1>9, <1>10, <1>11, <1>12, <1>13 DEF Next, Run

LEMMA LogInvariant == Spec => [](TypeOK /\ LogInv)
<1>1. Init => TypeOK /\ LogInv
  BY TypeInit, LogInit
<1>2. TypeOK /\ LogInv /\ [Next]_vars => (TypeOK /\ LogInv)'
  BY TypeNext, LogNext
<1> QED
  BY <1>1, <1>2, PTL DEF Spec

(* No two runs that probe start closer together than their interval, or    *)
(* than the floor when a Journal entry or a stale Health State brings the  *)
(* second forward; a tick that left no line in the log is the exception.   *)
THEOREM RunsSpacedHolds == Spec => RunsSpaced
<1>1. TypeOK /\ LogInv /\ [Next]_vars => StartSpaced
  <2> SUFFICES ASSUME TypeOK, LogInv, [Next]_vars,
                      pc = "checking", pc' = "running", ~excused
               PROVE  \/ Elapsed(sinceProbing, Interval)
                      \/ /\ kind' \in {"journal", "forced"}
                         /\ Elapsed(sinceProbing, JournalFloor)
    BY DEF StartSpaced
  <2>1. Gate
    BY DEF Next, Run, Pass, ProxyFlips, TrafficFails, OperatorProbe, PreCheck,
           FeedUnreadable, FeedImplausible, ProbeTargets, LockBusy, Fold, RoleRefusal,
           WriteRefused, WriteConfig, Smoke, Finish, Die, Exit, vars
  <2>2. kind' = Due(seen.run, seen.success, proxyUp, seen.pending) /\ kind' \in RunKind
    BY <2>1 DEF Gate, Exit
  <2>3. seen.run \in Age /\ sinceProbing \in Age /\ AtMost(seen.run, sinceProbing)
    BY DEF TypeOK, LogInv, Reading
  <2>4. \/ Elapsed(seen.run, Interval)
        \/ kind' \in {"journal", "forced"} /\ Elapsed(seen.run, JournalFloor)
    BY <2>2, <2>3, RunElapsed
  <2> QED
    BY <2>3, <2>4, ElapsedAtMost, ScheduleAssumption
<1> QED
  BY <1>1, LogInvariant, PTL DEF Spec, RunsSpaced

-----------------------------------------------------------------------------
(* Where a Journal entry can be a tick's reason to run again: if one is    *)
(* there while no unfolded run is under way, the chain was broken since.   *)
ChainInv ==
  /\ chain \in {0, 1}
  /\ pc \in {"idle", "folded", "written", "smoked"} /\ journal > 0 => chain = 0
  /\ pc = "checking" /\ seen.pending => chain = 0
  /\ pc = "checking" /\ journal > 0 => chain = 0

LEMMA ChainNext == TypeOK /\ ChainInv /\ [Next]_vars => ChainInv'
<1> SUFFICES ASSUME TypeOK, ChainInv, [Next]_vars PROVE ChainInv'
  OBVIOUS
<1> USE DEF ChainInv
<1>1. CASE Pass \/ ProxyFlips \/ WriteConfig
  BY <1>1 DEF Pass, ProxyFlips, WriteConfig, files, locals, history
<1>2. CASE TrafficFails
  BY <1>2 DEF TrafficFails
<1>3. CASE OperatorProbe
  BY <1>3 DEF OperatorProbe, locals, history
<1>4. CASE PreCheck
  <2> DEFINE read == [run |-> sinceRun, success |-> sinceSuccess, pending |-> journal > 0]
  <2>1. /\ pc = "idle" /\ UNCHANGED <<journal, chain>>
        /\ (pc' = "checking" /\ seen' = read) \/ pc' = "idle"
    BY <1>4 DEF PreCheck, locals, history
  <2>2. pc' = "checking" => seen'.pending = (journal > 0)
    BY <2>1
  <2> QED
    BY <2>1, <2>2
<1>5. CASE Gate
  <2>1. pc = "checking" /\ journal' = journal
    BY <1>5 DEF Gate
  <2>2. \/ /\ pc' = "running"
           /\ chain' = IF kind' = "journal" THEN chain + 1 ELSE 0
           /\ kind' = Due(seen.run, seen.success, proxyUp, seen.pending)
        \/ pc' = "idle" /\ chain' = chain
    BY <1>5 DEF Gate, Exit
  <2>3. CASE pc' = "running"
    BY <2>1, <2>2, <2>3, JournalNeedsEntry
  <2>4. CASE pc' = "idle"
    BY <2>1, <2>2, <2>4
  <2> QED
    BY <2>2, <2>3, <2>4
<1>6. CASE FeedUnreadable \/ FeedImplausible \/ LockBusy \/ RoleRefusal \/ Die
  BY <1>6 DEF FeedUnreadable, FeedImplausible, LockBusy, RoleRefusal, Die, Exit
<1>7. CASE ProbeTargets
  BY <1>7 DEF ProbeTargets, files
<1>8. CASE Fold
  BY <1>8 DEF Fold, history
<1>9. CASE WriteRefused \/ Finish
  BY <1>9 DEF WriteRefused, Finish, Exit
<1>10. CASE Smoke
  BY <1>10 DEF Smoke
<1>11. CASE UNCHANGED vars
  BY <1>11 DEF vars, files, locals, history
<1> QED
  BY <1>1, <1>2, <1>3, <1>4, <1>5, <1>6, <1>7, <1>8, <1>9, <1>10, <1>11 DEF Next, Run

(* A journal-triggered run never causes another one. *)
THEOREM ChainStopsHolds == Spec => []ChainStops
<1>1. Init => ChainInv
  BY DEF Init, ChainInv
<1>2. ChainInv => ChainStops
  BY DEF ChainInv, ChainStops
<1> QED
  BY <1>1, <1>2, ChainNext, TypeCorrect, PTL DEF Spec
=============================================================================
