-------------------------------- MODULE Tick --------------------------------
(***************************************************************************)
(* One launchd tick after another: cli.cmd_run from the due gate to the    *)
(* run log.  The tick's memory between two runs is the run log, of which   *)
(* it reads the newest line that counts as a run; the Observation Journal, *)
(* which the proxy fills and the tick's own smoke check can fill; and the  *)
(* newest success in Health State.  launchd never starts a job that still  *)
(* runs, so there is one tick process; the operator's probe folds beside   *)
(* it.                                                                     *)
(*                                                                         *)
(* Time is kept as ages, which saturate at MaxAge: no rule of due tells    *)
(* two larger ages apart, and behaviours may be infinite.                  *)
(***************************************************************************)
EXTENDS Schedule

CONSTANTS
  MaxAge,      \* ages saturate here
  MaxRun,      \* bound: how long one tick process may run
  MaxEntries,  \* bound: Journal entries
  MayDie       \* whether a tick may be killed

ASSUME TickAssumption ==
  /\ MaxAge \in Nat
  /\ MaxAge >= CatchUpMultiplier * Interval
  /\ MaxAge >= MaximumStaleness
  /\ MaxAge >= JournalFloor
  /\ MaxRun \in Nat
  /\ MaxEntries \in Nat
  /\ MayDie \in BOOLEAN

VARIABLES
  sinceRun,      \* age of the newest counted line of the run log
  sinceSuccess,  \* age of the newest last_success_at in Health State
  journal,       \* how many entries the Journal holds
  proxyUp,       \* whether the proxy answers
  pc,            \* how far the tick is
  started,       \* age of the tick's own reading of the clock
  seen,          \* what the tick read before the gate
  kind,          \* the kind of run due decided on
  \* History variables: read by no action, only by properties.
  sinceProbing,  \* age of the clock reading of the last tick that probed
  excused,       \* that tick ended with no line: killed, or a role refusal
  chain          \* journal-triggered runs since anything but one of them
                 \* last gave a reason to run

files    == <<sinceRun, sinceSuccess, journal>>
locals   == <<started, seen, kind>>
history  == <<sinceProbing, excused, chain>>
vars     == <<files, proxyUp, pc, locals, history>>

Age == 0..MaxAge \cup {Never}
Stage == {"idle", "checking", "running", "probed", "folded", "written", "smoked"}
Probed == {"probed", "folded", "written", "smoked"}

(* What a tick reads before its gate. *)
Reading == [run : Age, success : Age, pending : BOOLEAN]
Nothing == [run |-> Never, success |-> Never, pending |-> FALSE]

Older(age) == IF age = Never \/ age = MaxAge THEN age ELSE age + 1

Fresher(a, b) == IF a = Never THEN b
                 ELSE IF b = Never THEN a ELSE IF a <= b THEN a ELSE b

-----------------------------------------------------------------------------
(* Faulty: every line counts. *)
RunMarkersAll == {"run:", "refused:", "skip:"}

RunMarkers == {"run:", "refused:"}

(* Faulty: the line is stamped with a clock that is ahead. *)
AppendLineAhead(marker, age) ==
  sinceRun' = IF marker \in RunMarkers THEN age - 1 ELSE sinceRun

(* The run log gets a line with this tick's time; _read_last_run_at skips  *)
(* the lines whose marker is not a run's.                                  *)
AppendLine(marker, age) ==
  sinceRun' = IF marker \in RunMarkers THEN age ELSE sinceRun

Exit == pc' = "idle" /\ started' = 0 /\ seen' = Nothing /\ kind' = "none"

(* A tick that probed and ends with a counted line is on record. *)
OnRecord == excused' = FALSE

-----------------------------------------------------------------------------
Init ==
  /\ sinceRun = Never
  /\ sinceSuccess = Never
  /\ journal = 0
  /\ proxyUp \in BOOLEAN
  /\ pc = "idle"
  /\ started = 0
  /\ seen = Nothing
  /\ kind = "none"
  /\ sinceProbing = Never
  /\ excused = FALSE
  /\ chain = 0

(* One unit of time passes, also while a tick runs. *)
Pass ==
  /\ pc # "idle" => started < MaxRun
  /\ sinceRun' = Older(sinceRun)
  /\ sinceSuccess' = Older(sinceSuccess)
  /\ sinceProbing' = Older(sinceProbing)
  /\ started' = IF pc = "idle" THEN 0 ELSE Older(started)
  /\ UNCHANGED <<journal, proxyUp, pc, seen, kind, excused, chain>>

(* The proxy comes up or goes down. *)
ProxyFlips ==
  /\ proxyUp' = ~proxyUp
  /\ UNCHANGED <<files, pc, locals, history>>

(* Real traffic fails: the proxy's callback appends an entry. *)
TrafficFails ==
  /\ proxyUp
  /\ journal < MaxEntries
  /\ journal' = journal + 1
  /\ chain' = 0
  /\ UNCHANGED <<sinceRun, sinceSuccess, proxyUp, pc, locals, sinceProbing, excused>>

(* The operator's probe command measures, folds and rotates. *)
OperatorProbe ==
  /\ \E answered \in BOOLEAN :
       sinceSuccess' = IF answered THEN 0 ELSE sinceSuccess
  /\ journal' = 0
  /\ UNCHANGED <<sinceRun, proxyUp, pc, locals, history>>

-----------------------------------------------------------------------------
(* The tick reads the clock, Health State, the run log and the Journal,    *)
(* and asks due as if the proxy were up.  A refusal ends it with a skip    *)
(* line and no call to the proxy.                                          *)
PreCheck ==
  /\ pc = "idle"
  /\ LET pending == journal > 0 IN
     IF Due(sinceRun, sinceSuccess, TRUE, pending) \in RunKind
     THEN /\ pc' = "checking"
          /\ seen' = [run |-> sinceRun, success |-> sinceSuccess, pending |-> pending]
          /\ UNCHANGED <<sinceRun, started, kind>>
     ELSE /\ AppendLine("skip:", 0)
          /\ UNCHANGED <<pc, locals>>
  /\ UNCHANGED <<sinceSuccess, journal, proxyUp, history>>

(* The tick asks the proxy and then due again, with what it read before.   *)
Gate ==
  /\ pc = "checking"
  /\ LET answer == Due(seen.run, seen.success, proxyUp, seen.pending) IN
     IF answer \in RunKind
     THEN /\ pc' = "running"
          /\ kind' = answer
          /\ chain' = IF answer = "journal" THEN chain + 1 ELSE 0
          /\ UNCHANGED <<sinceRun, started, seen>>
     ELSE /\ AppendLine("skip:", started)
          /\ Exit
          /\ UNCHANGED chain
  /\ UNCHANGED <<sinceSuccess, journal, proxyUp, sinceProbing, excused>>

(* No Feed Document can be read: the tick ends and writes no line. *)
FeedUnreadable ==
  /\ pc = "running"
  /\ Exit
  /\ chain' = 0
  /\ UNCHANGED <<files, proxyUp, sinceProbing, excused>>

(* The Feed is implausible: a refusal that counts as a run. *)
FeedImplausible ==
  /\ pc = "running"
  /\ AppendLine("refused:", started)
  /\ Exit
  /\ chain' = 0
  /\ UNCHANGED <<sinceSuccess, journal, proxyUp, sinceProbing, excused>>

(* A sweep, or the confirming Probes of a journal-triggered run. *)
ProbeTargets ==
  /\ pc = "running"
  /\ pc' = "probed"
  /\ sinceProbing' = started
  /\ excused' = FALSE
  /\ UNCHANGED <<files, proxyUp, locals, chain>>

(* Faulty: the lock's refusal is marked as a skip. *)
LockBusySkip ==
  /\ pc = "probed"
  /\ AppendLine("skip:", started)
  /\ Exit
  /\ OnRecord
  /\ chain' = 0
  /\ UNCHANGED <<sinceSuccess, journal, proxyUp, sinceProbing>>

(* Another maintainer holds the lock: the outcomes are dropped, the line   *)
(* counts because the Prober has run.                                      *)
LockBusy ==
  /\ pc = "probed"
  /\ AppendLine("refused:", started)
  /\ Exit
  /\ OnRecord
  /\ chain' = 0
  /\ UNCHANGED <<sinceSuccess, journal, proxyUp, sinceProbing>>

(* _fold_into_health_state: outcomes carry the time the tick started; the  *)
(* whole Journal is folded and rotated.  The record with the newest        *)
(* success may belong to an Offering that is no longer admitted.           *)
Fold ==
  /\ pc = "probed"
  /\ pc' = "folded"
  /\ \E answered, kept \in BOOLEAN :
       LET old == IF kept THEN sinceSuccess ELSE Never IN
       sinceSuccess' = IF answered THEN Fresher(old, started) ELSE old
  /\ journal' = 0
  /\ UNCHANGED <<sinceRun, proxyUp, locals, history>>

(* _augment_with_roles refuses: the tick ends and writes no line. *)
RoleRefusal ==
  /\ pc = "folded"
  /\ Exit
  /\ excused' = TRUE
  /\ chain' = 0
  /\ UNCHANGED <<files, proxyUp, sinceProbing>>

(* The plan or the safety rail refuses. *)
WriteRefused ==
  /\ pc = "folded"
  /\ AppendLine("refused:", started)
  /\ Exit
  /\ OnRecord
  /\ UNCHANGED <<sinceSuccess, journal, proxyUp, sinceProbing, chain>>

(* The Generated Config is written, or already holds this plan. *)
WriteConfig ==
  /\ pc = "folded"
  /\ pc' = "written"
  /\ UNCHANGED <<files, proxyUp, locals, history>>

(* Faulty: a journal-triggered run makes smoke calls too. *)
SmokeAlways ==
  /\ pc = "written"
  /\ pc' = "smoked"
  /\ \/ UNCHANGED <<journal, chain>>
     \/ /\ proxyUp
        /\ journal < MaxEntries
        /\ journal' = journal + 1
        /\ chain' = IF kind = "journal" THEN chain ELSE 0
  /\ UNCHANGED <<sinceRun, sinceSuccess, proxyUp, locals, sinceProbing, excused>>

(* The smoke check calls the proxy, whose callback records a failing call  *)
(* in the Journal.  A journal-triggered run makes no smoke call.           *)
Smoke ==
  /\ pc = "written"
  /\ pc' = "smoked"
  /\ \/ UNCHANGED <<journal, chain>>
     \/ /\ kind # "journal"
        /\ proxyUp
        /\ journal < MaxEntries
        /\ journal' = journal + 1
        /\ chain' = 0
  /\ UNCHANGED <<sinceRun, sinceSuccess, proxyUp, locals, sinceProbing, excused>>

(* Deploy, notify, remember the admitted set, append the run's line. *)
Finish ==
  /\ pc = "smoked"
  /\ AppendLine("run:", started)
  /\ Exit
  /\ OnRecord
  /\ UNCHANGED <<sinceSuccess, journal, proxyUp, sinceProbing, chain>>

(* The machine sleeps, shuts down, or an exception ends the tick. *)
Die ==
  /\ MayDie
  /\ pc # "idle"
  /\ Exit
  /\ excused' = (excused \/ pc \in Probed)
  /\ chain' = 0
  /\ UNCHANGED <<files, proxyUp, sinceProbing>>

-----------------------------------------------------------------------------
Run == FeedUnreadable \/ FeedImplausible \/ ProbeTargets \/ LockBusy \/ Fold
       \/ RoleRefusal \/ WriteRefused \/ WriteConfig \/ Smoke \/ Finish

Next ==
  \/ Pass \/ ProxyFlips \/ TrafficFails \/ OperatorProbe
  \/ PreCheck \/ Gate \/ Run \/ Die

Spec == Init /\ [][Next]_vars

(* Time passes, launchd starts the job again and again, a started tick     *)
(* makes progress, and not every tick dies before its gate.                *)
Fairness == WF_vars(Pass) /\ WF_vars(PreCheck) /\ WF_vars(Run) /\ SF_vars(Gate)

FairSpec == Spec /\ Fairness

-----------------------------------------------------------------------------
(* Type invariant. *)
TypeOK ==
  /\ sinceRun \in Age
  /\ sinceSuccess \in Age
  /\ journal \in 0..MaxEntries
  /\ proxyUp \in BOOLEAN
  /\ pc \in Stage
  /\ started \in 0..MaxAge
  /\ seen \in Reading
  /\ kind \in RunKind \cup {"none"}
  /\ sinceProbing \in Age
  /\ excused \in BOOLEAN
  /\ chain \in Nat

(* A tick that gets past its gate starts at least one interval after the   *)
(* last tick that probed, or one floor after it when a Journal entry or a  *)
(* stale Health State brought it forward.  Only a tick that left no line   *)
(* in the run log, a killed one or one its roles refused, is forgotten.    *)
(* This is the tick storm the run log's markers exist to prevent.          *)
StartSpaced ==
  pc = "checking" /\ pc' = "running" /\ ~excused =>
    \/ Elapsed(sinceProbing, Interval)
    \/ kind' \in {"journal", "forced"} /\ Elapsed(sinceProbing, JournalFloor)
RunsSpaced == [][StartSpaced]_vars

(* The tool does not trigger itself: a journal-triggered run is followed   *)
(* by another one only if in between real traffic failed, a sweep's smoke  *)
(* call failed, or a run ended without rotating the Journal.               *)
ChainStops == chain <= 1

(* Sweeps go on for ever once the proxy stays up and the Journal stays     *)
(* empty: the lines that skipped, refused and journal-triggered ticks      *)
(* leave in the run log do not postpone the next sweep for good.           *)
SweepsGoOn ==
  <>[](proxyUp /\ journal = 0) => []<>(kind \in SweepKind)

(* A tick that ends after the Prober has run leaves a line that counts as  *)
(* a run, so that the next tick does not probe again one minute later.     *)
ProbingIsRecorded ==
  [][(pc \in Probed /\ pc' = "idle") => sinceRun' = started]_vars
=============================================================================
