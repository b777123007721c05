------------------------------- MODULE Probing -------------------------------
(***************************************************************************)
(* A sweep's calls: probe_offerings gives each provider a pacer and a pool *)
(* of threads, probe_offering retries a call at most once, and the smoke   *)
(* check then makes one call per translation rule through the proxy.       *)
(*                                                                         *)
(* A provider rate-limits a call that starts too soon after another.  Its  *)
(* model may need more time, or more tokens, than a first Probe gives it.  *)
(* What a Probe means is module Classify; which Offerings are swept, and   *)
(* how outcomes are folded, are the subject of OfferingHealth and Plan.    *)
(***************************************************************************)
EXTENDS Classify, Integers, FiniteSets

CONSTANTS
  Targets,    \* the Offerings a smoke check may call
  Worklist,   \* those a sweep probes, in order
  ProviderOf, \* each one's provider
  RuleOf,     \* each one's translation rule
  Uncallable, \* those whose credential only a caller has: never probed
  Answer,     \* what each one answers, given time and tokens
  Slow,       \* those that need PROBE_SLOW_TIMEOUT_SECONDS
  Reasoning,  \* those that need PROBE_REASONING_MAX_TOKENS
  Raising,    \* those whose call may raise what is no httpx.HTTPError
  Before,     \* the Offerings Excluded before the sweep
  Wired,      \* the rules whose entries work in the proxy
  Seats,      \* per provider, pacing's concurrency
  Interval,   \* per provider, pacing's minimum_interval_seconds
  Backoff,    \* RATE_LIMIT_RETRY_BACKOFF_SECONDS
  Patience,   \* per provider, how far apart it wants calls to start
  None        \* no target, no outcome

Probed    == {Worklist[i] : i \in DOMAIN Worklist}
Providers == {ProviderOf[t] : t \in Targets}
SmokeRule == {RuleOf[t] : t \in Targets}
Worker    == UNION {{p} \X (1..Seats[p]) : p \in Providers}

ASSUME ProbingAssumption ==
  /\ Worklist \in Seq(Targets) /\ Probed \cap Uncallable = {}
  /\ \A i, j \in DOMAIN Worklist : i # j => Worklist[i] # Worklist[j]
  /\ Answer \in [Targets -> Response]
  /\ Seats \in [Providers -> Nat \ {0}] /\ Interval \in [Providers -> Nat \ {0}]
  /\ Backoff \in Nat
  /\ Patience \in [Providers -> Nat] /\ \A p \in Providers : Patience[p] <= Interval[p]
  /\ None \notin Targets \cup Response /\ Before \subseteq Targets

VARIABLES
  phase,    \* sweeping, smoking, over
  queue,    \* per provider, the places in Worklist that no thread has taken
  target,   \* per thread, the target it has
  stage,    \* how far it is with it
  left,     \* how long it still sleeps before it calls
  retry,    \* what its retry allows: none, the same, more time, more tokens
  reply,    \* the response that is under way
  wait,     \* per provider, how long until the pacer's next start
  since,    \* per provider, how long ago a call started
  outcome,  \* per target, what its Probe came to
  excluded, \* the Offerings that Health State has Excluded
  latest,   \* per rule, which Offering answered last
  raised,   \* whether a thread raised
  checks,   \* per rule, what the smoke check reports
  \* History variables: read by no action, only by properties.
  limited,  \* the targets that a provider rate-limited
  recent    \* per provider and age, how many calls of the sweep are no older

threads == <<queue, target, stage, left, retry, reply>>
clocks  == <<wait, since>>
ends    == <<outcome, latest, raised>>
vars    == <<phase, threads, clocks, ends, excluded, checks, limited, recent>>

Prov(w) == w[1]
Stage   == {"idle", "queued", "calling", "called"}
Retry   == {"none", "same", "timeout", "max_tokens"}
Check   == {"pending", "answered", "failed", "unverified", "inconclusive"}
Failing == {"self_healing", "needs_operator", "gone"}

-----------------------------------------------------------------------------
(* What a provider answers to a call with these allowances. *)
Respond(t, allowed) ==
  IF since[ProviderOf[t]] < Patience[ProviderOf[t]] THEN Bare("limited")
  ELSE IF t \in Slow /\ allowed # "timeout" THEN TimedOut
  ELSE IF t \in Reasoning /\ allowed # "max_tokens" /\ Answer[t].choices THEN EmptyStream
  ELSE Answer[t]

Started(p) ==
  /\ since' = [since EXCEPT ![p] = 0]
  /\ recent' = [recent EXCEPT ![p] = [age \in DOMAIN recent[p] |-> recent[p][age] + 1]]

Init ==
  /\ phase = "sweeping"
  /\ queue = [p \in Providers |-> {i \in DOMAIN Worklist : ProviderOf[Worklist[i]] = p}]
  /\ target = [w \in Worker |-> None]
  /\ stage = [w \in Worker |-> "idle"]
  /\ left = [w \in Worker |-> 0]
  /\ retry = [w \in Worker |-> "none"]
  /\ reply = [w \in Worker |-> None]
  /\ wait = [p \in Providers |-> 0]
  /\ since = Patience
  /\ outcome = [t \in Probed |-> None]
  /\ excluded = Before
  /\ latest = [r \in SmokeRule |-> None]
  /\ raised = FALSE
  /\ checks = [r \in SmokeRule |-> "pending"]
  /\ limited = {}
  /\ recent = [p \in Providers |-> [age \in 0..(Interval[p] - 1) |-> 0]]

(* A second passes. *)
Less(n) == IF n = 0 THEN 0 ELSE n - 1

Tick ==
  /\ wait' = [p \in Providers |-> Less(wait[p])]
  /\ left' = [w \in Worker |-> Less(left[w])]
  /\ since' = [p \in Providers |-> IF since[p] < Patience[p] THEN since[p] + 1 ELSE since[p]]
  /\ recent' = [p \in Providers |-> [age \in DOMAIN recent[p] |->
                                       IF age = 0 THEN 0 ELSE recent[p][age - 1]]]
  /\ UNCHANGED <<phase, queue, target, stage, retry, reply, ends, excluded, checks, limited>>

-----------------------------------------------------------------------------
(* A thread takes the next target and asks the pacer for its turn. *)
Take(w) ==
  /\ stage[w] = "idle"
  /\ \E i \in queue[Prov(w)] :
       /\ \A j \in queue[Prov(w)] : i <= j
       /\ target' = [target EXCEPT ![w] = Worklist[i]]
       /\ queue' = [queue EXCEPT ![Prov(w)] = @ \ {i}]
  /\ stage' = [stage EXCEPT ![w] = "queued"]
  /\ UNCHANGED <<phase, left, retry, reply, clocks, ends, excluded, checks, limited, recent>>

(* Faulty: a turn is reserved but not waited for. *)
WaitTurnAtOnce(w) ==
  /\ stage[w] = "queued"
  /\ wait' = [wait EXCEPT ![Prov(w)] = Interval[Prov(w)]]
  /\ stage' = [stage EXCEPT ![w] = "calling"]
  /\ UNCHANGED <<phase, queue, target, left, retry, reply, since, ends, excluded, checks, limited, recent>>

(* wait_turn: the thread that holds the lock sleeps out the interval and   *)
(* reserves the next start.  Which of several threads gets the lock is     *)
(* open, and so is when it calls after it has released the lock.           *)
WaitTurn(w) ==
  /\ stage[w] = "queued"
  /\ wait[Prov(w)] = 0
  /\ wait' = [wait EXCEPT ![Prov(w)] = Interval[Prov(w)]]
  /\ stage' = [stage EXCEPT ![w] = "calling"]
  /\ UNCHANGED <<phase, queue, target, left, retry, reply, since, ends, excluded, checks, limited, recent>>

(* The call starts; a retry's does not wait for a turn. *)
Call(w) ==
  /\ stage[w] = "calling"
  /\ left[w] = 0
  /\ reply' = [reply EXCEPT ![w] = Respond(target[w], retry[w])]
  /\ limited' = IF reply'[w] = Bare("limited") THEN limited \cup {target[w]} ELSE limited
  /\ Started(Prov(w))
  /\ stage' = [stage EXCEPT ![w] = "called"]
  /\ UNCHANGED <<phase, queue, target, left, retry, wait, ends, excluded, checks>>

(* Faulty: the thread keeps the target it has done. *)
IdleKeeping(w) ==
  /\ stage' = [stage EXCEPT ![w] = "idle"]
  /\ retry' = [retry EXCEPT ![w] = "none"]
  /\ UNCHANGED <<target, left>>

(* The thread is done with its target. *)
Idle(w) ==
  /\ target' = [target EXCEPT ![w] = None]
  /\ stage' = [stage EXCEPT ![w] = "idle"]
  /\ retry' = [retry EXCEPT ![w] = "none"]
  /\ UNCHANGED left

(* The call raises: the future keeps the exception, the thread goes on. *)
Raise(w) ==
  /\ stage[w] = "calling"
  /\ left[w] = 0
  /\ target[w] \in Raising
  /\ raised' = TRUE
  /\ Idle(w)
  /\ UNCHANGED <<phase, queue, reply, clocks, outcome, latest, excluded, checks, limited, recent>>

(* Faulty: a call that timed out is repeated with the same timeout. *)
SecondTryAlike(what) ==
  IF what = Means("inconclusive", "rate_limited") THEN "same"
  ELSE IF what = Means("needs_operator", "malformed_response") THEN "max_tokens"
  ELSE IF what = Means("self_healing", "timeout") THEN "same"
  ELSE "none"

(* Which retry an outcome calls for. *)
SecondTry(what) ==
  IF what = Means("inconclusive", "rate_limited") THEN "same"
  ELSE IF what = Means("needs_operator", "malformed_response") THEN "max_tokens"
  ELSE IF what = Means("self_healing", "timeout") THEN "timeout"
  ELSE "none"

(* Faulty: every attempt may be retried. *)
MayRetryAgain(w) == TRUE

(* One retry, whatever it was for. *)
MayRetry(w) == retry[w] = "none"

(* The response is classified, and the call retried or the Probe over. *)
Hear(w) ==
  /\ stage[w] = "called"
  /\ LET t == target[w]
         what == ClassifyResponse(reply[w]) IN
     IF MayRetry(w) /\ SecondTry(what) # "none"
     THEN /\ retry' = [retry EXCEPT ![w] = SecondTry(what)]
          /\ left' = [left EXCEPT ![w] = IF SecondTry(what) = "same" THEN Backoff ELSE 0]
          /\ stage' = [stage EXCEPT ![w] = "calling"]
          /\ UNCHANGED <<target, outcome, latest>>
     ELSE /\ outcome' = [outcome EXCEPT ![t] = what]
          /\ latest' = IF what.bucket = "answered" THEN [latest EXCEPT ![RuleOf[t]] = t] ELSE latest
          /\ Idle(w)
  /\ reply' = [reply EXCEPT ![w] = None]
  /\ UNCHANGED <<phase, queue, clocks, raised, excluded, checks, limited, recent>>

(* All futures are done, and the outcomes are folded.  An exception drops  *)
(* them all, and the run with them.                                        *)
SweepDone ==
  /\ phase = "sweeping"
  /\ \A p \in Providers : queue[p] = {}
  /\ \A w \in Worker : stage[w] = "idle"
  /\ IF raised THEN phase' = "over" /\ UNCHANGED excluded
     ELSE /\ phase' = "smoking"
          /\ excluded' = {t \in Targets :
               IF t \in Probed /\ outcome[t].bucket # "inconclusive"
               THEN outcome[t].bucket \in Failing ELSE t \in excluded}
  /\ UNCHANGED <<threads, clocks, ends, checks, limited, recent>>

-----------------------------------------------------------------------------
(* build_smoke_entries, group_by_rule: a rule's entries the proxy may call *)
(* and that are not Excluded.                                              *)
Healthy(r) == {t \in Targets \ (Uncallable \cup excluded) : RuleOf[t] = r}

(* pick_healthiest: who answered last.  Without a success in this sweep an *)
(* earlier one decides, which may be anyone's.                             *)
PickHealthiest(r) ==
  IF latest[r] \in Healthy(r) THEN {latest[r]} ELSE Healthy(r)

(* run_smoke_check's status. *)
CheckStatus(what) ==
  IF what.bucket \in {"answered", "inconclusive"} THEN what.bucket ELSE "failed"

(* The smoke check of one rule: one call, with a first Probe's allowances. *)
(* The proxy answers for an entry that is not wired.                       *)
Smoke(r) ==
  /\ phase = "smoking"
  /\ checks[r] = "pending"
  /\ \/ /\ Healthy(r) = {}
        /\ checks' = [checks EXCEPT ![r] = "unverified"]
        /\ UNCHANGED since
     \/ \E t \in PickHealthiest(r) :
        /\ checks' = [checks EXCEPT ![r] = CheckStatus(ClassifyResponse(
                        IF r \in Wired THEN Respond(t, "none") ELSE Bare("denied")))]
        /\ since' = IF r \in Wired THEN [since EXCEPT ![ProviderOf[t]] = 0] ELSE since
  /\ UNCHANGED <<phase, threads, wait, ends, excluded, limited, recent>>

SmokeDone ==
  /\ phase = "smoking"
  /\ \A r \in SmokeRule : checks[r] # "pending"
  /\ phase' = "over"
  /\ UNCHANGED <<threads, clocks, ends, excluded, checks, limited, recent>>

(* The operator has every rule checked again, outside a run.  Of a sweep   *)
(* whose outcomes were dropped, no success is on record.                   *)
SmokeCommand ==
  /\ phase = "over"
  /\ phase' = "smoking"
  /\ checks' = [r \in SmokeRule |-> "pending"]
  /\ latest' = IF raised THEN [r \in SmokeRule |-> None] ELSE latest
  /\ UNCHANGED <<threads, clocks, outcome, raised, excluded, limited, recent>>

Probe(w) == Take(w) \/ WaitTurn(w) \/ Call(w) \/ Raise(w) \/ Hear(w)

Work ==
  \/ \E w \in Worker : Probe(w)
  \/ SweepDone \/ SmokeDone
  \/ \E r \in SmokeRule : Smoke(r)

Next == Tick \/ Work \/ SmokeCommand

Spec == Init /\ [][Next]_vars

(* Time passes, and the run's threads do not all rest while one can go on. *)
Fairness == WF_vars(Tick) /\ WF_vars(Work)

FairSpec == Spec /\ Fairness

-----------------------------------------------------------------------------
(* Type invariant; only a thread at work has a target, and only a call     *)
(* under way a response.                                                   *)
TypeOK ==
  /\ phase \in {"sweeping", "smoking", "over"}
  /\ queue \in [Providers -> SUBSET DOMAIN Worklist]
  /\ target \in [Worker -> Probed \cup {None}]
  /\ stage \in [Worker -> Stage]
  /\ \A w \in Worker : (target[w] = None) <=> (stage[w] = "idle")
  /\ left \in [Worker -> 0..Backoff]
  /\ retry \in [Worker -> Retry]
  /\ reply \in [Worker -> Response \cup {None}]
  /\ \A w \in Worker : (reply[w] # None) <=> (stage[w] = "called")
  /\ wait \in [Providers -> Nat] /\ since \in [Providers -> Nat]
  /\ \A p \in Providers : wait[p] <= Interval[p] /\ since[p] <= Patience[p]
  /\ DOMAIN outcome = Probed
  /\ \A t \in Probed : outcome[t] = None \/ outcome[t].bucket \in Bucket
  /\ excluded \subseteq Targets
  /\ latest \in [SmokeRule -> Probed \cup {None}]
  /\ raised \in BOOLEAN
  /\ checks \in [SmokeRule -> Check]
  /\ limited \subseteq Probed
  /\ DOMAIN recent = Providers
  /\ \A p \in Providers : recent[p] \in [0..(Interval[p] - 1) -> Nat]

(* A Probe reports an Offering failing only if it fails given all it       *)
(* needs, or met two troubles, of which one retry can answer but one: it   *)
(* is slow and reasoning, or either of them and was rate-limited.          *)
FailsOnlyTwice ==
  \A t \in Probed :
    (outcome[t] # None /\ outcome[t].bucket \in Failing) =>
      \/ ClassifyResponse(Answer[t]).bucket \in Failing
      \/ t \in Slow \cap Reasoning
      \/ t \in (Slow \cup Reasoning) \cap limited

(* In any interval a provider meets at most one call and its retry per     *)
(* thread whose turn came before, and those of the one turn in it, however *)
(* late the threads call after their turns.                                *)
BurstBounded ==
  phase = "sweeping" => \A p \in Providers : recent[p][Interval[p] - 1] <= 2 * (Seats[p] + 1)

(* Every sweep ends, with an outcome for every target whose call cannot    *)
(* raise, whatever the providers answer.                                   *)
SweepEnds ==
  <>(phase = "over" /\ \A t \in Probed \ Raising : outcome[t] # None)

(* "the two live callers must agree": a rule that works in the proxy is    *)
(* not reported failed by a call to an Offering that has just answered.    *)
SmokeAgrees ==
  [][\A r \in Wired : (checks'[r] = "failed" /\ checks[r] = "pending") => latest[r] = None]_vars

(* "at least that many seconds between the starts of two calls to it" *)
CallsSpaced == \A p \in Providers : recent[p][Interval[p] - 1] <= 1
=============================================================================
