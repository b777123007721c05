-------------------------- MODULE MeasurementProofs --------------------------
(***************************************************************************)
(* Proofs about Probing, how an Offering is measured, and about            *)
(* OfferingHealth, what is believed of it then.                            *)
(*                                                                         *)
(* Probing, for any targets, threads and answers: a retry is for what the  *)
(* first call met (RetryIsFor), so what the last call meets (ReplyIs) is   *)
(* either the Offering's own answer or a second trouble.  The calls of an  *)
(* interval and those still owed to it never exceed the burst (Paced).     *)
(*                                                                         *)
(* OfferingHealth, for any keys, pools, traffic and Journals of any        *)
(* length: replaying the Journal takes one step per entry                  *)
(* (ReplayedStepByStep, from StepsTaken), and every step leaves an         *)
(* exclusion with its evidence (AppliedFounded).                           *)
(***************************************************************************)
EXTENDS Probing, OfferingHealth, FiniteSetTheorems, WellFoundedInduction, TLAPS

(* What a first call gets, unless its provider rate-limits it. *)
FirstReply(t) ==
  IF t \in Slow THEN TimedOut
  ELSE IF t \in Reasoning /\ Answer[t].choices THEN EmptyStream
  ELSE Answer[t]

(* What the retry a thread is making is for. *)
RetryIsFor(w) ==
  \/ retry[w] = "none"
  \/ retry[w] = "same" /\ target[w] \in limited
  \/ SecondTry(ClassifyResponse(FirstReply(target[w]))) = retry[w]

(* What the response under way says of its target. *)
ReplyIs(w) ==
  LET t == target[w]
      timely == t \in Slow => retry[w] = "timeout"
      thinks == t \in Reasoning /\ Answer[t].choices
  IN \/ reply[w] = Bare("limited") /\ t \in limited
     \/ reply[w] = TimedOut /\ t \in Slow /\ retry[w] # "timeout"
     \/ reply[w] = EmptyStream /\ thinks /\ timely /\ retry[w] # "max_tokens"
     \/ reply[w] = Answer[t] /\ timely /\ (thinks => retry[w] = "max_tokens")

(* What the invariant needs of types. *)
Shapes ==
  /\ DOMAIN target = Worker /\ DOMAIN stage = Worker
  /\ DOMAIN retry = Worker /\ DOMAIN reply = Worker
  /\ DOMAIN outcome = Probed

CallIs(w) ==
  /\ stage[w] \in {"idle", "queued"} => retry[w] = "none"
  /\ RetryIsFor(w)
  /\ stage[w] = "called" => ReplyIs(w)

Calls == \A w \in Worker : CallIs(w)

(* How many calls a thread may still start without another turn, and all   *)
(* that the threads of a provider may.                                     *)
Owed(w) ==
  IF stage[w] = "calling" THEN IF retry[w] = "none" THEN 2 ELSE 1
  ELSE IF stage[w] = "called" /\ retry[w] = "none" THEN 1 ELSE 0
Dues(p) == {due \in (1..Seats[p]) \X {1, 2} : due[2] <= Owed(<<p, due[1]>>)}

(* A call no older than an age was made on a turn that came before, or on  *)
(* the last one, if it is no older either.                                 *)
Allowed(p, age) ==
  IF wait[p] >= Interval[p] - age THEN 2 * Seats[p] + 2 ELSE 2 * Seats[p]
Paced ==
  \A p \in Providers : \A age \in 0..(Interval[p] - 1) :
    recent[p][age] + Cardinality(Dues(p)) <= Allowed(p, age)

IInv == Shapes /\ Calls /\ FailsOnlyTwice

-----------------------------------------------------------------------------
(* There are seventeen rules. *)
LEMMA RulesDomain == ASSUME NEW x PROVE DOMAIN Rules(x) = 1..17
BY SMTT(60) DEF Rules

(* The first rule that applies is the one that counts. *)
LEMMA FirstRule ==
  ASSUME NEW x, NEW n \in 1..17, Rules(x)[n][1], \A j \in 1..(n - 1) : ~Rules(x)[j][1]
  PROVE  ClassifyResponse(x) = Rules(x)[n][2]
<1> DEFINE rules == Rules(x)
           isFirst(i) == rules[i][1] /\ \A j \in 1..(i - 1) : ~rules[j][1]
<1>1. DOMAIN rules = 1..17
  BY RulesDomain
<1> HIDE DEF rules
<1>2. rules[n][1] /\ \A j \in 1..(n - 1) : ~rules[j][1]
  BY DEF rules
<1>3. ASSUME NEW i \in 1..17, isFirst(i) PROVE i = n
  <2>1. ~(i < n) /\ ~(n < i)
    <3>1. i < n => i \in 1..(n - 1)
      OBVIOUS
    <3>2. n < i => n \in 1..(i - 1)
      OBVIOUS
    <3>3. QED BY <1>2, <1>3, <3>1, <3>2
  <2>2. QED BY <2>1
<1>4. isFirst(n)
  BY <1>2
<1>5. (CHOOSE i \in DOMAIN rules : isFirst(i)) = n
  <2> HIDE DEF isFirst
  <2>1. QED BY <1>1, <1>3, <1>4
<1>6. QED BY <1>5 DEF ClassifyResponse, rules

(* The three responses that are not the Offering's own are classified by   *)
(* the one rule they meet first.                                           *)
LEMMA TimedOutMeans == ClassifyResponse(TimedOut) = Means("self_healing", "timeout")
<1>1. Rules(TimedOut)[1][1]
  BY DEF Rules, TimedOut
<1>2. Rules(TimedOut)[1][2] = Means("self_healing", "timeout")
  BY DEF Rules
<1>3. QED BY <1>1, <1>2, FirstRule

LEMMA EmptyStreamMeans ==
  ClassifyResponse(EmptyStream) = Means("needs_operator", "malformed_response")
<1>1. ~Rules(EmptyStream)[1][1] /\ ~Rules(EmptyStream)[2][1] /\ Rules(EmptyStream)[3][1]
  BY DEF Rules, EmptyStream, Bare, TimedOut, Failed
<1>2. Rules(EmptyStream)[3][2] = Means("needs_operator", "malformed_response")
  BY DEF Rules
<1>3. QED BY <1>1, <1>2, FirstRule

LEMMA LimitedMeans ==
  ClassifyResponse(Bare("limited")) = Means("inconclusive", "rate_limited")
<1> DEFINE x == Bare("limited")
<1>1. x.status = "limited" /\ x.words = {} /\ x.reset = FALSE /\ Failed(x)
  BY DEF Bare, TimedOut, Failed
<1> HIDE DEF x
<1>2. /\ ~Rules(x)[1][1] /\ ~Rules(x)[2][1] /\ ~Rules(x)[3][1] /\ ~Rules(x)[4][1]
      /\ ~Rules(x)[5][1] /\ ~Rules(x)[6][1] /\ ~Rules(x)[7][1] /\ ~Rules(x)[8][1]
      /\ ~Rules(x)[9][1] /\ ~Rules(x)[10][1] /\ ~Rules(x)[11][1] /\ ~Rules(x)[12][1]
      /\ ~Rules(x)[13][1]
  BY <1>1 DEF Rules
<1>3. Rules(x)[14][1]
  BY <1>1 DEF Rules
<1>4. Rules(x)[14][2] = Means("inconclusive", "rate_limited")
  BY <1>1 DEF Rules, RateLimit
<1>5. QED BY <1>2, <1>3, <1>4, FirstRule DEF x

(* The last rule applies to all, so some rule is the first that applies.   *)
LEMMA BucketType == ASSUME NEW x PROVE ClassifyResponse(x).bucket \in Bucket
<1> DEFINE applies == {n \in 1..17 : Rules(x)[n][1]}
<1>1. 17 \in applies /\ applies \subseteq Nat
  <2>1. Rules(x)[17][1]
    BY DEF Rules
  <2>2. QED BY <2>1
<1>2. PICK n \in applies : \A j \in applies : ~ (<<j, n>> \in OpToRel(<, Nat))
  BY <1>1, WFMin, NatLessThanWellFounded
<1>3. \A j \in 1..(n - 1) : ~Rules(x)[j][1]
  <2>1. ASSUME NEW i \in Nat, NEW j \in Nat, i < j PROVE <<i, j>> \in OpToRel(<, Nat)
    BY <2>1, Zenon DEF OpToRel
  <2>2. ASSUME NEW j \in 1..(n - 1) PROVE ~Rules(x)[j][1]
    <3>1. n \in Nat /\ j \in Nat /\ j < n /\ j \in 1..17
      BY <1>1
    <3>2. j \notin applies
      BY <1>2, <2>1, <3>1
    <3>3. QED BY <3>1, <3>2
  <2>3. QED BY <2>2
<1>4. ClassifyResponse(x) = Rules(x)[n][2]
  BY <1>3, FirstRule
<1>5. /\ \A b \in Bucket : \A q : Means(b, q).bucket \in Bucket
      /\ RateLimit(x).bucket \in Bucket
  BY DEF RateLimit, Means, Bucket
<1>6. Rules(x)[n][2].bucket \in Bucket
  <2>1. CASE n = 1
    <3>1. Rules(x)[1][2] = Means("self_healing", "timeout")
      BY DEF Rules
    <3>2. QED BY <1>5, <2>1, <3>1 DEF Bucket
  <2>2. CASE n = 2
    <3>1. Rules(x)[2][2] = Means("inconclusive", "unmeasured")
      BY DEF Rules
    <3>2. QED BY <1>5, <2>2, <3>1 DEF Bucket
  <2>3. CASE n = 3
    <3>1. Rules(x)[3][2] = Means("needs_operator", "malformed_response")
      BY DEF Rules
    <3>2. QED BY <1>5, <2>3, <3>1 DEF Bucket
  <2>4. CASE n = 4
    <3>1. Rules(x)[4][2] = Means("answered", "answered")
      BY DEF Rules
    <3>2. QED BY <1>5, <2>4, <3>1 DEF Bucket
  <2>5. CASE n = 5
    <3>1. Rules(x)[5][2] = Means("gone", "identifier_gone")
      BY DEF Rules
    <3>2. QED BY <1>5, <2>5, <3>1 DEF Bucket
  <2>6. CASE n = 6
    <3>1. Rules(x)[6][2] = Means("inconclusive", "alias_not_served")
      BY DEF Rules
    <3>2. QED BY <1>5, <2>6, <3>1 DEF Bucket
  <2>7. CASE n = 7
    <3>1. Rules(x)[7][2] = Means("inconclusive", "unmeasured")
      BY DEF Rules
    <3>2. QED BY <1>5, <2>7, <3>1 DEF Bucket
  <2>8. CASE n = 8
    <3>1. Rules(x)[8][2] = Means("needs_operator", "identifier_gone")
      BY DEF Rules
    <3>2. QED BY <1>5, <2>8, <3>1 DEF Bucket
  <2>9. CASE n = 9
    <3>1. Rules(x)[9][2] = Means("needs_operator", "plan_entitlement_refused")
      BY DEF Rules
    <3>2. QED BY <1>5, <2>9, <3>1 DEF Bucket
  <2>10. CASE n = 10
    <3>1. Rules(x)[10][2] = Means("needs_operator", "quota_exhausted")
      BY DEF Rules
    <3>2. QED BY <1>5, <2>10, <3>1 DEF Bucket
  <2>11. CASE n = 11
    <3>1. Rules(x)[11][2] = Means("self_healing", "quota_exhausted")
      BY DEF Rules
    <3>2. QED BY <1>5, <2>11, <3>1 DEF Bucket
  <2>12. CASE n = 12
    <3>1. Rules(x)[12][2] = Means("self_healing", "gateway_error")
      BY DEF Rules
    <3>2. QED BY <1>5, <2>12, <3>1 DEF Bucket
  <2>13. CASE n = 13
    <3>1. Rules(x)[13][2] = RateLimit(x)
      BY DEF Rules
    <3>2. QED BY <1>5, <2>13, <3>1 DEF Bucket
  <2>14. CASE n = 14
    <3>1. Rules(x)[14][2] = RateLimit(x)
      BY DEF Rules
    <3>2. QED BY <1>5, <2>14, <3>1 DEF Bucket
  <2>15. CASE n = 15
    <3>1. Rules(x)[15][2] = Means("self_healing", "gateway_error")
      BY DEF Rules
    <3>2. QED BY <1>5, <2>15, <3>1 DEF Bucket
  <2>16. CASE n = 16
    <3>1. Rules(x)[16][2] = Means("needs_operator", "authentication_failed")
      BY DEF Rules
    <3>2. QED BY <1>5, <2>16, <3>1 DEF Bucket
  <2>17. CASE n = 17
    <3>1. Rules(x)[17][2] = Means("needs_operator", "unrecognized_failure")
      BY DEF Rules
    <3>2. QED BY <1>5, <2>17, <3>1 DEF Bucket
  <2>18. QED
    BY <2>1, <2>2, <2>3, <2>4, <2>5, <2>6, <2>7, <2>8, <2>9, <2>10, <2>11, <2>12, <2>13, <2>14,
       <2>15, <2>16, <2>17
<1>7. QED BY <1>4, <1>6

-----------------------------------------------------------------------------
(* Type correctness, action by action.                                     *)
LEMMA TargetsType ==
  ASSUME ProbingAssumption
  PROVE  /\ Probed \subseteq Targets /\ None \notin Probed
         /\ \A i \in DOMAIN Worklist : Worklist[i] \in Probed
         /\ DOMAIN Worklist \subseteq Nat
         /\ \A t \in Targets : ProviderOf[t] \in Providers
         /\ \A p \in Providers : \A i \in 1..Seats[p] : <<p, i>> \in Worker
         /\ \A w \in Worker : /\ Prov(w) \in Providers /\ w[2] \in 1..Seats[Prov(w)]
                              /\ w = <<Prov(w), w[2]>>
BY DEF ProbingAssumption, Probed, Providers, Worker, Prov

LEMMA ResponseType ==
  /\ TimedOut \in Response /\ EmptyStream \in Response /\ Bare("limited") \in Response
BY DEF TimedOut, EmptyStream, Bare, Response, Status

LEMMA RespondType ==
  ASSUME ProbingAssumption, NEW t \in Targets, NEW allowed
  PROVE  Respond(t, allowed) \in Response /\ Respond(t, allowed) # None
BY ResponseType DEF Respond, ProbingAssumption

LEMMA InitType == ASSUME ProbingAssumption, Init PROVE TypeOK
<1>1. queue \in [Providers -> SUBSET DOMAIN Worklist]
  BY DEF Init
<1>2. /\ target \in [Worker -> Probed \cup {None}] /\ stage \in [Worker -> Stage]
      /\ retry \in [Worker -> Retry] /\ reply \in [Worker -> Response \cup {None}]
      /\ \A w \in Worker : target[w] = None /\ stage[w] = "idle" /\ reply[w] = None
  BY DEF Init, Stage, Retry
<1>3. /\ left \in [Worker -> 0..Backoff] /\ wait \in [Providers -> Nat]
      /\ \A p \in Providers : wait[p] <= Interval[p]
      /\ since \in [Providers -> Nat] /\ \A p \in Providers : since[p] <= Patience[p]
  BY DEF Init, ProbingAssumption
<1>4. DOMAIN recent = Providers /\ \A p \in Providers : recent[p] \in [0..(Interval[p] - 1) -> Nat]
  BY DEF Init
<1>5. /\ excluded \subseteq Targets /\ latest \in [SmokeRule -> Probed \cup {None}]
      /\ checks \in [SmokeRule -> Check] /\ raised = FALSE /\ limited \subseteq Probed
  BY DEF Init, Check, ProbingAssumption
<1>6. DOMAIN outcome = Probed /\ (\A t \in Probed : outcome[t] = None) /\ phase = "sweeping"
  BY DEF Init
<1>7. QED BY <1>1, <1>2, <1>3, <1>4, <1>5, <1>6 DEF TypeOK

LEMMA TickType == ASSUME ProbingAssumption, TypeOK, Tick PROVE TypeOK'
<1>1. /\ wait' \in [Providers -> Nat] /\ since' \in [Providers -> Nat]
      /\ \A p \in Providers : wait'[p] <= Interval[p] /\ since'[p] <= Patience[p]
  BY DEF TypeOK, Tick, Less, ProbingAssumption
<1>2. left' \in [Worker -> 0..Backoff]
  BY DEF TypeOK, Tick, Less, ProbingAssumption
<1>3. /\ DOMAIN recent' = Providers
      /\ \A p \in Providers : recent'[p] \in [0..(Interval[p] - 1) -> Nat]
  <2>1. DOMAIN recent' = Providers
    BY DEF Tick
  <2>2. ASSUME NEW p \in Providers PROVE recent'[p] \in [0..(Interval[p] - 1) -> Nat]
    <3>1. recent[p] \in [0..(Interval[p] - 1) -> Nat] /\ Interval[p] \in Nat
      BY DEF TypeOK, ProbingAssumption
    <3>2. recent'[p] = [age \in 0..(Interval[p] - 1) |->
                          IF age = 0 THEN 0 ELSE recent[p][age - 1]]
      BY <3>1 DEF Tick
    <3>3. \A age \in 0..(Interval[p] - 1) : age = 0 \/ age - 1 \in 0..(Interval[p] - 1)
      BY <3>1
    <3>4. \A age \in 0..(Interval[p] - 1) : (IF age = 0 THEN 0 ELSE recent[p][age - 1]) \in Nat
      BY <3>1, <3>3
    <3>5. QED BY <3>2, <3>4
  <2>3. QED BY <2>1, <2>2
<1>4. QED BY <1>1, <1>2, <1>3 DEF TypeOK, Tick, ends

LEMMA TakeType == ASSUME ProbingAssumption, TypeOK, NEW w \in Worker, Take(w) PROVE TypeOK'
<1>1. PICK i \in queue[Prov(w)] : /\ target' = [target EXCEPT ![w] = Worklist[i]]
                                 /\ queue' = [queue EXCEPT ![Prov(w)] = @ \ {i}]
  BY DEF Take
<1>2. Worklist[i] \in Probed /\ Worklist[i] # None
  BY TargetsType DEF TypeOK
<1>3. /\ queue' \in [Providers -> SUBSET DOMAIN Worklist]
      /\ target' \in [Worker -> Probed \cup {None}] /\ stage' \in [Worker -> Stage]
      /\ \A v \in Worker : (target'[v] = None) <=> (stage'[v] = "idle")
      /\ \A v \in Worker : (reply'[v] # None) <=> (stage'[v] = "called")
  <2>1. stage' = [stage EXCEPT ![w] = "queued"] /\ stage[w] = "idle" /\ UNCHANGED reply
    BY DEF Take
  <2>2. queue' \in [Providers -> SUBSET DOMAIN Worklist]
    BY <1>1 DEF TypeOK
  <2>3. stage' \in [Worker -> Stage] /\ target' \in [Worker -> Probed \cup {None}]
    BY <1>1, <1>2, <2>1 DEF TypeOK, Stage
  <2>4. \A v \in Worker : (target'[v] = None) <=> (stage'[v] = "idle")
    BY <1>1, <1>2, <2>1 DEF TypeOK
  <2>5. \A v \in Worker : (reply'[v] # None) <=> (stage'[v] = "called")
    BY <2>1 DEF TypeOK
  <2>6. QED BY <2>2, <2>3, <2>4, <2>5
<1>4. QED BY <1>3 DEF TypeOK, Take, clocks, ends

LEMMA WaitTurnType ==
  ASSUME ProbingAssumption, TypeOK, NEW w \in Worker, WaitTurn(w) PROVE TypeOK'
<1>1. /\ stage' \in [Worker -> Stage]
      /\ \A v \in Worker : (target'[v] = None) <=> (stage'[v] = "idle")
      /\ \A v \in Worker : (reply'[v] # None) <=> (stage'[v] = "called")
  BY DEF WaitTurn, TypeOK, Stage
<1>2. wait' \in [Providers -> Nat] /\ \A p \in Providers : wait'[p] <= Interval[p]
  BY TargetsType DEF WaitTurn, TypeOK, ProbingAssumption
<1>3. QED BY <1>1, <1>2 DEF TypeOK, WaitTurn, ends

(* A call that starts is counted at every age. *)
LEMMA StartedType ==
  ASSUME ProbingAssumption, TypeOK, NEW p \in Providers, Started(p)
  PROVE  /\ since' \in [Providers -> Nat] /\ \A q \in Providers : since'[q] <= Patience[q]
         /\ DOMAIN recent' = Providers
         /\ \A q \in Providers : recent'[q] \in [0..(Interval[q] - 1) -> Nat]
         /\ \A age \in 0..(Interval[p] - 1) : recent'[p][age] = recent[p][age] + 1
         /\ \A q \in Providers \ {p} : recent'[q] = recent[q]
<1>1. /\ since' \in [Providers -> Nat] /\ \A q \in Providers : since'[q] <= Patience[q]
  BY DEF Started, TypeOK, ProbingAssumption
<1>2. DOMAIN recent = Providers /\ recent[p] \in [0..(Interval[p] - 1) -> Nat]
  BY DEF TypeOK
<1>3. /\ DOMAIN recent' = Providers
      /\ recent'[p] = [age \in 0..(Interval[p] - 1) |-> recent[p][age] + 1]
      /\ \A q \in Providers \ {p} : recent'[q] = recent[q]
  BY <1>2 DEF Started
<1>4. recent'[p] \in [0..(Interval[p] - 1) -> Nat]
  BY <1>2, <1>3
<1>5. \A q \in Providers : recent'[q] \in [0..(Interval[q] - 1) -> Nat]
  BY <1>3, <1>4 DEF TypeOK
<1>6. QED BY <1>1, <1>3, <1>5

LEMMA CallType == ASSUME ProbingAssumption, TypeOK, NEW w \in Worker, Call(w) PROVE TypeOK'
<1>1. target[w] \in Probed /\ target[w] \in Targets
  BY TargetsType DEF TypeOK, Call
<1>2. Respond(target[w], retry[w]) \in Response /\ Respond(target[w], retry[w]) # None
  BY <1>1, RespondType
<1>3. /\ stage' \in [Worker -> Stage] /\ reply' \in [Worker -> Response \cup {None}]
      /\ \A v \in Worker : (target'[v] = None) <=> (stage'[v] = "idle")
      /\ \A v \in Worker : (reply'[v] # None) <=> (stage'[v] = "called")
  BY <1>2 DEF Call, TypeOK, Stage
<1>4. limited' \subseteq Probed
  BY <1>1 DEF Call, TypeOK
<1>5. /\ since' \in [Providers -> Nat] /\ \A q \in Providers : since'[q] <= Patience[q]
      /\ DOMAIN recent' = Providers
      /\ \A q \in Providers : recent'[q] \in [0..(Interval[q] - 1) -> Nat]
  BY StartedType, TargetsType DEF Call
<1>6. QED BY <1>3, <1>4, <1>5 DEF TypeOK, Call, ends

LEMMA IdleType ==
  ASSUME TypeOK, NEW w \in Worker, Idle(w), reply' = [reply EXCEPT ![w] = None]
  PROVE  /\ target' \in [Worker -> Probed \cup {None}] /\ stage' \in [Worker -> Stage]
         /\ retry' \in [Worker -> Retry] /\ left' \in [Worker -> 0..Backoff]
         /\ reply' \in [Worker -> Response \cup {None}]
         /\ \A v \in Worker : (target'[v] = None) <=> (stage'[v] = "idle")
         /\ \A v \in Worker : (reply'[v] # None) <=> (stage'[v] = "called")
BY DEF Idle, TypeOK, Stage, Retry

LEMMA RaiseType == ASSUME ProbingAssumption, TypeOK, NEW w \in Worker, Raise(w) PROVE TypeOK'
<1>1. reply[w] = None /\ reply' = reply /\ Idle(w)
  BY DEF Raise, TypeOK
<1>2. reply' = [reply EXCEPT ![w] = None]
  BY <1>1 DEF TypeOK
<1>3. QED BY <1>1, <1>2, IdleType DEF TypeOK, Raise, clocks

LEMMA HearType == ASSUME ProbingAssumption, TypeOK, NEW w \in Worker, Hear(w) PROVE TypeOK'
<1> DEFINE t == target[w]
           what == ClassifyResponse(reply[w])
           again == MayRetry(w) /\ SecondTry(what) # "none"
<1>1. t \in Probed
  BY DEF TypeOK, Hear
<1>2. reply' = [reply EXCEPT ![w] = None] /\ stage[w] = "called" /\ t # None
  BY DEF Hear, TypeOK
<1>3. CASE again
  <2>1. SecondTry(what) \in Retry
    BY DEF SecondTry, Retry
  <2>2. /\ retry' = [retry EXCEPT ![w] = SecondTry(what)]
        /\ left' = [left EXCEPT ![w] = IF SecondTry(what) = "same" THEN Backoff ELSE 0]
        /\ stage' = [stage EXCEPT ![w] = "calling"]
        /\ UNCHANGED <<target, outcome, latest>>
    BY <1>3 DEF Hear
  <2> HIDE DEF what
  <2>3. retry' \in [Worker -> Retry] /\ left' \in [Worker -> 0..Backoff]
    BY <2>1, <2>2 DEF TypeOK, ProbingAssumption
  <2>4. /\ stage' \in [Worker -> Stage] /\ reply' \in [Worker -> Response \cup {None}]
        /\ \A v \in Worker : (target'[v] = None) <=> (stage'[v] = "idle")
        /\ \A v \in Worker : (reply'[v] # None) <=> (stage'[v] = "called")
    BY <1>2, <2>2 DEF TypeOK, Stage
  <2>5. QED BY <2>2, <2>3, <2>4 DEF TypeOK, Hear, clocks
<1>4. CASE ~again
  <2>1. /\ outcome' = [outcome EXCEPT ![t] = what]
        /\ latest' = IF what.bucket = "answered" THEN [latest EXCEPT ![RuleOf[t]] = t] ELSE latest
        /\ Idle(w)
    BY <1>4 DEF Hear
  <2>2. what.bucket \in Bucket
    BY BucketType
  <2> HIDE DEF what
  <2>3. DOMAIN outcome' = Probed
        /\ \A u \in Probed : outcome'[u] = None \/ outcome'[u].bucket \in Bucket
    BY <2>1, <2>2 DEF TypeOK
  <2>4. latest' \in [SmokeRule -> Probed \cup {None}]
    BY <1>1, <2>1 DEF TypeOK
  <2>5. QED BY <1>2, <2>1, <2>3, <2>4, IdleType DEF TypeOK, Hear, clocks
<1>5. QED BY <1>3, <1>4

LEMMA SmokeType ==
  ASSUME ProbingAssumption, TypeOK, NEW r \in SmokeRule, Smoke(r) PROVE TypeOK'
<1>1. checks' \in [SmokeRule -> Check]
  <2>1. ASSUME NEW what PROVE CheckStatus(what) \in Check
    BY DEF CheckStatus, Check
  <2>2. "unverified" \in Check /\ checks \in [SmokeRule -> Check]
    BY DEF Check, TypeOK
  <2>3. \/ checks' = [checks EXCEPT ![r] = "unverified"]
        \/ \E what : checks' = [checks EXCEPT ![r] = CheckStatus(what)]
    BY DEF Smoke
  <2>4. \E c \in Check : checks' = [checks EXCEPT ![r] = c]
    BY <2>1, <2>2, <2>3
  <2>5. QED BY <2>2, <2>4
<1>2. since' \in [Providers -> Nat] /\ \A p \in Providers : since'[p] <= Patience[p]
  <2>1. since' = since \/ \E q \in Providers : since' = [since EXCEPT ![q] = 0]
    <3>1. PickHealthiest(r) \subseteq Targets
      BY DEF PickHealthiest, Healthy
    <3>2. QED BY <3>1, TargetsType DEF Smoke
  <2>2. /\ since \in [Providers -> Nat] /\ \A p \in Providers : since[p] <= Patience[p]
        /\ Patience \in [Providers -> Nat]
    BY DEF TypeOK, ProbingAssumption
  <2>3. CASE since' = since
    BY <2>2, <2>3
  <2>4. CASE \E q \in Providers : since' = [since EXCEPT ![q] = 0]
    <3>1. PICK q \in Providers : since' = [since EXCEPT ![q] = 0]
      BY <2>4
    <3>2. QED BY <2>2, <3>1
  <2>5. QED BY <2>1, <2>3, <2>4
<1>3. QED BY <1>1, <1>2 DEF TypeOK, Smoke, threads, ends

LEMMA TypeStep == ASSUME ProbingAssumption, TypeOK, [Next]_vars PROVE TypeOK'
<1>1. ASSUME NEW w \in Worker, Probe(w) PROVE TypeOK'
  BY <1>1, TakeType, WaitTurnType, CallType, RaiseType, HearType DEF Probe
<1>2. CASE SweepDone
  <2>1. phase' \in {"sweeping", "smoking", "over"} /\ excluded' \subseteq Targets
    BY <1>2 DEF SweepDone, TypeOK
  <2>2. QED BY <1>2, <2>1 DEF TypeOK, SweepDone, threads, clocks, ends
<1>3. CASE SmokeDone
  BY <1>3 DEF TypeOK, SmokeDone, threads, clocks, ends
<1>4. CASE SmokeCommand
  BY <1>4 DEF TypeOK, SmokeCommand, threads, clocks, Check
<1>5. CASE UNCHANGED vars
  BY <1>5 DEF TypeOK, vars, threads, clocks, ends
<1>6. QED BY <1>1, <1>2, <1>3, <1>4, <1>5, TickType, SmokeType DEF Next, Work

(* Whatever the providers answer and however the threads interleave, every *)
(* outcome is one the classification knows, only a thread at work has a    *)
(* target, and no clock runs past its interval.                            *)
THEOREM TypeCorrect == Spec => []TypeOK
<1>1. Init => TypeOK
  BY ProbingAssumption, InitType
<1>2. TypeOK /\ [Next]_vars => TypeOK'
  BY ProbingAssumption, TypeStep
<1>3. QED BY <1>1, <1>2, PTL DEF Spec

-----------------------------------------------------------------------------
(* A thread that an action leaves alone, and the outcomes it leaves alone. *)
LEMMA KeptCall ==
  ASSUME NEW w, CallIs(w), limited \subseteq limited',
         target'[w] = target[w], stage'[w] = stage[w],
         retry'[w] = retry[w], reply'[w] = reply[w]
  PROVE  CallIs(w)'
BY DEF CallIs, RetryIsFor, ReplyIs

LEMMA KeptOutcomes ==
  ASSUME FailsOnlyTwice, outcome' = outcome, limited \subseteq limited'
  PROVE  FailsOnlyTwice'
BY DEF FailsOnlyTwice

LEMMA InitIInv == Init => IInv
<1> SUFFICES ASSUME Init PROVE IInv
  OBVIOUS
<1>1. Shapes
  BY DEF Init, Shapes
<1>2. Calls
  BY DEF Init, Calls, CallIs, RetryIsFor
<1>3. FailsOnlyTwice
  BY DEF Init, FailsOnlyTwice
<1>4. QED BY <1>1, <1>2, <1>3 DEF IInv

(* A thread takes a target, or gets its turn: it has had no retry. *)
LEMMA TakeStep == ASSUME NEW w \in Worker, IInv, Take(w) PROVE IInv'
<1>1. Shapes'
  BY DEF IInv, Shapes, Take, ends
<1>2. Calls'
  <2> SUFFICES ASSUME NEW v \in Worker PROVE CallIs(v)'
    BY DEF Calls
  <2>1. CASE v = w
    BY <2>1 DEF IInv, Shapes, Calls, CallIs, RetryIsFor, Take
  <2>2. CASE v # w
    BY <2>2, KeptCall DEF IInv, Shapes, Calls, Take
  <2>3. QED BY <2>1, <2>2
<1>3. FailsOnlyTwice'
  BY KeptOutcomes DEF IInv, Take, ends
<1>4. QED BY <1>1, <1>2, <1>3 DEF IInv

LEMMA WaitTurnStep == ASSUME NEW w \in Worker, IInv, WaitTurn(w) PROVE IInv'
<1>1. Shapes'
  BY DEF IInv, Shapes, WaitTurn, ends
<1>2. Calls'
  <2> SUFFICES ASSUME NEW v \in Worker PROVE CallIs(v)'
    BY DEF Calls
  <2>1. CASE v = w
    BY <2>1 DEF IInv, Shapes, Calls, CallIs, RetryIsFor, WaitTurn
  <2>2. CASE v # w
    BY <2>2, KeptCall DEF IInv, Shapes, Calls, WaitTurn
  <2>3. QED BY <2>1, <2>2
<1>3. FailsOnlyTwice'
  BY KeptOutcomes DEF IInv, WaitTurn, ends
<1>4. QED BY <1>1, <1>2, <1>3 DEF IInv

(* What a call gets is one of the four responses of ReplyIs. *)
LEMMA CallStep == ASSUME NEW w \in Worker, IInv, Call(w) PROVE IInv'
<1>1. Shapes'
  BY DEF IInv, Shapes, Call, ends
<1>2. limited \subseteq limited'
  BY DEF Call
<1>3. Calls'
  <2> SUFFICES ASSUME NEW v \in Worker PROVE CallIs(v)'
    BY DEF Calls
  <2>1. CASE v = w
    <3>1. /\ reply'[w] = Respond(target[w], retry[w])
          /\ target' = target /\ retry' = retry
          /\ reply'[w] = Bare("limited") => target[w] \in limited'
      BY DEF IInv, Shapes, Call
    <3>2. ReplyIs(w)'
      BY <3>1 DEF ReplyIs, Respond
    <3>3. stage'[w] = "called" /\ RetryIsFor(w)'
      BY <1>2, <3>1 DEF IInv, Shapes, Calls, CallIs, RetryIsFor, Call
    <3>4. QED BY <2>1, <3>2, <3>3 DEF CallIs
  <2>2. CASE v # w
    BY <1>2, <2>2, KeptCall DEF IInv, Shapes, Calls, Call
  <2>3. QED BY <2>1, <2>2
<1>4. FailsOnlyTwice'
  BY <1>2, KeptOutcomes DEF IInv, Call, ends
<1>5. QED BY <1>1, <1>3, <1>4 DEF IInv

(* A thread that is done starts its next target without a retry. *)
LEMMA IdleCalls ==
  ASSUME NEW w \in Worker, IInv, Idle(w), limited' = limited,
         \A v \in Worker \ {w} : reply'[v] = reply[v]
  PROVE  Calls'
<1> SUFFICES ASSUME NEW v \in Worker PROVE CallIs(v)'
  BY DEF Calls
<1>1. CASE v = w
  BY <1>1 DEF IInv, Shapes, CallIs, RetryIsFor, Idle
<1>2. CASE v # w
  BY <1>2, KeptCall DEF IInv, Shapes, Calls, Idle
<1>3. QED BY <1>1, <1>2

LEMMA RaiseStep == ASSUME NEW w \in Worker, IInv, Raise(w) PROVE IInv'
<1>1. Shapes'
  BY DEF IInv, Shapes, Raise, Idle
<1>2. Calls'
  BY IdleCalls DEF Raise
<1>3. FailsOnlyTwice'
  BY KeptOutcomes DEF IInv, Raise
<1>4. QED BY <1>1, <1>2, <1>3 DEF IInv

-----------------------------------------------------------------------------
(* The retry of a first call is for what that call met. *)
LEMMA RetryStep ==
  ASSUME NEW w \in Worker, ReplyIs(w), retry[w] = "none"
  PROVE  \/ SecondTry(ClassifyResponse(reply[w])) = "same" /\ target[w] \in limited
         \/ reply[w] = FirstReply(target[w])
<1>1. CASE reply[w] = Bare("limited") /\ target[w] \in limited
  <2>1. SecondTry(Means("inconclusive", "rate_limited")) = "same"
    BY DEF SecondTry
  <2>2. QED BY <1>1, <2>1, LimitedMeans
<1>2. CASE reply[w] # Bare("limited") \/ target[w] \notin limited
  BY <1>2 DEF ReplyIs, FirstReply
<1>3. QED BY <1>1, <1>2

(* The bucket a response that ends a Probe puts its target in. *)
LEMMA EndIsFair ==
  ASSUME NEW w \in Worker, ReplyIs(w), RetryIsFor(w),
         ~(MayRetry(w) /\ SecondTry(ClassifyResponse(reply[w])) # "none"),
         ClassifyResponse(reply[w]).bucket \in Failing
  PROVE  LET t == target[w] IN
         \/ ClassifyResponse(Answer[t]).bucket \in Failing
         \/ t \in Slow \cap Reasoning
         \/ t \in (Slow \cup Reasoning) \cap limited
<1> DEFINE t == target[w]
<1>1. CASE reply[w] = Bare("limited")
  <2>1. ClassifyResponse(reply[w]).bucket = "inconclusive"
    BY <1>1, LimitedMeans DEF Means
  <2>2. QED BY <2>1 DEF Failing
<1>2. CASE reply[w] = TimedOut /\ t \in Slow /\ retry[w] # "timeout"
  <2>1. SecondTry(Means("self_healing", "timeout")) = "timeout"
    BY DEF SecondTry, Means
  <2>2. retry[w] # "none"
    BY <1>2, <2>1, TimedOutMeans DEF MayRetry
  <2>3. FirstReply(t) = TimedOut
    BY <1>2 DEF FirstReply
  <2>4. t \in limited
    BY <1>2, <2>1, <2>2, <2>3, TimedOutMeans DEF RetryIsFor
  <2>5. QED BY <1>2, <2>4
<1>3. CASE /\ reply[w] = EmptyStream /\ t \in Reasoning /\ Answer[t].choices
           /\ retry[w] # "max_tokens"
  <2>1. SecondTry(Means("needs_operator", "malformed_response")) = "max_tokens"
    BY DEF SecondTry, Means
  <2>2. retry[w] # "none"
    BY <1>3, <2>1, EmptyStreamMeans DEF MayRetry
  <2>3. t \in Slow \/ FirstReply(t) = EmptyStream
    BY <1>3 DEF FirstReply
  <2>4. t \in Slow \/ t \in limited
    BY <1>3, <2>1, <2>2, <2>3, EmptyStreamMeans DEF RetryIsFor
  <2>5. QED BY <1>3, <2>4
<1>4. CASE reply[w] = Answer[t]
  BY <1>4
<1>5. QED BY <1>1, <1>2, <1>3, <1>4 DEF ReplyIs

LEMMA HearStep == ASSUME NEW w \in Worker, IInv, Hear(w) PROVE IInv'
<1> DEFINE what == ClassifyResponse(reply[w])
           again == MayRetry(w) /\ SecondTry(what) # "none"
<1>1. /\ Shapes /\ Calls /\ FailsOnlyTwice
      /\ CallIs(w) /\ ReplyIs(w) /\ RetryIsFor(w)
  BY DEF IInv, Calls, CallIs, Hear
<1>2. /\ limited' = limited
      /\ reply' = [reply EXCEPT ![w] = None]
  BY DEF Hear
<1>3. CASE again
  <2>1. /\ retry' = [retry EXCEPT ![w] = SecondTry(what)]
        /\ stage' = [stage EXCEPT ![w] = "calling"]
        /\ target' = target /\ outcome' = outcome
    BY <1>3 DEF Hear
  <2>2. Shapes'
    BY <1>1, <1>2, <2>1 DEF Shapes
  <2>3. Calls'
    <3> SUFFICES ASSUME NEW v \in Worker PROVE CallIs(v)'
      BY DEF Calls
    <3>1. CASE v = w
      <4>1. stage'[w] = "calling" /\ retry'[w] = SecondTry(what) /\ target'[w] = target[w]
        BY <1>1, <2>1 DEF Shapes
      <4>2. \/ SecondTry(what) = "same" /\ target[w] \in limited
            \/ reply[w] = FirstReply(target[w])
        BY <1>1, <1>3, RetryStep DEF MayRetry
      <4>3. RetryIsFor(w)'
        BY <1>2, <4>1, <4>2 DEF RetryIsFor
      <4>4. QED BY <3>1, <4>1, <4>3 DEF CallIs
    <3>2. CASE v # w
      BY <1>1, <1>2, <2>1, <3>2, KeptCall DEF Shapes, Calls
    <3>3. QED BY <3>1, <3>2
  <2>4. FailsOnlyTwice'
    BY <1>1, <1>2, <2>1, KeptOutcomes
  <2>5. QED BY <2>2, <2>3, <2>4 DEF IInv
<1>4. CASE ~again
  <2>1. Idle(w) /\ outcome' = [outcome EXCEPT ![target[w]] = what]
    BY <1>4 DEF Hear
  <2>2. Shapes'
    BY <1>1, <1>2, <2>1 DEF Shapes, Idle
  <2>3. Calls'
    BY <1>1, <1>2, <2>1, IdleCalls DEF Shapes
  <2>4. FailsOnlyTwice'
    <3> SUFFICES ASSUME NEW t \in Probed, outcome'[t] # None, outcome'[t].bucket \in Failing
                 PROVE  \/ ClassifyResponse(Answer[t]).bucket \in Failing
                        \/ t \in Slow \cap Reasoning
                        \/ t \in (Slow \cup Reasoning) \cap limited'
      BY DEF FailsOnlyTwice
    <3>1. CASE t = target[w]
      <4>1. outcome'[t] = what
        BY <1>1, <2>1, <3>1 DEF Shapes
      <4>2. QED BY <1>1, <1>2, <1>4, <3>1, <4>1, EndIsFair
    <3>2. CASE t # target[w]
      <4>1. outcome'[t] = outcome[t]
        BY <1>1, <2>1, <3>2 DEF Shapes
      <4>2. QED BY <1>1, <1>2, <4>1 DEF FailsOnlyTwice
    <3>3. QED BY <3>1, <3>2
  <2>5. QED BY <2>2, <2>3, <2>4 DEF IInv
<1>5. QED BY <1>3, <1>4

-----------------------------------------------------------------------------
(* Every other action leaves threads, responses and outcomes alone. *)
LEMMA KeptAll ==
  ASSUME IInv, UNCHANGED <<target, stage, retry, reply, outcome, limited>>
  PROVE  IInv'
<1>1. Shapes'
  BY DEF IInv, Shapes
<1>2. Calls'
  BY KeptCall DEF IInv, Calls
<1>3. FailsOnlyTwice'
  BY KeptOutcomes DEF IInv
<1>4. QED BY <1>1, <1>2, <1>3 DEF IInv

LEMMA NextIInv == IInv /\ [Next]_vars => IInv'
<1> SUFFICES ASSUME IInv, [Next]_vars PROVE IInv'
  OBVIOUS
<1>1. ASSUME NEW w \in Worker, Probe(w) PROVE IInv'
  BY <1>1, TakeStep, WaitTurnStep, CallStep, RaiseStep, HearStep DEF Probe
<1>2. CASE Tick
  BY <1>2, KeptAll DEF Tick, ends
<1>3. CASE SweepDone
  BY <1>3, KeptAll DEF SweepDone, threads, ends
<1>4. CASE SmokeDone
  BY <1>4, KeptAll DEF SmokeDone, threads, ends
<1>5. ASSUME NEW r \in SmokeRule, Smoke(r) PROVE IInv'
  BY <1>5, KeptAll DEF Smoke, threads, ends
<1>6. CASE SmokeCommand
  BY <1>6, KeptAll DEF SmokeCommand, threads
<1>7. CASE UNCHANGED vars
  BY <1>7, KeptAll DEF vars, threads, ends
<1>8. QED BY <1>1, <1>2, <1>3, <1>4, <1>5, <1>6, <1>7 DEF Next, Work

(* A Probe reports an Offering failing only on the Offering's own account, *)
(* or for two troubles of which one retry can answer but one: whichever    *)
(* threads probe which targets, and however late they call.                *)
THEOREM FailsTwiceHolds == Spec => []FailsOnlyTwice
<1>1. IInv => FailsOnlyTwice
  BY DEF IInv
<1>2. QED BY <1>1, InitIInv, NextIInv, PTL DEF Spec

-----------------------------------------------------------------------------
(* How many calls threads may start without a turn: at most two each.      *)
LEMMA OwedType ==
  ASSUME TypeOK
  PROVE  \A w \in Worker : Owed(w) \in 0..2
BY DEF Owed

LEMMA DuesFinite ==
  ASSUME TypeOK, NEW p \in Providers
  PROVE  /\ IsFiniteSet(Dues(p)) /\ Cardinality(Dues(p)) \in Nat
         /\ Cardinality(Dues(p)) <= 2 * Seats[p]
<1> DEFINE all == (1..Seats[p]) \X {1, 2}
<1>1. Seats[p] \in Nat
  BY ProbingAssumption DEF ProbingAssumption
<1>2. IsFiniteSet(1..Seats[p]) /\ Cardinality(1..Seats[p]) = Seats[p]
  BY <1>1, FS_Interval, SMTT(30)
<1>3. IsFiniteSet({1, 2}) /\ Cardinality({1, 2}) = 2
  <2>1. {1, 2} = {1} \cup {2}
    OBVIOUS
  <2>2. IsFiniteSet({1}) /\ Cardinality({1}) = 1
    BY FS_Singleton
  <2>3. QED BY <2>1, <2>2, FS_AddElement, SMTT(30)
<1>4. IsFiniteSet(all) /\ Cardinality(all) = 2 * Seats[p]
  <2>1. ASSUME NEW S, IsFiniteSet(S), Cardinality(S) = Seats[p],
               NEW T, IsFiniteSet(T), Cardinality(T) = 2
        PROVE  IsFiniteSet(S \X T) /\ Cardinality(S \X T) = 2 * Seats[p]
    <3>1. IsFiniteSet(S \X T) /\ Cardinality(S \X T) = Cardinality(S) * Cardinality(T)
      BY <2>1, FS_Product
    <3>2. QED BY <1>1, <2>1, <3>1
  <2>2. QED BY <1>2, <1>3, <2>1
<1>5. Dues(p) \subseteq all
  BY DEF Dues
<1> HIDE DEF all
<1>6. IsFiniteSet(Dues(p)) /\ Cardinality(Dues(p)) <= Cardinality(all)
  BY <1>4, <1>5, FS_Subset
<1>7. Cardinality(Dues(p)) \in Nat
  BY <1>6, FS_CardinalityType
<1>8. QED BY <1>1, <1>4, <1>6, <1>7

(* A provider whose threads come to owe no more calls. *)
LEMMA FewerDues ==
  ASSUME TypeOK, NEW p \in Providers,
         \A i \in 1..Seats[p] : Owed(<<p, i>>)' <= Owed(<<p, i>>),
         \A i \in 1..Seats[p] : Owed(<<p, i>>)' \in 0..2
  PROVE  /\ Cardinality(Dues(p)') <= Cardinality(Dues(p)) /\ Cardinality(Dues(p)') \in Nat
<1>1. \A i \in 1..Seats[p] : Owed(<<p, i>>) \in 0..2
  BY OwedType, ProbingAssumption, TargetsType
<1>2. Dues(p)' \subseteq Dues(p)
  <2>1. SUFFICES ASSUME NEW due \in Dues(p)' PROVE due \in Dues(p)
    OBVIOUS
  <2>2. due \in (1..Seats[p]) \X {1, 2} /\ due[2] <= Owed(<<p, due[1]>>)'
    BY DEF Dues
  <2>3. due[1] \in 1..Seats[p] /\ due[2] \in {1, 2}
    BY <2>2
  <2>4. due[2] <= Owed(<<p, due[1]>>)
    BY <1>1, <2>2, <2>3
  <2>5. QED BY <2>2, <2>4 DEF Dues
<1>3. QED BY <1>2, DuesFinite, FS_Subset, FS_CardinalityType

(* The window one age wider holds what it held a second ago. *)
LEMMA PacedTick == ASSUME TypeOK, Paced, Tick PROVE Paced'
<1> SUFFICES ASSUME NEW p \in Providers, NEW age \in 0..(Interval[p] - 1)
             PROVE  recent'[p][age] + Cardinality(Dues(p)') <= Allowed(p, age)'
  BY DEF Paced
<1>1. /\ Interval[p] \in Nat \ {0} /\ Seats[p] \in Nat /\ wait[p] \in Nat
      /\ recent[p] \in [0..(Interval[p] - 1) -> Nat] /\ age \in Nat /\ age < Interval[p]
  BY ProbingAssumption DEF TypeOK, ProbingAssumption
<1>2. Dues(p)' = Dues(p)
  BY DEF Tick, Dues, Owed
<1>3. recent'[p][age] = IF age = 0 THEN 0 ELSE recent[p][age - 1]
  BY <1>1 DEF Tick, TypeOK
<1>4. wait'[p] = IF wait[p] = 0 THEN 0 ELSE wait[p] - 1
  BY DEF Tick, Less
<1>5. Cardinality(Dues(p)) \in Nat /\ Cardinality(Dues(p)) <= 2 * Seats[p]
  BY DuesFinite
<1>6. CASE age = 0
  BY <1>1, <1>2, <1>3, <1>5, <1>6 DEF Allowed
<1>7. CASE age # 0
  <2>1. age - 1 \in 0..(Interval[p] - 1)
    BY <1>1, <1>7
  <2>2. recent[p][age - 1] + Cardinality(Dues(p)) <= Allowed(p, age - 1)
    BY <2>1 DEF Paced
  <2>3. (wait[p] >= Interval[p] - (age - 1)) <=> (wait'[p] >= Interval[p] - age)
    BY <1>1, <1>4
  <2>4. Allowed(p, age)' = Allowed(p, age - 1)
    BY <2>3 DEF Allowed
  <2>5. QED BY <1>2, <1>3, <1>7, <2>2, <2>4
<1>8. QED BY <1>6, <1>7

(* What a step leaves to be shown that starts no call and gives no turn. *)
LEMMA PacedKept ==
  ASSUME TypeOK, Paced, UNCHANGED <<recent, wait>>,
         \A w \in Worker : Owed(w)' \in 0..2 /\ Owed(w)' <= Owed(w)
  PROVE  Paced'
<1> SUFFICES ASSUME NEW p \in Providers, NEW age \in 0..(Interval[p] - 1)
             PROVE  recent[p][age] + Cardinality(Dues(p)') <= Allowed(p, age)
  BY DEF Paced, Allowed
<1>1. /\ Interval[p] \in Nat /\ Seats[p] \in Nat /\ wait[p] \in Nat
      /\ recent[p][age] \in Nat
  BY ProbingAssumption DEF TypeOK, ProbingAssumption
<1>2. Cardinality(Dues(p)') <= Cardinality(Dues(p)) /\ Cardinality(Dues(p)') \in Nat
  BY ProbingAssumption, TargetsType, FewerDues
<1>3. Cardinality(Dues(p)) \in Nat
  BY DuesFinite
<1>4. recent[p][age] + Cardinality(Dues(p)) <= Allowed(p, age)
  BY DEF Paced
<1>5. Allowed(p, age) \in Nat
  BY <1>1 DEF Allowed
<1>6. QED BY <1>1, <1>2, <1>3, <1>4, <1>5

(* A turn allows two calls, and none older than the turn. *)
LEMMA PacedTurn ==
  ASSUME TypeOK, Paced, NEW w \in Worker, WaitTurn(w)
  PROVE  Paced'
<1> SUFFICES ASSUME NEW p \in Providers, NEW age \in 0..(Interval[p] - 1)
             PROVE  recent'[p][age] + Cardinality(Dues(p)') <= Allowed(p, age)'
  BY DEF Paced
<1>1. /\ Interval[p] \in Nat /\ Seats[p] \in Nat /\ wait[p] \in Nat
      /\ recent[p][age] \in Nat /\ age \in Nat /\ age < Interval[p]
  BY ProbingAssumption, SMTT(30) DEF TypeOK, ProbingAssumption
<1>2. recent' = recent /\ retry' = retry
      /\ stage' = [stage EXCEPT ![w] = "calling"]
      /\ wait[Prov(w)] = 0 /\ wait' = [wait EXCEPT ![Prov(w)] = Interval[Prov(w)]]
  BY DEF WaitTurn
<1>3. recent[p][age] + Cardinality(Dues(p)) <= Allowed(p, age)
  BY DEF Paced
<1>4. IsFiniteSet(Dues(p)) /\ Cardinality(Dues(p)) \in Nat
  BY DuesFinite
<1>5. \A v \in Worker \ {w} : stage'[v] = stage[v]
  BY <1>2 DEF TypeOK
<1>6. CASE p # Prov(w)
  <2>1. \A i \in 1..Seats[p] : <<p, i>> \in Worker \ {w}
    BY <1>6, ProbingAssumption, TargetsType DEF Prov
  <2>2. Dues(p)' = Dues(p)
    BY <1>2, <1>5, <2>1 DEF Dues, Owed
  <2>3. wait'[p] = wait[p]
    BY <1>2, <1>6 DEF TypeOK
  <2>4. Allowed(p, age)' = Allowed(p, age)
    BY <2>3 DEF Allowed
  <2>5. QED BY <1>2, <1>3, <2>2, <2>4
<1>7. CASE p = Prov(w)
  <2> DEFINE one == <<w[2], 1>>
             two == <<w[2], 2>>
  <2>1. \A i \in 1..Seats[p] : i = w[2] \/ (<<p, i>> \in Worker /\ <<p, i>> # w)
    BY <1>7, ProbingAssumption, TargetsType
  <2>2. \A i \in 1..Seats[p] : i # w[2] => Owed(<<p, i>>)' = Owed(<<p, i>>)
    BY <1>2, <1>5, <2>1 DEF Owed
  <2>3. Dues(p)' \subseteq (Dues(p) \cup {one}) \cup {two}
    <3>1. SUFFICES ASSUME NEW due \in Dues(p)', due # one, due # two PROVE due \in Dues(p)
      OBVIOUS
    <3>2. due \in (1..Seats[p]) \X {1, 2} /\ due[2] <= Owed(<<p, due[1]>>)'
      BY DEF Dues
    <3>3. due[1] \in 1..Seats[p] /\ due[1] # w[2]
      BY <3>1, <3>2
    <3>4. QED BY <2>2, <3>2, <3>3 DEF Dues
  <2> HIDE DEF one, two
  <2>4. IsFiniteSet(Dues(p) \cup {one})
        /\ Cardinality(Dues(p) \cup {one}) <= Cardinality(Dues(p)) + 1
        /\ Cardinality(Dues(p) \cup {one}) \in Nat
    BY <1>4, FS_AddElement
  <2> DEFINE more == Dues(p) \cup {one}
  <2>5. IsFiniteSet(more \cup {two}) /\ Cardinality(more \cup {two}) \in Nat
        /\ Cardinality(more \cup {two}) <= Cardinality(Dues(p)) + 2
    <3>1. IsFiniteSet(more) /\ Cardinality(more) \in Nat
          /\ Cardinality(more) <= Cardinality(Dues(p)) + 1
      BY <2>4
    <3> HIDE DEF more
    <3>2. IsFiniteSet(more \cup {two}) /\ Cardinality(more \cup {two}) \in Nat
          /\ Cardinality(more \cup {two}) <= Cardinality(more) + 1
      <4>1. IsFiniteSet(more \cup {two}) /\ Cardinality(more \cup {two}) =
              IF two \in more THEN Cardinality(more) ELSE Cardinality(more) + 1
        BY <3>1, FS_AddElement, Zenon
      <4>2. QED BY <3>1, <4>1
    <3>3. QED BY <1>4, <3>1, <3>2
  <2>6. Cardinality(Dues(p)') <= Cardinality((Dues(p) \cup {one}) \cup {two})
        /\ IsFiniteSet(Dues(p)')
    BY <2>3, <2>5, FS_Subset
  <2>7. Cardinality(Dues(p)') \in Nat
    BY <2>6, FS_CardinalityType
  <2>8. wait[p] = 0 /\ wait'[p] = Interval[p]
    BY <1>2, <1>7 DEF TypeOK
  <2>9. ~(wait[p] >= Interval[p] - age) /\ wait'[p] >= Interval[p] - age
    BY <1>1, <2>8
  <2>10. /\ Allowed(p, age) \in Nat /\ Allowed(p, age)' \in Nat
         /\ Allowed(p, age)' = Allowed(p, age) + 2
    BY <1>1, <2>8, <2>9 DEF Allowed
  <2>11. Cardinality(Dues(p)') <= Cardinality(Dues(p)) + 2
    BY <1>4, <2>5, <2>6, <2>7
  <2>12. QED BY <1>1, <1>2, <1>3, <1>4, <2>7, <2>10, <2>11
<1>8. QED BY <1>6, <1>7

(* A call is one of those its thread might start. *)
LEMMA PacedCall ==
  ASSUME TypeOK, Paced, NEW w \in Worker, Call(w)
  PROVE  Paced'
<1> SUFFICES ASSUME NEW p \in Providers, NEW age \in 0..(Interval[p] - 1)
             PROVE  recent'[p][age] + Cardinality(Dues(p)') <= Allowed(p, age)
  BY DEF Paced, Call, Allowed
<1>1. /\ Interval[p] \in Nat /\ Seats[p] \in Nat /\ wait[p] \in Nat
      /\ recent[p][age] \in Nat /\ Prov(w) \in Providers
  BY ProbingAssumption, TargetsType DEF TypeOK, ProbingAssumption
<1>2. /\ retry' = retry /\ stage[w] = "calling" /\ stage' = [stage EXCEPT ![w] = "called"]
      /\ Started(Prov(w))
  BY DEF Call
<1>3. recent[p][age] + Cardinality(Dues(p)) <= Allowed(p, age)
  BY DEF Paced
<1>4. IsFiniteSet(Dues(p)) /\ Cardinality(Dues(p)) \in Nat
  BY DuesFinite
<1>5. \A v \in Worker \ {w} : stage'[v] = stage[v]
  BY <1>2 DEF TypeOK
<1>6. CASE p # Prov(w)
  <2>1. \A i \in 1..Seats[p] : <<p, i>> \in Worker \ {w}
    BY <1>6, ProbingAssumption, TargetsType DEF Prov
  <2>2. Dues(p)' = Dues(p)
    BY <1>2, <1>5, <2>1 DEF Dues, Owed
  <2>3. recent'[p] = recent[p]
    BY <1>1, <1>2, <1>6, ProbingAssumption, StartedType
  <2>4. QED BY <1>3, <2>2, <2>3
<1>7. CASE p = Prov(w)
  <2> DEFINE due == <<w[2], Owed(w)>>
  <2>1. \A i \in 1..Seats[p] : i = w[2] \/ (<<p, i>> \in Worker /\ <<p, i>> # w)
    BY <1>7, ProbingAssumption, TargetsType
  <2>2. \A i \in 1..Seats[p] : i # w[2] => Owed(<<p, i>>)' = Owed(<<p, i>>)
    BY <1>2, <1>5, <2>1 DEF Owed
  <2>3. w = <<p, w[2]>> /\ w[2] \in 1..Seats[p] /\ stage'[w] = "called"
    BY <1>2, <1>7, ProbingAssumption, TargetsType DEF TypeOK
  <2>4. Owed(w) \in {1, 2} /\ Owed(w)' = Owed(w) - 1
    BY <1>2, <2>3 DEF Owed
  <2>5. due \in Dues(p)
    <3>1. due \in (1..Seats[p]) \X {1, 2}
      BY <2>3, <2>4
    <3>2. due[2] = Owed(w) /\ <<p, due[1]>> = w
      BY <2>3
    <3>3. due[2] <= Owed(<<p, due[1]>>)
      BY <2>4, <3>2
    <3>4. QED BY <3>1, <3>3 DEF Dues
  <2>6. Dues(p)' \subseteq Dues(p) \ {due}
    <3>1. SUFFICES ASSUME NEW other \in Dues(p)' PROVE other \in Dues(p) /\ other # due
      OBVIOUS
    <3>2. other \in (1..Seats[p]) \X {1, 2} /\ other[2] <= Owed(<<p, other[1]>>)'
      BY DEF Dues
    <3>3. CASE other[1] = w[2]
      <4>1. other[2] <= Owed(w) - 1 /\ other[2] \in {1, 2} /\ <<p, other[1]>> = w
        BY <2>3, <2>4, <3>2, <3>3
      <4>2. other[2] <= Owed(w) /\ other[2] # Owed(w)
        BY <2>4, <4>1
      <4>3. due[2] = Owed(w)
        OBVIOUS
      <4>4. QED BY <3>2, <4>1, <4>2, <4>3 DEF Dues
    <3>4. CASE other[1] # w[2]
      <4>1. other[2] <= Owed(<<p, other[1]>>)
        BY <2>2, <3>2, <3>4
      <4>2. QED BY <3>2, <3>4, <4>1 DEF Dues
    <3>5. QED BY <3>3, <3>4
  <2> HIDE DEF due
  <2>7. IsFiniteSet(Dues(p) \ {due}) /\ Cardinality(Dues(p) \ {due}) = Cardinality(Dues(p)) - 1
    BY <1>4, <2>5, FS_RemoveElement
  <2>8. Cardinality(Dues(p)') <= Cardinality(Dues(p)) - 1 /\ IsFiniteSet(Dues(p)')
    BY <2>6, <2>7, FS_Subset
  <2>9. Cardinality(Dues(p)') \in Nat
    BY <2>8, FS_CardinalityType
  <2>10. recent'[p][age] = recent[p][age] + 1
    BY <1>1, <1>2, <1>7, ProbingAssumption, StartedType
  <2>11. Allowed(p, age) \in Nat
    BY <1>1 DEF Allowed
  <2>12. recent[p][age] \in Nat
    BY <1>1
  <2>13. QED BY <1>3, <1>4, <2>8, <2>9, <2>10, <2>11, <2>12
<1>8. QED BY <1>6, <1>7

LEMMA PacedStep == ASSUME TypeOK, Paced, [Next]_vars PROVE Paced'
<1>1. ASSUME UNCHANGED <<recent, wait, stage, retry>> PROVE Paced'
  BY <1>1, PacedKept DEF Owed
<1>2. ASSUME NEW w \in Worker, Take(w) \/ Raise(w) \/ Hear(w) PROVE Paced'
  <2>1. UNCHANGED <<recent, wait>>
    BY <1>2 DEF Take, Raise, Hear, clocks
  <2>2. \A v \in Worker \ {w} : stage'[v] = stage[v] /\ retry'[v] = retry[v]
    BY <1>2 DEF Take, Raise, Hear, Idle, TypeOK
  <2>3. Owed(w)' \in 0..2 /\ Owed(w)' <= Owed(w)
    <3>1. CASE Take(w)
      BY <3>1 DEF Take, Owed, TypeOK
    <3>2. CASE Raise(w)
      BY <3>2 DEF Raise, Idle, Owed, TypeOK
    <3>3. CASE Hear(w)
      BY <3>3 DEF Hear, Idle, MayRetry, Owed, TypeOK
    <3>4. QED BY <1>2, <3>1, <3>2, <3>3
  <2>4. \A v \in Worker \ {w} : Owed(v)' \in 0..2 /\ Owed(v)' <= Owed(v)
    BY <2>2 DEF Owed
  <2>5. QED BY <2>1, <2>3, <2>4, PacedKept
<1>3. ASSUME NEW w \in Worker, Probe(w) PROVE Paced'
  BY <1>2, <1>3, PacedTurn, PacedCall DEF Probe
<1>4. SweepDone \/ SmokeDone \/ SmokeCommand => Paced'
  BY <1>1 DEF SweepDone, SmokeDone, SmokeCommand, threads, clocks
<1>5. \A r \in SmokeRule : Smoke(r) => Paced'
  BY <1>1 DEF Smoke, threads
<1>6. UNCHANGED vars => Paced'
  BY <1>1 DEF vars, threads, clocks
<1>7. QED BY <1>3, <1>4, <1>5, <1>6, PacedTick DEF Next, Work

LEMMA PacedInit == ASSUME Init PROVE Paced
<1> SUFFICES ASSUME NEW p \in Providers, NEW age \in 0..(Interval[p] - 1)
             PROVE  recent[p][age] + Cardinality(Dues(p)) <= Allowed(p, age)
  BY DEF Paced
<1>1. TypeOK /\ recent[p][age] = 0 /\ wait[p] = 0 /\ Interval[p] \in Nat /\ Seats[p] \in Nat
  BY ProbingAssumption, InitType DEF Init, ProbingAssumption
<1>2. Cardinality(Dues(p)) \in Nat /\ Cardinality(Dues(p)) <= 2 * Seats[p]
  BY <1>1, DuesFinite
<1>3. QED BY <1>1, <1>2 DEF Allowed

(* However late a provider's threads call after their turns, and whatever  *)
(* they retry, no interval sees more than two calls for each of them and   *)
(* for the one turn that falls into it.                                    *)
THEOREM BurstBoundedHolds == Spec => []BurstBounded
<1>1. Init => TypeOK /\ Paced
  BY ProbingAssumption, InitType, PacedInit
<1>2. TypeOK /\ Paced /\ [Next]_vars => (TypeOK /\ Paced)'
  BY ProbingAssumption, TypeStep, PacedStep
<1>3. TypeOK /\ Paced => BurstBounded
  <2>1. SUFFICES ASSUME TypeOK, Paced, NEW p \in Providers
                 PROVE  recent[p][Interval[p] - 1] <= 2 * (Seats[p] + 1)
    BY DEF BurstBounded
  <2> DEFINE age == Interval[p] - 1
  <2>2. age \in 0..(Interval[p] - 1) /\ Seats[p] \in Nat
    BY ProbingAssumption DEF ProbingAssumption
  <2>3. recent[p][age] \in Nat
    BY <2>1, <2>2 DEF TypeOK
  <2>4. recent[p][age] + Cardinality(Dues(p))
          <= Allowed(p, age)
    BY <2>1, <2>2 DEF Paced
  <2>5. Cardinality(Dues(p)) \in Nat
    BY <2>1, DuesFinite
  <2>6. Allowed(p, age) \in Nat /\ Allowed(p, age) <= 2 * (Seats[p] + 1)
    BY <2>2 DEF Allowed
  <2> HIDE DEF age
  <2>7. recent[p][age] <= 2 * (Seats[p] + 1)
    BY <2>2, <2>3, <2>4, <2>5, <2>6
  <2>8. QED BY <2>7 DEF age
<1>4. QED BY <1>1, <1>2, <1>3, PTL DEF Spec

-----------------------------------------------------------------------------
(* Lemmas about folding over 1..n.                                         *)

(* A set that holds 0 and each successor of a member holds all of 0..n.    *)
LEMMA UpTo ==
  ASSUME NEW n \in Nat, NEW T, 0 \in T, \A m \in 1..n : m - 1 \in T => m \in T
  PROVE  0..n \subseteq T
<1> DEFINE missing == 0..n \ T
<1>1. SUFFICES ASSUME missing # {} PROVE FALSE
  BY <1>1
<1>2. missing \subseteq Nat
  OBVIOUS
<1>3. PICK m \in missing : \A i \in missing : ~ (<<i, m>> \in OpToRel(<, Nat))
  BY <1>1, <1>2, WFMin, NatLessThanWellFounded
<1>4. m \in 1..n /\ m - 1 \in 0..n
  OBVIOUS
<1>5. m - 1 \in missing
  BY <1>4
<1>6. <<m - 1, m>> \in OpToRel(<, Nat)
  <2>1. ASSUME NEW i \in Nat, NEW j \in Nat, i < j PROVE <<i, j>> \in OpToRel(<, Nat)
    BY <2>1, Zenon DEF OpToRel
  <2>2. m - 1 \in Nat /\ m \in Nat /\ m - 1 < m
    BY <1>4
  <2>3. QED BY <2>1, <2>2, Zenon
<1>7. QED BY <1>3, <1>5, <1>6

Sources == {"traffic", "probe"}

(* f is what the steps over 1..n make of a base. *)
Results(f, R, n, base, step) ==
  /\ f \in [0..n -> R]
  /\ f[0] = base /\ \A m \in 1..n : f[m] = step[m][f[m - 1]]

(* Any steps over 1..n can be taken one after the other. *)
LEMMA StepsTaken ==
  ASSUME NEW R, NEW n \in Nat, NEW base \in R, NEW step \in [1..n -> [R -> R]]
  PROVE  \E f : Results(f, R, n, base, step)
<1> DEFINE Taken(m, f) == f = [i \in 0..m |-> IF i = 0 THEN base ELSE step[i][f[i - 1]]]
           T == {m \in 0..n : \E f \in [0..m -> R] : Taken(m, f)}
<1>1. 0 \in T
  <2> DEFINE f == [i \in 0..0 |-> base]
  <2>1. f \in [0..0 -> R]
    OBVIOUS
  <2>2. Taken(0, f)
    OBVIOUS
  <2>3. 0 \in 0..n
    OBVIOUS
  <2>4. QED BY <2>1, <2>2, <2>3, Zenon
<1>2. ASSUME NEW m \in 1..n, m - 1 \in T PROVE m \in T
  <2>1. PICK f \in [0..(m - 1) -> R] : Taken(m - 1, f)
    BY <1>2
  <2> DEFINE g == [i \in 0..m |-> IF i = m THEN step[m][f[m - 1]] ELSE f[i]]
  <2>2. g \in [0..m -> R]
    <3>1. step[m] \in [R -> R] /\ f[m - 1] \in R
      OBVIOUS
    <3>2. \A i \in 0..m : i # m => i \in 0..(m - 1)
      OBVIOUS
    <3>3. QED BY <3>1, <3>2
  <2>3. ASSUME NEW i \in 0..m PROVE g[i] = IF i = 0 THEN base ELSE step[i][g[i - 1]]
    <3>1. CASE i = m
      <4>1. m - 1 \in 0..m /\ m - 1 # m /\ m # 0
        OBVIOUS
      <4>2. QED BY <3>1, <4>1
    <3>2. CASE i # m
      <4>1. i \in 0..(m - 1) /\ (i # 0 => i - 1 \in 0..m /\ i - 1 # m)
        BY <3>2
      <4>2. f[i] = IF i = 0 THEN base ELSE step[i][f[i - 1]]
        BY <4>1, <2>1
      <4>3. QED BY <3>2, <4>1, <4>2
    <3>3. QED BY <3>1, <3>2
  <2>4. Taken(m, g)
    BY <2>3
  <2>5. m \in 0..n
    OBVIOUS
  <2>6. QED BY <2>2, <2>4, <2>5, Zenon
<1>3. n \in T
  <2> HIDE DEF T
  <2>1. 0..n \subseteq T
    BY <1>1, <1>2, UpTo
  <2>2. n \in 0..n
    OBVIOUS
  <2>3. QED BY <2>1, <2>2
<1>4. PICK f \in [0..n -> R] : Taken(n, f)
  BY <1>3
<1>5. 0 \in 0..n /\ \A m \in 1..n : m \in 0..n /\ m # 0
  OBVIOUS
<1>6. f[0] = base /\ \A m \in 1..n : f[m] = step[m][f[m - 1]]
  BY <1>4, <1>5
<1>7. QED BY <1>6 DEF Results
(* Max and Min of two numbers. *)
LEMMA MaxOfTwo ==
  ASSUME NEW a \in Int, NEW b \in Int
  PROVE  Max({a, b}) = IF a >= b THEN a ELSE b
<1> DEFINE m == IF a >= b THEN a ELSE b
<1>1. m \in {a, b} /\ \A y \in {a, b} : m >= y
  OBVIOUS
<1>2. \A x \in {a, b} : (\A y \in {a, b} : x >= y) => x = m
  OBVIOUS
<1>3. QED BY <1>1, <1>2 DEF Max

LEMMA MinOfTwo ==
  ASSUME NEW a \in Int, NEW b \in Int
  PROVE  Min({a, b}) = IF a <= b THEN a ELSE b
<1> DEFINE m == IF a <= b THEN a ELSE b
<1>1. m \in {a, b} /\ \A y \in {a, b} : m <= y
  OBVIOUS
<1>2. \A x \in {a, b} : (\A y \in {a, b} : x <= y) => x = m
  OBVIOUS
<1>3. QED BY <1>1, <1>2 DEF Min

-----------------------------------------------------------------------------
(* Types of what a fold is built from.                                     *)

LEMMA MaxAgeType == MaxAge \in Nat /\ Staleness <= MaxAge
BY OfferingAssumption, MaxOfTwo DEF MaxAge

LEMMA AgesType ==
  /\ \A age \in 0..MaxAge : Older(age) \in 0..MaxAge
  /\ \A age \in 0..Staleness \cup {Never} : Staler(age) \in 0..Staleness \cup {Never}
  /\ \A l \in -MaxRun..ResetAfter \cup {Never} :
       Nearer(l) \in -MaxRun..ResetAfter \cup {Never}
<1>1. ASSUME NEW age \in 0..MaxAge PROVE Older(age) \in 0..MaxAge
  BY MaxAgeType, MinOfTwo DEF Older
<1>2. ASSUME NEW age \in 0..Staleness \cup {Never}
      PROVE  Staler(age) \in 0..Staleness \cup {Never}
  BY OfferingAssumption, MinOfTwo DEF Staler
<1>3. ASSUME NEW l \in -MaxRun..ResetAfter \cup {Never}
      PROVE  Nearer(l) \in -MaxRun..ResetAfter \cup {Never}
  BY OfferingAssumption, MaxOfTwo DEF Nearer
<1>4. QED BY <1>1, <1>2, <1>3

LEMMA AppliedType ==
  ASSUME NEW k \in Key, NEW record \in Record, NEW event \in Event, NEW fromTraffic \in BOOLEAN
  PROVE  ApplyOutcome(k, record, event, fromTraffic) \in Record
<1>1. StatedReset(event) \in -MaxRun..ResetAfter \cup {Never}
  BY OfferingAssumption, MaxAgeType, MaxOfTwo DEF StatedReset, Event
<1>2. Min({event.age, Staleness}) \in 0..Staleness
  BY OfferingAssumption, MaxAgeType, MinOfTwo DEF Event
<1>3. CASE Inconclusive(event.what, fromTraffic)
  BY <1>3 DEF ApplyOutcome, Record
<1>4. CASE ~Inconclusive(event.what, fromTraffic) /\ event.what = "answered"
  BY <1>2, <1>4 DEF ApplyOutcome, Record
<1>5. CASE ~Inconclusive(event.what, fromTraffic) /\ event.what # "answered"
  <2>1. event.what \in Reason
    BY <1>5 DEF Event
  <2>2. (record.excluded \/ ~Exempt(k, event.what)) \in BOOLEAN
    OBVIOUS
  <2>3. record.success \in 0..Staleness \cup {Never}
    BY DEF Record
  <2>4. QED BY <1>1, <1>5, <2>1, <2>2, <2>3 DEF ApplyOutcome, Record
<1>6. QED BY <1>3, <1>4, <1>5

LEMMA ExpiredType ==
  ASSUME NEW record \in Record
  PROVE  ApplyResetExpiry(record) \in Record
BY DEF ApplyResetExpiry, Record

-----------------------------------------------------------------------------
(* What the fold computes.                                                 *)

(* The entries a fold step looks at. *)
Selected(k, m, during) ==
  journal[m].key = k /\ (journal[m].event.age < started) = during

(* Replaying the Journal is one step per entry. *)
LEMMA ReplayedStepByStep ==
  ASSUME NEW k \in Key, NEW record \in Record, NEW during \in BOOLEAN,
         journal \in Seq(Observation)
  PROVE  \E f \in [0..Len(journal) -> Record] :
           /\ f[0] = record
           /\ Replayed(k, record, during) = f[Len(journal)]
           /\ \A m \in 1..Len(journal) :
                f[m] = IF Selected(k, m, during)
                       THEN ApplyOutcome(k, f[m - 1], journal[m].event, TRUE) ELSE f[m - 1]
<1> DEFINE n == Len(journal)
           Taken(f) == f = [m \in 0..n |->
                         IF m = 0 THEN record
                         ELSE IF journal[m].key = k /\ (journal[m].event.age < started) = during
                         THEN ApplyOutcome(k, f[m - 1], journal[m].event, TRUE)
                         ELSE f[m - 1]]
           After == CHOOSE f : Taken(f)
           step == [m \in 1..n |-> [r \in Record |->
                      IF Selected(k, m, during)
                      THEN ApplyOutcome(k, r, journal[m].event, TRUE) ELSE r]]
<1>1. n \in Nat /\ \A m \in 1..n : journal[m].event \in Event
  <2>1. n \in Nat /\ \A m \in 1..n : journal[m] \in Observation
    OBVIOUS
  <2>2. \A o \in Observation : o.event \in Event
    BY DEF Observation
  <2>3. QED BY <2>1, <2>2
<1>2. step \in [1..n -> [Record -> Record]]
  <2>1. ASSUME NEW m \in 1..n, NEW r \in Record
        PROVE  ApplyOutcome(k, r, journal[m].event, TRUE) \in Record
    BY <1>1, AppliedType
  <2>2. QED BY <2>1
<1>3. PICK f : Results(f, Record, n, record, step)
  <2> HIDE DEF step, n
  <2>1. n \in Nat
    BY <1>1
  <2>2. QED BY <1>2, <2>1, StepsTaken, Zenon
<1>4. Taken(f)
  <2>1. ASSUME NEW m \in 0..n, m # 0 PROVE m \in 1..n /\ f[m - 1] \in Record
    BY <1>1, <1>3, <2>1 DEF Results
  <2>2. ASSUME NEW m \in 0..n, m # 0
        PROVE  step[m][f[m - 1]] = IF Selected(k, m, during)
                                   THEN ApplyOutcome(k, f[m - 1], journal[m].event, TRUE)
                                   ELSE f[m - 1]
    BY <2>1, <2>2
  <2>3. ASSUME NEW m \in 0..n
        PROVE  f[m] = IF m = 0 THEN record
                      ELSE IF journal[m].key = k /\ (journal[m].event.age < started) = during
                      THEN ApplyOutcome(k, f[m - 1], journal[m].event, TRUE)
                      ELSE f[m - 1]
    BY <1>3, <2>1, <2>2 DEF Selected, Results
  <2>4. QED BY <2>3, <1>3 DEF Results
<1>5. Taken(After)
  <2> HIDE DEF Taken
  <2>1. QED BY <1>4
<1>6. Replayed(k, record, during) = After[n]
  BY DEF Replayed
<1>7. After[0] = record /\ \A m \in 1..n :
        After[m] = IF Selected(k, m, during)
                   THEN ApplyOutcome(k, After[m - 1], journal[m].event, TRUE) ELSE After[m - 1]
  <2> HIDE DEF After
  <2>1. \A m \in 0..n :
          After[m] = IF m = 0 THEN record
                     ELSE IF Selected(k, m, during)
                     THEN ApplyOutcome(k, After[m - 1], journal[m].event, TRUE) ELSE After[m - 1]
    BY <1>5 DEF Selected
  <2>2. 0 \in 0..n /\ \A m \in 1..n : m \in 0..n /\ m # 0
    BY <1>1
  <2>3. QED BY <2>1, <2>2
<1>8. After \in [0..n -> Record]
  <2> DEFINE T == {m \in 0..n : After[m] \in Record}
  <2> HIDE DEF After
  <2>1. 0 \in T
    BY <1>1, <1>7
  <2>2. ASSUME NEW m \in 1..n, m - 1 \in T PROVE m \in T
    <3>1. After[m - 1] \in Record /\ journal[m].event \in Event /\ m \in 0..n
      BY <1>1, <2>2
    <3>2. ApplyOutcome(k, After[m - 1], journal[m].event, TRUE) \in Record
      BY <3>1, AppliedType
    <3>3. QED BY <1>7, <3>1, <3>2
  <2>3. 0..n \subseteq T
    <3> HIDE DEF T
    <3>1. QED BY <1>1, <2>1, <2>2, UpTo
  <2>4. QED BY <1>5, <2>3
<1>9. QED
  <2> HIDE DEF After
  <2>1. QED BY <1>6, <1>7, <1>8
LEMMA EvidenceStepByStep ==
  ASSUME NEW k \in Key, NEW seen \in SUBSET Sources, NEW during \in BOOLEAN,
         journal \in Seq(Observation)
  PROVE  \E f \in [0..Len(journal) -> SUBSET Sources] :
           /\ f[0] = seen
           /\ EvidenceReplayed(k, seen, during) = f[Len(journal)]
           /\ \A m \in 1..Len(journal) :
                f[m] = IF Selected(k, m, during)
                       THEN Against(k, f[m - 1], journal[m].event.what, "traffic") ELSE f[m - 1]
<1> DEFINE n == Len(journal)
           R == SUBSET Sources
           Taken(f) == f = [m \in 0..n |->
                         IF m = 0 THEN seen
                         ELSE IF journal[m].key = k /\ (journal[m].event.age < started) = during
                         THEN Against(k, f[m - 1], journal[m].event.what, "traffic")
                         ELSE f[m - 1]]
           After == CHOOSE f : Taken(f)
           step == [m \in 1..n |-> [r \in R |->
                      IF Selected(k, m, during)
                      THEN Against(k, r, journal[m].event.what, "traffic") ELSE r]]
<1>1. n \in Nat
  OBVIOUS
<1>2. \A what : \A r \in R : Against(k, r, what, "traffic") \in R
  BY DEF Against, Sources
<1>3. step \in [1..n -> [R -> R]]
  BY <1>2
<1>4. PICK f : Results(f, R, n, seen, step)
  <2> HIDE DEF step, n
  <2>1. seen \in R
    OBVIOUS
  <2> HIDE DEF R
  <2>2. QED BY <1>1, <1>3, <2>1, StepsTaken, Zenon
<1>5. Taken(f)
  <2>1. ASSUME NEW m \in 0..n, m # 0 PROVE m \in 1..n /\ f[m - 1] \in R
    BY <1>1, <1>4, <2>1 DEF Results
  <2>2. ASSUME NEW m \in 0..n, m # 0
        PROVE  step[m][f[m - 1]] = IF Selected(k, m, during)
                                   THEN Against(k, f[m - 1], journal[m].event.what, "traffic")
                                   ELSE f[m - 1]
    BY <2>1, <2>2
  <2>3. ASSUME NEW m \in 0..n
        PROVE  f[m] = IF m = 0 THEN seen
                      ELSE IF journal[m].key = k /\ (journal[m].event.age < started) = during
                      THEN Against(k, f[m - 1], journal[m].event.what, "traffic")
                      ELSE f[m - 1]
    BY <1>4, <2>1, <2>2 DEF Selected, Results
  <2>4. QED BY <2>3, <1>4 DEF Results
<1>6. Taken(After)
  <2> HIDE DEF Taken
  <2>1. QED BY <1>5
<1>7. EvidenceReplayed(k, seen, during) = After[n]
  BY DEF EvidenceReplayed
<1>8. After[0] = seen /\ \A m \in 1..n :
        After[m] = IF Selected(k, m, during)
                   THEN Against(k, After[m - 1], journal[m].event.what, "traffic")
                   ELSE After[m - 1]
  <2> HIDE DEF After
  <2>1. \A m \in 0..n :
          After[m] = IF m = 0 THEN seen
                     ELSE IF Selected(k, m, during)
                     THEN Against(k, After[m - 1], journal[m].event.what, "traffic")
                     ELSE After[m - 1]
    BY <1>6 DEF Selected
  <2>2. 0 \in 0..n /\ \A m \in 1..n : m \in 0..n /\ m # 0
    BY <1>1
  <2>3. QED BY <2>1, <2>2
<1>9. After \in [0..n -> R]
  <2> DEFINE T == {m \in 0..n : After[m] \in R}
  <2> HIDE DEF After
  <2>1. 0 \in T
    BY <1>1, <1>8
  <2>2. ASSUME NEW m \in 1..n, m - 1 \in T PROVE m \in T
    <3>1. After[m - 1] \in R /\ m \in 0..n
      BY <1>1, <2>2
    <3>2. QED BY <1>2, <1>8, <3>1
  <2>3. 0..n \subseteq T
    <3> HIDE DEF T
    <3>1. QED BY <1>1, <2>1, <2>2, UpTo
  <2>4. QED BY <1>6, <2>3
<1>10. QED
  <2> HIDE DEF After
  <2>1. QED BY <1>7, <1>8, <1>9

-----------------------------------------------------------------------------
(* What a fold preserves of one key: an exclusion has evidence, a mark is  *)
(* on a key that can be probed and is known.                               *)
Founded(k, record, seen) ==
  /\ record.excluded => seen # {}
  /\ record.due => k \in Probeable /\ record.known

LEMMA AppliedFounded ==
  ASSUME NEW k \in Key, NEW record \in Record, NEW event \in Event, NEW seen,
         NEW fromTraffic \in BOOLEAN, NEW source, (source = "traffic") = fromTraffic,
         Founded(k, record, seen)
  PROVE  Founded(k, ApplyOutcome(k, record, event, fromTraffic),
                    Against(k, seen, event.what, source))
<1>1. CASE Inconclusive(event.what, fromTraffic)
  <2>1. event.what # "answered"
    BY <1>1 DEF Inconclusive
  <2>2. Against(k, seen, event.what, source) = seen
    BY <1>1, <2>1 DEF Against, Counts
  <2>3. QED BY <1>1, <2>2 DEF Founded, ApplyOutcome, Record
<1>2. CASE ~Inconclusive(event.what, fromTraffic) /\ event.what = "answered"
  BY <1>2 DEF Founded, ApplyOutcome
<1>3. CASE ~Inconclusive(event.what, fromTraffic) /\ event.what # "answered"
  <2>1. ~Exempt(k, event.what) => Against(k, seen, event.what, source) # {}
    BY <1>3 DEF Against, Counts, Exempt
  <2>2. seen # {} => Against(k, seen, event.what, source) # {}
    BY <1>3 DEF Against
  <2>3. QED BY <1>3, <2>1, <2>2 DEF Founded, ApplyOutcome
<1>4. QED BY <1>1, <1>2, <1>3

LEMMA ReplayedFounded ==
  ASSUME NEW k \in Key, NEW record \in Record, NEW seen \in SUBSET Sources,
         NEW during \in BOOLEAN, journal \in Seq(Observation), Founded(k, record, seen)
  PROVE  /\ Replayed(k, record, during) \in Record
         /\ EvidenceReplayed(k, seen, during) \in SUBSET Sources
         /\ Founded(k, Replayed(k, record, during), EvidenceReplayed(k, seen, during))
<1> DEFINE n == Len(journal)
<1>1. PICK f \in [0..n -> Record] :
        /\ f[0] = record /\ Replayed(k, record, during) = f[n]
        /\ \A m \in 1..n : f[m] = IF Selected(k, m, during)
                                  THEN ApplyOutcome(k, f[m - 1], journal[m].event, TRUE)
                                  ELSE f[m - 1]
  BY ReplayedStepByStep
<1>2. PICK g \in [0..n -> SUBSET Sources] :
        /\ g[0] = seen /\ EvidenceReplayed(k, seen, during) = g[n]
        /\ \A m \in 1..n : g[m] = IF Selected(k, m, during)
                                  THEN Against(k, g[m - 1], journal[m].event.what, "traffic")
                                  ELSE g[m - 1]
  BY EvidenceStepByStep
<1>3. n \in Nat /\ \A m \in 1..n : journal[m].event \in Event
  <2>1. n \in Nat /\ \A m \in 1..n : journal[m] \in Observation
    OBVIOUS
  <2>2. \A o \in Observation : o.event \in Event
    BY DEF Observation
  <2>3. QED BY <2>1, <2>2
<1> DEFINE T == {m \in 0..n : Founded(k, f[m], g[m])}
<1>4. 0 \in T
  BY <1>1, <1>2, <1>3
<1>5. ASSUME NEW m \in 1..n, m - 1 \in T PROVE m \in T
  <2>1. m \in 0..n /\ f[m - 1] \in Record /\ Founded(k, f[m - 1], g[m - 1])
    BY <1>3, <1>5
  <2>2. CASE Selected(k, m, during)
    <3>1. Founded(k, ApplyOutcome(k, f[m - 1], journal[m].event, TRUE),
                     Against(k, g[m - 1], journal[m].event.what, "traffic"))
      BY <1>3, <2>1, AppliedFounded
    <3>2. QED BY <1>1, <1>2, <2>1, <2>2, <3>1
  <2>3. CASE ~Selected(k, m, during)
    BY <1>1, <1>2, <2>1, <2>3
  <2>4. QED BY <2>2, <2>3
<1>6. n \in T
  <2> HIDE DEF T
  <2>1. 0..n \subseteq T
    BY <1>3, <1>4, <1>5, UpTo
  <2>2. QED BY <1>3, <2>1
<1>7. QED BY <1>1, <1>2, <1>3, <1>6

(* Nothing to replay leaves a record as it is. *)
LEMMA ReplayedNothing ==
  ASSUME NEW k \in Key, NEW record \in Record, NEW during \in BOOLEAN,
         journal \in Seq(Observation), \A m \in DOMAIN journal : ~Selected(k, m, during)
  PROVE  Replayed(k, record, during) = record
<1> DEFINE n == Len(journal)
<1>1. PICK f \in [0..n -> Record] :
        /\ f[0] = record /\ Replayed(k, record, during) = f[n]
        /\ \A m \in 1..n : f[m] = IF Selected(k, m, during)
                                  THEN ApplyOutcome(k, f[m - 1], journal[m].event, TRUE)
                                  ELSE f[m - 1]
  BY ReplayedStepByStep
<1>2. n \in Nat /\ DOMAIN journal = 1..n
  OBVIOUS
<1> DEFINE T == {m \in 0..n : f[m] = record}
<1>3. 0 \in T
  BY <1>1, <1>2
<1>4. ASSUME NEW m \in 1..n, m - 1 \in T PROVE m \in T
  BY <1>1, <1>2, <1>4
<1>5. n \in T
  <2> HIDE DEF T
  <2>1. 0..n \subseteq T
    BY <1>2, <1>3, <1>4, UpTo
  <2>2. QED BY <1>2, <2>1
<1>6. QED BY <1>1, <1>5
(* The invariant. *)
Believed ==
  /\ OHTypeOK
  /\ truth \in [Key -> Reason \cup {"answered"}]
  /\ ExcludedOnOwnEvidence
  /\ MarksAreProbeable

LEMMA WithProbeFounded ==
  ASSUME Believed, NEW k \in Key, NEW record \in Record, NEW seen \in SUBSET Sources,
         Founded(k, record, seen)
  PROVE  LET after == IF outcomes[k].what = "none" THEN seen
                      ELSE Against(k, seen, outcomes[k].what, "probe")
         IN /\ WithProbe(k, record) \in Record
            /\ after \in SUBSET Sources
            /\ Founded(k, WithProbe(k, record), after)
            /\ outcomes[k].what = "answered" => ~WithProbe(k, record).excluded
<1> DEFINE o == outcomes[k]
           e == IF o.what = "answered" THEN [o EXCEPT !.age = started] ELSE o
<1>1. CASE o.what = "none"
  BY <1>1 DEF WithProbe
<1>2. CASE o.what # "none"
  <2>1. o \in Event /\ started \in 0..MaxAge
    <3>1. o \in Event \cup {[what |-> "none", age |-> 0]} /\ started \in 0..MaxRun
      BY DEF Believed, OHTypeOK
    <3>2. MaxRun <= MaxAge
      BY OfferingAssumption, MaxOfTwo DEF MaxAge
    <3>3. QED BY <1>2, <3>1, <3>2, MaxAgeType, OfferingAssumption
  <2>2. e \in Event /\ e.what = o.what
    BY <2>1 DEF Event
  <2>3. WithProbe(k, record) = ApplyOutcome(k, record, e, FALSE)
    BY <1>2 DEF WithProbe
  <2> HIDE DEF e
  <2>4. WithProbe(k, record) \in Record
    BY <2>2, <2>3, AppliedType
  <2>5. Founded(k, WithProbe(k, record), Against(k, seen, o.what, "probe"))
    BY <2>2, <2>3, AppliedFounded
  <2>6. Against(k, seen, o.what, "probe") \in SUBSET Sources
    BY DEF Against, Sources
  <2>7. o.what = "answered" => ~WithProbe(k, record).excluded
    BY <2>2, <2>3 DEF ApplyOutcome, Inconclusive
  <2>8. QED BY <1>2, <2>4, <2>5, <2>6, <2>7
<1>3. QED BY <1>1, <1>2

LEMMA EvidenceAfterType ==
  ASSUME Believed, NEW k \in Key, NEW record
  PROVE  EvidenceAfter(k, record) \in SUBSET Sources
<1>1. journal \in Seq(Observation) /\ evidence[k] \in SUBSET Sources
  BY DEF Believed, OHTypeOK, Sources
<1>2. ASSUME NEW seen \in SUBSET Sources, NEW during \in BOOLEAN
      PROVE  EvidenceReplayed(k, seen, during) \in SUBSET Sources
  <2>1. PICK f \in [0..Len(journal) -> SUBSET Sources] :
          /\ f[0] = seen
          /\ EvidenceReplayed(k, seen, during) = f[Len(journal)]
          /\ \A m \in 1..Len(journal) :
               f[m] = IF Selected(k, m, during)
                      THEN Against(k, f[m - 1], journal[m].event.what, "traffic") ELSE f[m - 1]
    BY <1>1, EvidenceStepByStep
  <2>2. Len(journal) \in 0..Len(journal)
    BY <1>1
  <2>3. QED BY <2>1, <2>2
<1> DEFINE kept == IF health[k].excluded /\ ~record.excluded THEN {} ELSE evidence[k]
           before == EvidenceReplayed(k, kept, FALSE)
           probed == IF outcomes[k].what = "none" THEN before
                     ELSE Against(k, before, outcomes[k].what, "probe")
<1>3. kept \in SUBSET Sources
  BY <1>1
<1>4. before \in SUBSET Sources
  BY <1>2, <1>3
<1>5. probed \in SUBSET Sources
  BY <1>4 DEF Against, Sources
<1>6. QED BY <1>2, <1>5 DEF EvidenceAfter

(* The events of a key, replayed in order from what was believed of it. *)
LEMMA InOrderFounded ==
  ASSUME Believed, NEW k \in Key
  PROVE  LET before == Replayed(k, health[k], FALSE)
             seenBefore == EvidenceReplayed(k, evidence[k], FALSE)
             probed == WithProbe(k, before)
             seenProbed == IF outcomes[k].what = "none" THEN seenBefore
                           ELSE Against(k, seenBefore, outcomes[k].what, "probe")
         IN /\ before \in Record /\ probed \in Record
            /\ Replayed(k, probed, TRUE) \in Record
            /\ Founded(k, Replayed(k, probed, TRUE), EvidenceReplayed(k, seenProbed, TRUE))
            /\ outcomes[k].what = "answered" => ~probed.excluded
<1> DEFINE before == Replayed(k, health[k], FALSE)
           seenBefore == EvidenceReplayed(k, evidence[k], FALSE)
           probed == WithProbe(k, before)
           seenProbed == IF outcomes[k].what = "none" THEN seenBefore
                         ELSE Against(k, seenBefore, outcomes[k].what, "probe")
<1>1. /\ health[k] \in Record /\ journal \in Seq(Observation)
      /\ evidence[k] \in SUBSET Sources /\ Founded(k, health[k], evidence[k])
  BY DEF Believed, OHTypeOK, ExcludedOnOwnEvidence, MarksAreProbeable, Founded, Sources
<1>2. before \in Record /\ seenBefore \in SUBSET Sources /\ Founded(k, before, seenBefore)
  BY <1>1, ReplayedFounded
<1>3. /\ probed \in Record /\ seenProbed \in SUBSET Sources /\ Founded(k, probed, seenProbed)
      /\ outcomes[k].what = "answered" => ~probed.excluded
  <2> HIDE DEF before, seenBefore
  <2>1. QED BY <1>2, WithProbeFounded
<1>4. /\ Replayed(k, probed, TRUE) \in Record
      /\ Founded(k, Replayed(k, probed, TRUE), EvidenceReplayed(k, seenProbed, TRUE))
  <2> HIDE DEF probed, seenProbed
  <2>1. QED BY <1>1, <1>3, ReplayedFounded
<1>5. QED BY <1>2, <1>3, <1>4

LEMMA NothingHappened ==
  ASSUME Believed, NEW k \in Key, Happened(k) = {}
  PROVE  /\ outcomes[k].what = "none"
         /\ \A m \in DOMAIN journal, during \in BOOLEAN : ~Selected(k, m, during)
BY DEF Happened, Selected

LEMMA FoldedFounded ==
  ASSUME Believed, NEW k \in Key
  PROVE  /\ Folded(k) \in Record
         /\ Founded(k, Folded(k), EvidenceAfter(k, Folded(k)))
<1> DEFINE before == Replayed(k, health[k], FALSE)
           seenBefore == EvidenceReplayed(k, evidence[k], FALSE)
           probed == WithProbe(k, before)
           seenProbed == IF outcomes[k].what = "none" THEN seenBefore
                         ELSE Against(k, seenBefore, outcomes[k].what, "probe")
           after == Replayed(k, probed, TRUE)
           seenAfter == EvidenceReplayed(k, seenProbed, TRUE)
<1>1. before \in Record /\ probed \in Record /\ after \in Record /\ Founded(k, after, seenAfter)
  BY InOrderFounded
<1>2. /\ health[k] \in Record /\ journal \in Seq(Observation)
      /\ health[k].due => k \in Probeable /\ health[k].known
  BY DEF Believed, OHTypeOK, MarksAreProbeable
<1>3. Folded(k).excluded => EvidenceAfter(k, Folded(k)) = seenAfter
  BY DEF EvidenceAfter
<1>4. CASE Happened(k) = {}
  <2>1. Folded(k) = ApplyResetExpiry(health[k])
    BY <1>4 DEF Folded
  <2>2. after = health[k]
    <3>1. before = health[k]
      BY <1>2, <1>4, NothingHappened, ReplayedNothing
    <3>2. probed = before
      BY <1>4, NothingHappened DEF WithProbe
    <3>3. after = probed
      BY <1>1, <1>2, <1>4, NothingHappened, ReplayedNothing
    <3>4. QED BY <3>1, <3>2, <3>3
  <2> HIDE DEF after, seenAfter
  <2>3. /\ Folded(k).excluded => health[k].excluded
        /\ Folded(k).due = health[k].due /\ Folded(k).known = health[k].known
    BY <1>2, <2>1 DEF ApplyResetExpiry, Record
  <2>4. QED BY <1>1, <1>2, <1>3, <2>1, <2>2, <2>3, ExpiredType DEF Founded
<1>5. CASE Happened(k) # {}
  <2>1. Folded(k) = after
    BY <1>5 DEF Folded
  <2> HIDE DEF after, seenAfter
  <2>2. QED BY <1>1, <1>3, <2>1 DEF Founded
<1>6. QED BY <1>4, <1>5

(* A Probe that answered and no entry written since: not Excluded. *)
LEMMA LastWord ==
  ASSUME Believed, NEW k \in Key, outcomes[k].what = "answered",
         \A i \in DOMAIN journal : ~(journal[i].key = k /\ journal[i].event.age < started)
  PROVE  ~Folded(k).excluded
<1> DEFINE before == Replayed(k, health[k], FALSE)
           probed == WithProbe(k, before)
<1>1. probed \in Record /\ ~probed.excluded
  BY InOrderFounded
<1>2. journal \in Seq(Observation)
  BY DEF Believed, OHTypeOK
<1>3. \A m \in DOMAIN journal : ~Selected(k, m, TRUE)
  BY DEF Selected
<1>4. Replayed(k, probed, TRUE) = probed
  <2> HIDE DEF probed
  <2>1. QED BY <1>1, <1>2, <1>3, ReplayedNothing
<1>5. Folded(k) = Replayed(k, probed, TRUE)
  BY DEF Folded, Happened
<1>6. QED BY <1>1, <1>4, <1>5

LEMMA ReduceFounded ==
  ASSUME Believed
  PROVE  /\ Reduce \in [Key -> Record]
         /\ \A k \in Key : Reduce[k].excluded = Folded(k).excluded
         /\ \A k \in Key : Reduce[k].due => k \in Probeable /\ Reduce[k].known
<1>1. ASSUME NEW k \in Key
      PROVE  /\ Reduce[k] \in Record
             /\ Reduce[k].excluded = Folded(k).excluded
             /\ Reduce[k].due => k \in Probeable /\ Reduce[k].known
  <2>1. Folded(k) \in Record /\ (Folded(k).due => k \in Probeable /\ Folded(k).known)
    BY FoldedFounded DEF Founded
  <2>2. Reduce[k] = IF k \in Marked THEN [Folded(k) EXCEPT !.due = TRUE] ELSE Folded(k)
    BY DEF Reduce
  <2>3. CASE k \in Marked
    <3>1. k \in Probeable
      BY <2>3 DEF Marked, PoolSiblingsToMark, Probeable
    <3>2. Folded(k).known
      <4>1. Folded(k) = ApplyResetExpiry(health[k]) /\ health[k].known
        BY <2>3 DEF Marked, Folded
      <4>2. health[k] \in Record
        BY DEF Believed, OHTypeOK
      <4>3. QED BY <4>1, <4>2 DEF ApplyResetExpiry, Record
    <3>3. Reduce[k] = [Folded(k) EXCEPT !.due = TRUE]
      BY <2>2, <2>3
    <3>4. \A r \in Record : /\ [r EXCEPT !.due = TRUE] \in Record
                            /\ [r EXCEPT !.due = TRUE].excluded = r.excluded
                            /\ [r EXCEPT !.due = TRUE].known = r.known
      BY DEF Record
    <3>5. QED BY <2>1, <3>1, <3>2, <3>3, <3>4
  <2>4. CASE k \notin Marked
    BY <2>1, <2>2, <2>4
  <2>5. QED BY <2>3, <2>4
<1>2. DOMAIN Reduce = Key /\ Reduce = [k \in Key |-> Reduce[k]]
  BY DEF Reduce
<1>3. QED BY <1>1, <1>2
-----------------------------------------------------------------------------
LEMMA BelievedInit == OHInit => Believed
<1> SUFFICES ASSUME OHInit PROVE Believed
  OBVIOUS
<1> USE DEF OHInit
<1>1. OHTypeOK
  <2>1. \A k \in Key : truth[k] \in Truths[k]
    OBVIOUS
  <2>2. journal \in Seq(Observation) /\ Len(journal) <= MaxEntries
    BY OfferingAssumption
  <2>3. NoRecord \in Record
    BY DEF NoRecord, Record
  <2>4. started \in 0..MaxRun /\ passthrough \subseteq Key
    BY OfferingAssumption
  <2>5. QED BY <2>1, <2>2, <2>3, <2>4 DEF OHTypeOK
<1>2. ExcludedOnOwnEvidence /\ MarksAreProbeable
  BY DEF ExcludedOnOwnEvidence, MarksAreProbeable, NoRecord
<1>3. QED BY <1>1, <1>2 DEF Believed

LEMMA BelievedPass == Believed /\ Pass => Believed'
<1> SUFFICES ASSUME Believed, Pass PROVE Believed'
  OBVIOUS
<1>1. \A r \in Record : [r EXCEPT !.left = Nearer(@), !.success = Staler(@)] \in Record
  BY AgesType DEF Record
<1>2. health \in [Key -> Record]
  BY DEF Believed, OHTypeOK
<1>3. health' \in [Key -> Record]
  BY <1>1, <1>2 DEF Pass
<1>4. \A k \in Key : /\ health'[k].excluded = health[k].excluded
                     /\ health'[k].due = health[k].due /\ health'[k].known = health[k].known
  BY <1>2 DEF Record, Pass
<1>5. journal' \in Seq(Observation) /\ Len(journal') <= MaxEntries
  <2>1. \A o \in Observation : [o EXCEPT !.event.age = Older(@)] \in Observation
    BY AgesType DEF Observation, Event
  <2>2. journal \in Seq(Observation) /\ Len(journal) <= MaxEntries
    BY DEF Believed, OHTypeOK
  <2>3. PICK n \in Nat : journal \in [1..n -> Observation] /\ Len(journal) = n
    BY <2>2
  <2>4. journal' = [i \in 1..n |-> [journal[i] EXCEPT !.event.age = Older(@)]]
    BY <2>3 DEF Pass
  <2>5. journal' \in [1..n -> Observation]
    BY <2>1, <2>3, <2>4
  <2>6. journal' \in Seq(Observation) /\ Len(journal') = n
    BY <2>5
  <2>7. QED BY <2>2, <2>3, <2>6
<1>6. outcomes' \in [Key -> Event \cup {[what |-> "none", age |-> 0]}]
  <2>1. \A e \in Event : [e EXCEPT !.age = Older(@)] \in Event
    BY AgesType DEF Event
  <2>2. outcomes \in [Key -> Event \cup {[what |-> "none", age |-> 0]}]
    BY DEF Believed, OHTypeOK
  <2>3. ASSUME NEW k \in Key
        PROVE  (IF outcomes[k].what = "none" THEN outcomes[k]
                ELSE [outcomes[k] EXCEPT !.age = Older(@)])
                 \in Event \cup {[what |-> "none", age |-> 0]}
    BY <2>1, <2>2
  <2>4. QED BY <2>3 DEF Pass
<1>7. started' \in 0..MaxRun
  <2>1. started \in 0..MaxRun /\ MaxRun \in Nat
    BY OfferingAssumption DEF Believed, OHTypeOK
  <2>2. /\ pc # "idle" => started < MaxRun
        /\ started' = IF pc = "idle" THEN 0 ELSE started + 1
    BY DEF Pass
  <2>3. QED BY <2>1, <2>2
<1>8. OHTypeOK'
  BY <1>3, <1>5, <1>6, <1>7 DEF Pass, Believed, OHTypeOK, Probeable
<1>9. (ExcludedOnOwnEvidence /\ MarksAreProbeable)'
  BY <1>4 DEF Pass, Believed, ExcludedOnOwnEvidence, MarksAreProbeable, Probeable
<1>10. QED BY <1>8, <1>9 DEF Pass, Believed

LEMMA BelievedTruth == ASSUME NEW k \in Key PROVE Believed /\ TruthChanges(k) => Believed'
<1> SUFFICES ASSUME Believed, TruthChanges(k) PROVE Believed'
  OBVIOUS
<1>1. PICK answer \in Truths[k] : truth' = [truth EXCEPT ![k] = answer]
  BY DEF TruthChanges
<1>2. answer \in Reason \cup {"answered"}
  BY OfferingAssumption
<1>3. truth' \in [Key -> Reason \cup {"answered"}] /\ \A j \in Key : truth'[j] \in Truths[j]
  BY <1>1, <1>2 DEF Believed, OHTypeOK
<1>4. QED
  BY <1>3 DEF TruthChanges, Believed, OHTypeOK, ExcludedOnOwnEvidence, MarksAreProbeable,
              Probeable, process

LEMMA BelievedTraffic == ASSUME NEW k \in Key PROVE Believed /\ TrafficFails(k) => Believed'
<1> SUFFICES ASSUME Believed, TrafficFails(k) PROVE Believed'
  OBVIOUS
<1>1. PICK what \in Failures[k] :
        journal' = Append(journal, [key |-> k, event |-> [what |-> what, age |-> 0]])
  BY DEF TrafficFails
<1>2. [key |-> k, event |-> [what |-> what, age |-> 0]] \in Observation
  BY OfferingAssumption, MaxAgeType DEF Observation, Event
<1>3. journal' \in Seq(Observation) /\ Len(journal') <= MaxEntries
  BY <1>1, <1>2, OfferingAssumption DEF Believed, OHTypeOK, TrafficFails
<1>4. QED
  BY <1>3 DEF TrafficFails, Believed, OHTypeOK, ExcludedOnOwnEvidence, MarksAreProbeable,
              Probeable, process

LEMMA BelievedRun ==
  Believed /\ (ReadHealth \/ SweepStale \/ ConfirmOnly) => Believed'
<1> SUFFICES ASSUME Believed, ReadHealth \/ SweepStale \/ ConfirmOnly PROVE Believed'
  OBVIOUS
<1>1. UNCHANGED <<passthrough, truth, journal, health, started, outcomes, evidence>>
  BY DEF ReadHealth, SweepStale, ConfirmOnly
<1>2. /\ pc' \in {"idle", "reading"} \cup Probing
      /\ fresh' \subseteq Key
  BY DEF ReadHealth, SweepStale, ConfirmOnly, Probing
<1>3. targets' \subseteq Probeable
  BY DEF ReadHealth, SweepStale, ConfirmOnly, Believed, OHTypeOK
<1>4. QED
  BY <1>1, <1>2, <1>3 DEF Believed, OHTypeOK, ExcludedOnOwnEvidence, MarksAreProbeable, Probeable

LEMMA BelievedProbe == ASSUME NEW k \in Key PROVE Believed /\ ProbeOffering(k) => Believed'
<1> SUFFICES ASSUME Believed, ProbeOffering(k) PROVE Believed'
  OBVIOUS
<1>1. [what |-> truth[k], age |-> 0] \in Event
  BY MaxAgeType DEF Event, Believed
<1>2. outcomes' \in [Key -> Event \cup {[what |-> "none", age |-> 0]}]
  BY <1>1 DEF ProbeOffering, Believed, OHTypeOK
<1>3. QED
  BY <1>2 DEF ProbeOffering, Believed, OHTypeOK, ExcludedOnOwnEvidence, MarksAreProbeable,
              Probeable

LEMMA BelievedFold == Believed /\ FoldRun => Believed'
<1> SUFFICES ASSUME Believed, FoldRun PROVE Believed'
  OBVIOUS
<1>1. /\ health' = Reduce /\ journal' = <<>> /\ UNCHANGED <<passthrough, truth>>
      /\ evidence' = [k \in Key |-> EvidenceAfter(k, Folded(k))]
  BY DEF FoldRun
<1>2. /\ pc' = "idle" /\ started' = 0 /\ fresh' = {} /\ targets' = {}
      /\ outcomes' = [k \in Key |-> [what |-> "none", age |-> 0]]
  BY DEF FoldRun, Forget
<1>3. journal' \in Seq(Observation) /\ Len(journal') <= MaxEntries
  BY <1>1, OfferingAssumption
<1>4. evidence' \in [Key -> SUBSET {"traffic", "probe"}]
  BY <1>1, EvidenceAfterType DEF Sources
<1>5. OHTypeOK'
  BY <1>1, <1>2, <1>3, <1>4, ReduceFounded, OfferingAssumption
     DEF Believed, OHTypeOK, Probeable, Probing
<1>6. ExcludedOnOwnEvidence'
  <2>1. ASSUME NEW k \in Key, health'[k].excluded PROVE evidence'[k] # {}
    <3>1. Folded(k).excluded
      BY <1>1, <2>1, ReduceFounded
    <3>2. EvidenceAfter(k, Folded(k)) # {}
      BY <3>1, FoldedFounded DEF Founded
    <3>3. QED BY <1>1, <3>2
  <2>2. QED BY <2>1 DEF ExcludedOnOwnEvidence
<1>7. MarksAreProbeable'
  BY <1>1, ReduceFounded DEF MarksAreProbeable, Probeable
<1>8. QED BY <1>1, <1>5, <1>6, <1>7 DEF Believed

LEMMA BelievedStep == Believed /\ [OHNext]_OHvars => Believed'
<1> SUFFICES ASSUME Believed, [OHNext]_OHvars PROVE Believed'
  OBVIOUS
<1>1. CASE Pass
  BY <1>1, BelievedPass
<1>2. CASE ReadHealth \/ SweepStale \/ ConfirmOnly
  BY <1>2, BelievedRun
<1>3. CASE FoldRun
  BY <1>3, BelievedFold
<1>4. ASSUME NEW k \in Key, TruthChanges(k) PROVE Believed'
  BY <1>4, BelievedTruth
<1>5. ASSUME NEW k \in Key, TrafficFails(k) PROVE Believed'
  BY <1>5, BelievedTraffic
<1>6. ASSUME NEW k \in Key, ProbeOffering(k) PROVE Believed'
  BY <1>6, BelievedProbe
<1>7. CASE UNCHANGED OHvars
  BY <1>7 DEF OHvars, process, Believed, OHTypeOK, ExcludedOnOwnEvidence, MarksAreProbeable,
              Probeable
<1>8. QED BY <1>1, <1>2, <1>3, <1>4, <1>5, <1>6, <1>7 DEF OHNext

LEMMA BelievedAlways == OHSpec => []Believed
BY BelievedInit, BelievedStep, PTL DEF OHSpec

(* The state of the Offerings' health keeps its type. *)
THEOREM HealthTypeCorrect == OHSpec => []OHTypeOK
<1>1. Believed => OHTypeOK
  BY DEF Believed
<1>2. QED BY <1>1, BelievedAlways, PTL

(* An Offering is Excluded on its own evidence. *)
THEOREM ExcludedOnOwnEvidenceHolds == OHSpec => []ExcludedOnOwnEvidence
<1>1. Believed => ExcludedOnOwnEvidence
  BY DEF Believed
<1>2. QED BY <1>1, BelievedAlways, PTL

(* Only a known key that can be probed is ever marked. *)
THEOREM MarksAreProbeableHolds == OHSpec => []MarksAreProbeable
<1>1. Believed => MarksAreProbeable
  BY DEF Believed
<1>2. QED BY <1>1, BelievedAlways, PTL

(* A Probe that answered is overruled only by an entry written since. *)
THEOREM ProbeOverrulesEarlierHolds == OHSpec => ProbeOverrulesEarlier
<1>1. Believed => ProbeOverrules
  <2>1. SUFFICES ASSUME Believed, FoldRun, NEW k \in Key,
                        outcomes[k].what = "answered", health'[k].excluded
                 PROVE  \E i \in DOMAIN journal :
                          journal[i].key = k /\ journal[i].event.age < started
    BY DEF ProbeOverrules
  <2>2. Folded(k).excluded
    BY <2>1, ReduceFounded DEF FoldRun
  <2>3. QED BY <2>1, <2>2, LastWord
<1>2. QED BY <1>1, BelievedAlways, PTL DEF ProbeOverrulesEarlier
=============================================================================
