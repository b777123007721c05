------------------------------- MODULE RunNews -------------------------------
(***************************************************************************)
(* What a run tells the operator.  A run fetches and loads the Feed, folds *)
(* its Probes, plans, writes the config, and then compares: the admitted   *)
(* Offerings and Candidates with state/last_report.json; a recovery that   *)
(* Health State, as it stood when the run began, predicted is no news.  It *)
(* sends the news first and writes the new last report after.              *)
(*                                                                         *)
(* Runs may overlap (launchd's and an operator's), other processes fold    *)
(* too, a run may be refused after its fold, and a process may be killed   *)
(* at any step.                                                            *)
(***************************************************************************)
EXTENDS FeedDocument

CONSTANTS
  Offerings,   \* the Offerings the Feed may list
  MaxEdits     \* bound: edits of Policy, changes of a record by others

ASSUME NewsAssumption ==
  /\ Answers \subseteq SUBSET Offerings
  /\ MaxEdits \in Nat

VARIABLES
  policy,      \* what Policy says of each Offering
  bucket,      \* Health State: each record's newest classification
  last,        \* state/last_report.json
  pc,          \* how far each run is
  asked,       \* the Policy it loaded
  prior,       \* Health State as it stood when the run began
  returning,   \* the Offerings whose return that predicted
  admitted,    \* its plan
  candidates,
  edits,       \* how many edits and foreign folds were made
  \* History variables: read by no action, only by properties.
  told,        \* the changes told since last was written
  raced        \* whether two runs ever were between their reading of last
               \* and their writing of it

world == <<policy, bucket, last>>
run   == <<pc, asked, prior, returning, admitted, candidates>>
history == <<told, raced>>
vars == <<feedVars, world, run, edits, history>>

Choice == {"approved", "awaited", "withheld"}
Bucket == {"fine", "recovering", "gone"}
Stage  == {"idle", "fetching", "loading", "folded", "telling"}

(* No record is fine, too.  recovering: Excluded, with a stated reset that *)
(* is past; a fold clears that.                                            *)
Cleared(b) == IF b = "recovering" THEN "fine" ELSE b

NoReport == [admitted |-> {}, candidates |-> {}]
AllAsked == [o \in Offerings |-> "approved"]
Nobody   == [o \in Offerings |-> "fine"]

-----------------------------------------------------------------------------
Init ==
  /\ FeedInit
  /\ policy = AllAsked
  /\ bucket = Nobody
  /\ last = NoReport
  /\ pc = [r \in Fetchers |-> "idle"]
  /\ asked = [r \in Fetchers |-> AllAsked]
  /\ prior = [r \in Fetchers |-> Nobody]
  /\ returning = [r \in Fetchers |-> {}]
  /\ admitted = [r \in Fetchers |-> {}]
  /\ candidates = [r \in Fetchers |-> {}]
  /\ edits = 0
  /\ told = {}
  /\ raced = FALSE

Edit == edits < MaxEdits /\ edits' = edits + 1

(* The operator approves, withholds or declines an Offering. *)
PolicyEdited(o) ==
  /\ Edit
  /\ \E c \in Choice \ {policy[o]} : policy' = [policy EXCEPT ![o] = c]
  /\ UNCHANGED <<feedVars, bucket, last, run, history>>

(* probe or a confirming Probe folds, or a stated reset passes. *)
FoldedElsewhere(o) ==
  /\ Edit
  /\ \E b \in Bucket \ {bucket[o]} : bucket' = [bucket EXCEPT ![o] = b]
  /\ UNCHANGED <<feedVars, policy, last, run, history>>

-----------------------------------------------------------------------------
Forget(r) ==
  /\ asked' = [asked EXCEPT ![r] = AllAsked]
  /\ prior' = [prior EXCEPT ![r] = Nobody]

Back(r) ==
  /\ pc' = [pc EXCEPT ![r] = "idle"]
  /\ Forget(r)
  /\ returning' = [returning EXCEPT ![r] = {}]
  /\ admitted' = [admitted EXCEPT ![r] = {}]
  /\ candidates' = [candidates EXCEPT ![r] = {}]

(* A run that due lets through has loaded Policy and read Health State.  A *)
(* journal-triggered one, and one of a Policy with no feed, does not       *)
(* fetch; nor is there anything to write when the download fails.          *)
Begin(r) ==
  /\ pc[r] = "idle"
  /\ \E stage \in {"fetching", "loading"} : pc' = [pc EXCEPT ![r] = stage]
  /\ asked' = [asked EXCEPT ![r] = policy]
  /\ prior' = [prior EXCEPT ![r] = bucket]
  /\ UNCHANGED <<feedVars, world, returning, admitted, candidates, edits, history>>

(* The Feed Document cannot be read, or is implausible: the run is over. *)
FeedRefused(r) ==
  /\ pc[r] = "loading"
  /\ ~(Whole(feed) /\ Plausible(Document(feed)))
  /\ Back(r)
  /\ UNCHANGED <<feedVars, world, edits, history>>

(* The Probes are folded, and plan runs on the result.  A record is kept   *)
(* only of what the Policy admits.                                         *)
FoldAndPlan(r) ==
  /\ pc[r] = "loading"
  /\ Whole(feed)
  /\ Plausible(Document(feed))
  /\ LET listed == {o \in Document(feed) : asked[r][o] # "withheld"} IN
     /\ bucket' \in {b \in [Offerings -> Bucket] :
                       \A o \in Offerings :
                         IF o \notin listed THEN b[o] = "fine"
                         ELSE b[o] \in {Cleared(bucket[o]), "fine", "gone"}}
     /\ admitted' = [admitted EXCEPT ![r] =
          {o \in listed : bucket'[o] # "gone" /\ asked[r][o] = "approved"}]
     /\ candidates' = [candidates EXCEPT ![r] =
          {o \in listed : bucket'[o] # "gone" /\ asked[r][o] = "awaited"}]
  (* _recovery_was_predicted *)
  /\ returning' = [returning EXCEPT ![r] = {o \in Offerings : prior[r][o] = "recovering"}]
  /\ Forget(r)
  /\ pc' = [pc EXCEPT ![r] = "folded"]
  /\ UNCHANGED <<feedVars, policy, last, edits, history>>

(* The lock is busy before the fold, or a Role name or the safety rail     *)
(* refuses after it: the run is over, and tells nothing.                   *)
Refused(r) ==
  /\ pc[r] \in {"loading", "folded"}
  /\ Back(r)
  /\ UNCHANGED <<feedVars, world, edits, history>>

(* detect_events on the two sets: what is told added, removed or awaited. *)
Changes(r) ==
  (({"added"} \X (admitted[r] \ (last.admitted \cup returning[r])))
    \cup ({"removed"} \X (last.admitted \ admitted[r])))
    \cup ({"candidate"} \X (candidates[r] \ last.candidates))

(* Faulty: the last report is written before the news is sent. *)
NotifyAfter(r) ==
  /\ pc[r] = "folded"
  /\ last' = [admitted |-> admitted[r], candidates |-> candidates[r]]
  /\ raced' = (raced \/ \E s \in Fetchers : pc[s] = "telling")
  /\ pc' = [pc EXCEPT ![r] = "telling"]
  /\ UNCHANGED <<feedVars, policy, bucket, asked, prior, returning, admitted, candidates, edits, told>>

(* The config is written, the last report read, and the news sent. *)
Notify(r) ==
  /\ pc[r] = "folded"
  /\ told' = told \cup Changes(r)
  /\ raced' = (raced \/ \E s \in Fetchers : pc[s] = "telling")
  /\ pc' = [pc EXCEPT ![r] = "telling"]
  /\ UNCHANGED <<feedVars, world, asked, prior, returning, admitted, candidates, edits>>

(* state/last_report.json is written: the run is over. *)
WriteLast(r) ==
  /\ pc[r] = "telling"
  /\ last' = [admitted |-> admitted[r], candidates |-> candidates[r]]
  /\ told' = {}
  /\ Back(r)
  /\ UNCHANGED <<feedVars, policy, bucket, edits, raced>>

(* A process is killed.  write_text truncates first, so one killed as it   *)
(* writes the last report may leave it empty, which reads as no report.    *)
Die(r) ==
  /\ pc[r] # "idle"
  /\ Back(r)
  /\ IF body[r] # None THEN Killed(r) ELSE UNCHANGED feedVars
  /\ \/ UNCHANGED <<last, told>>
     \/ pc[r] = "telling" /\ last' = NoReport /\ told' = {}
  /\ UNCHANGED <<policy, bucket, edits, raced>>

(* A step of a run's fetch.  The run loads the Feed when that is over,     *)
(* however it ended; the fetch command is a run that goes no further.      *)
FetchStep(r) ==
  /\ pc[r] = "fetching"
  /\ Fetch(r)
  /\ pc' = IF body'[r] = None THEN [pc EXCEPT ![r] = "loading"] ELSE pc
  /\ UNCHANGED <<world, asked, prior, returning, admitted, candidates, edits, history>>

Next ==
  \/ \E o \in Offerings : PolicyEdited(o) \/ FoldedElsewhere(o)
  \/ \E r \in Fetchers :
       \/ Begin(r) \/ FetchStep(r) \/ FeedRefused(r) \/ FoldAndPlan(r) \/ Refused(r)
       \/ Notify(r) \/ WriteLast(r) \/ Die(r)

Spec == Init /\ [][Next]_vars

-----------------------------------------------------------------------------
(* Type invariant. *)
TypeOK ==
  /\ FeedTypeOK
  /\ policy \in [Offerings -> Choice]
  /\ bucket \in [Offerings -> Bucket]
  /\ last \in [admitted : SUBSET Offerings, candidates : SUBSET Offerings]
  /\ pc \in [Fetchers -> Stage]
  /\ asked \in [Fetchers -> [Offerings -> Choice]]
  /\ prior \in [Fetchers -> [Offerings -> Bucket]]
  /\ returning \in [Fetchers -> SUBSET Offerings]
  /\ admitted \in [Fetchers -> SUBSET Offerings]
  /\ candidates \in [Fetchers -> SUBSET Offerings]
  /\ edits \in 0..MaxEdits
  /\ told \in SUBSET ({"added", "removed", "candidate"} \X Offerings)
  /\ raced \in BOOLEAN

(* A step of r that makes its own report the last one. *)
Records(r) ==
  /\ pc'[r] # pc[r]
  /\ last' # last
  /\ last' = [admitted |-> admitted[r], candidates |-> candidates[r]]

(* A change is recorded as reported only after the operator was told it,   *)
(* except an announced recovery, and unless two runs compared at a time.   *)
(* A run that is killed or refused anywhere before has recorded nothing,   *)
(* so a later one tells what it left out.                                  *)
RecordedIsTold ==
  [][\A r \in Fetchers : Records(r) /\ ~raced =>
       /\ \A o \in last'.admitted \ last.admitted :
            <<"added", o>> \in told \/ o \in returning[r]
       /\ \A o \in last.admitted \ last'.admitted : <<"removed", o>> \in told
       /\ \A o \in last'.candidates \ last.candidates : <<"candidate", o>> \in told]_vars
=============================================================================
