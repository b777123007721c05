---------------------------- MODULE RunNewsProofs ----------------------------
(***************************************************************************)
(* Proofs about the Feed Document and about what runs tell, for any number *)
(* of fetchers, Offerings and edits.                                       *)
(*                                                                         *)
(* feed.json is whole because a fetcher that is alone holds the inode that *)
(* feed.json.fetching leads to, and has written it as far as its offset.   *)
(* A recorded change is told because the run about to record it compared   *)
(* with the very report it replaces: nobody else may write in between.     *)
(***************************************************************************)
EXTENDS RunNews, TLAPS

(* A fetcher has a document just as long as it has a file open. *)
OpenIsWriting == \A f \in Fetchers : body[f] # None <=> open[f] # None

(* The one fetcher at work writes the file named feed.json.fetching, and   *)
(* has written its first offset parts.                                     *)
WritesFetching(f) ==
  /\ open[f] = fetching
  /\ \A p \in Part : content[fetching][p] = IF p <= offset[f] THEN body[f] ELSE None

Alone ==
  /\ \A f, g \in Fetchers : body[f] # None /\ body[g] # None => f = g
  /\ \A f \in Fetchers : body[f] # None => WritesFetching(f)

FeedInv ==
  /\ FeedTypeOK
  /\ OpenIsWriting
  /\ ~overlapped => Whole(feed) /\ Alone

(* The run that has told its news compared with the last report. *)
Compared ==
  ~raced => \A r \in Fetchers : pc[r] = "telling" =>
    /\ \A s \in Fetchers : pc[s] = "telling" => s = r
    /\ Changes(r) \subseteq told

IInv == TypeOK /\ FeedInv /\ Compared

-----------------------------------------------------------------------------
(* The first document is whole, and nobody writes. *)
LEMMA FeedInitially == FeedInit => FeedInv
<1> SUFFICES ASSUME FeedInit PROVE FeedInv
  OBVIOUS
<1> USE FeedAssumption DEF FeedInit
<1>1. PICK d \in Answers : content = [i \in Inode |-> IF i = feed THEN [p \in Part |-> d] ELSE Empty]
  OBVIOUS
<1>2. content \in [Inode -> [Part -> Answers \cup {None}]]
  BY <1>1 DEF Empty, Part
<1>3. Whole(feed)
  BY <1>1 DEF Whole, Part
<1>4. FeedTypeOK
  <2>1. body \in [Fetchers -> Answers \cup {None}] /\ open \in [Fetchers -> Inode \cup {None}]
    OBVIOUS
  <2>2. offset \in [Fetchers -> 0..2] /\ fetches \in 0..MaxFetches
    OBVIOUS
  <2>3. QED BY <1>2, <2>1, <2>2 DEF FeedTypeOK
<1>5. OpenIsWriting /\ Alone
  BY DEF OpenIsWriting, Alone
<1>6. QED BY <1>3, <1>4, <1>5 DEF FeedInv

(* A file is opened: it is not feed.json. *)
LEMMA OpenKeeps == ASSUME FeedInv, NEW f \in Fetchers, Open(f) PROVE FeedInv'
<1> USE FeedAssumption DEF FeedInv, FeedTypeOK
<1>1. PICK d \in Answers : body' = [body EXCEPT ![f] = d]
  BY DEF Open
<1>2. PICK i \in Inode :
        /\ Opened(i)
        /\ fetching' = i
        /\ open' = [open EXCEPT ![f] = i]
        /\ content' = [content EXCEPT ![i] = Empty]
  BY DEF Open
<1>3. i # feed /\ feed' = feed
  BY <1>2 DEF Opened, Open
<1>4. Empty \in [Part -> Answers \cup {None}]
  BY DEF Empty
<1>5. FeedTypeOK'
  <2>1. content' \in [Inode -> [Part -> Answers \cup {None}]]
    BY <1>2, <1>4
  <2>2. QED BY <1>1, <1>2, <1>3, <2>1 DEF Open
<1>6. OpenIsWriting'
  BY <1>1, <1>2 DEF OpenIsWriting
<1>7. ASSUME ~overlapped' PROVE Whole(feed)' /\ Alone'
  <2>1. ~overlapped /\ \A g \in Fetchers : body[g] = None
    BY <1>7 DEF Open, Writing
  <2>2. Whole(feed)'
    BY <1>2, <1>3, <2>1 DEF Whole
  <2>3. \A g \in Fetchers : body'[g] # None => g = f
    BY <1>1, <2>1
  <2>4. WritesFetching(f)'
    BY <1>1, <1>2 DEF Open, WritesFetching, Empty, Part
  <2>5. QED BY <2>2, <2>3, <2>4 DEF Alone
<1>8. QED BY <1>5, <1>6, <1>7

(* A part is written: to the file that is not feed.json, if one is alone. *)
LEMMA WriteKeeps == ASSUME FeedInv, NEW f \in Fetchers, WritePart(f) PROVE FeedInv'
<1> USE FeedAssumption DEF FeedInv, FeedTypeOK
<1> DEFINE n == offset[f] + 1
<1>1. n \in Part /\ offset[f] \in 0..2
  BY DEF WritePart, Part
<1>2. open[f] \in Inode /\ body[f] \in Answers
  BY DEF WritePart, OpenIsWriting
<1>3. content' = [content EXCEPT ![open[f]] = [@ EXCEPT ![n] = body[f]]]
  BY DEF WritePart
<1>4. FeedTypeOK'
  <2>1. [content[open[f]] EXCEPT ![n] = body[f]] \in [Part -> Answers \cup {None}]
    BY <1>1, <1>2
  <2>2. content' \in [Inode -> [Part -> Answers \cup {None}]]
    BY <1>2, <1>3, <2>1
  <2>3. offset' \in [Fetchers -> 0..2]
    BY DEF WritePart
  <2>4. QED BY <2>2, <2>3 DEF WritePart
<1>5. OpenIsWriting'
  BY DEF OpenIsWriting, WritePart
<1>6. ASSUME ~overlapped' PROVE Whole(feed)' /\ Alone'
  <2>1. Whole(feed) /\ Alone /\ open[f] = fetching /\ fetching # feed
    BY <1>2, <1>6 DEF WritePart, Alone, WritesFetching
  <2>2. Whole(feed)'
    BY <1>3, <2>1 DEF Whole, WritePart
  <2>3. \A g \in Fetchers : body'[g] # None => g = f
    BY <2>1 DEF Alone, WritePart
  <2>4. WritesFetching(f)'
    <3>1. WritesFetching(f)
      BY <2>1 DEF Alone, WritePart
    <3>2. SUFFICES ASSUME NEW p \in Part
                   PROVE content'[fetching][p] = IF p <= offset'[f] THEN body[f] ELSE None
      BY <2>1 DEF WritesFetching, WritePart
    <3>3. offset'[f] = n
      BY DEF WritePart
    <3>4. content'[fetching] = [content[fetching] EXCEPT ![n] = body[f]]
      BY <1>2, <1>3, <2>1
    <3>5. content[fetching][p] = IF p <= offset[f] THEN body[f] ELSE None
      BY <3>1 DEF WritesFetching
    <3>6. DOMAIN content[fetching] = Part
      BY <1>2, <2>1
    <3>7. content'[fetching][p] = IF p = n THEN body[f] ELSE content[fetching][p]
      BY <3>4, <3>6
    <3>8. QED BY <1>1, <3>3, <3>5, <3>7 DEF Part
  <2>5. QED BY <2>2, <2>3, <2>4 DEF Alone, WritePart
<1>7. QED BY <1>4, <1>5, <1>6

(* A fetcher that is done leaves well-formed state behind. *)
LEMMA CloseKeeps ==
  ASSUME FeedInv, NEW f \in Fetchers, Close(f),
         feed' \in Inode, fetching' \in (Inode \ {feed'}) \cup {None},
         UNCHANGED <<fetches, overlapped>>
  PROVE  FeedTypeOK' /\ OpenIsWriting'
<1> USE FeedAssumption DEF FeedInv, FeedTypeOK, Close
<1>1. Empty \in [Part -> Answers \cup {None}]
  BY DEF Empty
<1>2. content' \in [Inode -> [Part -> Answers \cup {None}]]
  BY <1>1
<1>3. body' \in [Fetchers -> Answers \cup {None}]
      /\ open' \in [Fetchers -> Inode \cup {None}]
      /\ offset' \in [Fetchers -> 0..2]
  OBVIOUS
<1>4. QED BY <1>2, <1>3 DEF OpenIsWriting

(* The only writer there was is done: nobody writes, and the file that is  *)
(* feed.json then is as it was.                                            *)
LEMMA CloseLeavesWhole ==
  ASSUME FeedInv, NEW f \in Fetchers, body[f] # None, Close(f), ~overlapped,
         feed' \in Inode, Whole(feed')
  PROVE  Whole(feed)' /\ Alone'
<1> USE FeedAssumption DEF FeedInv, FeedTypeOK, Close
<1>1. content'[feed'] = content[feed']
  OBVIOUS
<1>2. Whole(feed)'
  BY <1>1 DEF Whole
<1>3. \A g \in Fetchers : body'[g] = None
  BY DEF Alone
<1>4. QED BY <1>2, <1>3 DEF Alone

(* A fetcher whose write fails, or that is killed, leaves feed.json. *)
LEMMA DropKeeps ==
  ASSUME FeedInv, NEW f \in Fetchers, WriteFails(f) \/ Killed(f) PROVE FeedInv'
<1> USE FeedAssumption DEF FeedInv, FeedTypeOK
<1>1. /\ body[f] # None /\ Close(f) /\ feed' = feed
      /\ fetching' \in {fetching, None} /\ UNCHANGED <<fetches, overlapped>>
  BY DEF WriteFails, Killed
<1>2. FeedTypeOK' /\ OpenIsWriting'
  <2>1. feed' \in Inode /\ fetching' \in (Inode \ {feed'}) \cup {None}
    BY <1>1
  <2>2. QED BY <1>1, <2>1, CloseKeeps
<1>3. ~overlapped' => Whole(feed)' /\ Alone'
  BY <1>1, CloseLeavesWhole DEF Whole
<1>4. QED BY <1>2, <1>3

(* What a lone fetcher promotes is its own, wholly written document. *)
LEMMA PromoteKeeps == ASSUME FeedInv, NEW f \in Fetchers, Promote(f) PROVE FeedInv'
<1> USE FeedAssumption DEF FeedInv, FeedTypeOK
<1>1. /\ body[f] # None /\ offset[f] = 2 /\ Close(f) /\ fetching' = None
      /\ feed' = IF fetching = None THEN feed ELSE fetching
      /\ UNCHANGED <<fetches, overlapped>>
  BY DEF Promote
<1>2. feed' \in Inode
  BY <1>1
<1>3. ASSUME ~overlapped PROVE Whole(feed')
  <2>1. WritesFetching(f) /\ fetching \in Inode
    BY <1>1, <1>3 DEF Alone, WritesFetching, OpenIsWriting
  <2>2. content[fetching][1] = body[f] /\ content[fetching][2] = body[f]
    BY <1>1, <2>1 DEF WritesFetching, Part
  <2>3. QED BY <1>1, <2>1, <2>2 DEF Whole
<1>4. FeedTypeOK' /\ OpenIsWriting'
  BY <1>1, <1>2, CloseKeeps
<1>5. ~overlapped' => Whole(feed)' /\ Alone'
  BY <1>1, <1>2, <1>3, CloseLeavesWhole
<1>6. QED BY <1>4, <1>5

(* A step that leaves the Feed's files alone keeps its invariant. *)
LEMMA FeedStutters == ASSUME FeedInv, UNCHANGED feedVars PROVE FeedInv'
  BY DEF FeedInv, FeedTypeOK, OpenIsWriting, Alone, WritesFetching, Whole,
         feedVars, files, fetch

(* The invariant of the Feed is kept by every step of a run. *)
LEMMA FeedStep == ASSUME FeedInv, [Next]_vars PROVE FeedInv'
<1>1. ASSUME NEW r \in Fetchers, FetchStep(r) PROVE FeedInv'
  BY <1>1, OpenKeeps, WriteKeeps, DropKeeps, PromoteKeeps DEF FetchStep, Fetch
<1>2. ASSUME NEW r \in Fetchers, Die(r) PROVE FeedInv'
  BY <1>2, DropKeeps, FeedStutters DEF Die
<1>3. ASSUME NEW o \in Offerings, PolicyEdited(o) \/ FoldedElsewhere(o) PROVE FeedInv'
  BY <1>3, FeedStutters DEF PolicyEdited, FoldedElsewhere
<1>4. ASSUME NEW r \in Fetchers,
             \/ Begin(r) \/ FeedRefused(r) \/ FoldAndPlan(r)
             \/ Refused(r) \/ Notify(r) \/ WriteLast(r)
      PROVE FeedInv'
  BY <1>4, FeedStutters DEF Begin, FeedRefused, FoldAndPlan, Refused, Notify, WriteLast
<1>5. CASE UNCHANGED vars
  BY <1>5, FeedStutters DEF vars
<1>6. QED BY <1>1, <1>2, <1>3, <1>4, <1>5 DEF Next

-----------------------------------------------------------------------------
(* The initial state satisfies the invariant. *)
LEMMA Initially == Init => IInv
<1> SUFFICES ASSUME Init PROVE IInv
  OBVIOUS
<1>1. FeedInv
  BY FeedInitially DEF Init
<1>2. TypeOK
  <2>1. FeedTypeOK /\ edits \in 0..MaxEdits
    BY <1>1, NewsAssumption DEF Init, FeedInv
  <2>2. AllAsked \in [Offerings -> Choice] /\ Nobody \in [Offerings -> Bucket]
    BY DEF AllAsked, Nobody, Choice, Bucket
  <2>3. policy \in [Offerings -> Choice] /\ bucket \in [Offerings -> Bucket]
    BY <2>2 DEF Init
  <2>4. last \in [admitted : SUBSET Offerings, candidates : SUBSET Offerings]
    BY DEF Init, NoReport
  <2>5. /\ pc \in [Fetchers -> Stage]
        /\ asked \in [Fetchers -> [Offerings -> Choice]]
        /\ prior \in [Fetchers -> [Offerings -> Bucket]]
    BY <2>2 DEF Init, Stage
  <2>6. /\ returning \in [Fetchers -> SUBSET Offerings]
        /\ admitted \in [Fetchers -> SUBSET Offerings]
        /\ candidates \in [Fetchers -> SUBSET Offerings]
    BY DEF Init
  <2>7. told \in SUBSET ({"added", "removed", "candidate"} \X Offerings) /\ raced \in BOOLEAN
    BY DEF Init
  <2>8. QED BY <2>1, <2>3, <2>4, <2>5, <2>6, <2>7 DEF TypeOK
<1>3. Compared
  BY DEF Init, Compared
<1>4. QED BY <1>1, <1>2, <1>3 DEF IInv

(* Back leaves what a run keeps well-formed. *)
LEMMA BackTypes ==
  ASSUME TypeOK, NEW r \in Fetchers, Back(r)
  PROVE  /\ pc' \in [Fetchers -> Stage]
         /\ asked' \in [Fetchers -> [Offerings -> Choice]]
         /\ prior' \in [Fetchers -> [Offerings -> Bucket]]
         /\ returning' \in [Fetchers -> SUBSET Offerings]
         /\ admitted' \in [Fetchers -> SUBSET Offerings]
         /\ candidates' \in [Fetchers -> SUBSET Offerings]
<1>1. AllAsked \in [Offerings -> Choice] /\ Nobody \in [Offerings -> Bucket]
  BY DEF AllAsked, Nobody, Choice, Bucket
<1>2. QED BY <1>1 DEF TypeOK, Back, Forget, Stage

(* The type invariant is preserved. *)
LEMMA TypeStep == ASSUME TypeOK, FeedInv, [Next]_vars PROVE TypeOK'
<1> USE NewsAssumption
<1>0. FeedTypeOK'
  BY FeedStep DEF FeedInv
<1>1. ASSUME NEW o \in Offerings, PolicyEdited(o) PROVE TypeOK'
  BY <1>0, <1>1 DEF PolicyEdited, Edit, TypeOK, run, history
<1>2. ASSUME NEW o \in Offerings, FoldedElsewhere(o) PROVE TypeOK'
  BY <1>0, <1>2 DEF FoldedElsewhere, Edit, TypeOK, run, history
<1>3. ASSUME NEW r \in Fetchers, Begin(r) PROVE TypeOK'
  <2>1. pc' \in [Fetchers -> Stage]
    BY <1>3 DEF Begin, TypeOK, Stage
  <2>2. asked' \in [Fetchers -> [Offerings -> Choice]]
        /\ prior' \in [Fetchers -> [Offerings -> Bucket]]
    BY <1>3 DEF Begin, TypeOK
  <2>3. QED BY <1>0, <1>3, <2>1, <2>2 DEF Begin, TypeOK, world, history
<1>4. ASSUME NEW r \in Fetchers, FeedRefused(r) \/ Refused(r) PROVE TypeOK'
  <2>1. Back(r) /\ UNCHANGED <<feedVars, world, edits, history>>
    BY <1>4 DEF FeedRefused, Refused
  <2>2. QED BY <1>0, <2>1, BackTypes DEF TypeOK, world, history
<1>5. ASSUME NEW r \in Fetchers, FoldAndPlan(r) PROVE TypeOK'
  <2>1. bucket' \in [Offerings -> Bucket]
    BY <1>5 DEF FoldAndPlan
  <2>2. /\ admitted' \in [Fetchers -> SUBSET Offerings]
        /\ candidates' \in [Fetchers -> SUBSET Offerings]
    <3>1. Document(feed) \subseteq Offerings
      BY <1>5, FeedAssumption DEF FoldAndPlan, Document, Whole, FeedInv, FeedTypeOK, Part
    <3> DEFINE listed == {o \in Document(feed) : asked[r][o] # "withheld"}
               in  == {o \in listed : bucket'[o] # "gone" /\ asked[r][o] = "approved"}
               may == {o \in listed : bucket'[o] # "gone" /\ asked[r][o] = "awaited"}
    <3>2. in \in SUBSET Offerings /\ may \in SUBSET Offerings
      BY <3>1
    <3>3. admitted' = [admitted EXCEPT ![r] = in] /\ candidates' = [candidates EXCEPT ![r] = may]
      BY <1>5 DEF FoldAndPlan
    <3> HIDE DEF in, may
    <3>4. QED BY <3>2, <3>3 DEF TypeOK
  <2>3. returning' \in [Fetchers -> SUBSET Offerings]
    <3>1. {o \in Offerings : prior[r][o] = "recovering"} \in SUBSET Offerings
      OBVIOUS
    <3>2. QED BY <1>5, <3>1 DEF FoldAndPlan, TypeOK
  <2>4. pc' \in [Fetchers -> Stage]
    BY <1>5 DEF FoldAndPlan, TypeOK, Stage
  <2>5. asked' \in [Fetchers -> [Offerings -> Choice]]
        /\ prior' \in [Fetchers -> [Offerings -> Bucket]]
    <3>1. AllAsked \in [Offerings -> Choice] /\ Nobody \in [Offerings -> Bucket]
      BY DEF AllAsked, Nobody, Choice, Bucket
    <3>2. QED BY <1>5, <3>1 DEF FoldAndPlan, Forget, TypeOK
  <2>6. QED BY <1>0, <1>5, <2>1, <2>2, <2>3, <2>4, <2>5 DEF FoldAndPlan, TypeOK, history
<1>6. ASSUME NEW r \in Fetchers, Notify(r) PROVE TypeOK'
  <2>1. Changes(r) \subseteq {"added", "removed", "candidate"} \X Offerings
    <3>1. /\ admitted[r] \subseteq Offerings /\ candidates[r] \subseteq Offerings
          /\ last.admitted \subseteq Offerings
      BY DEF TypeOK
    <3>2. QED BY <3>1 DEF Changes
  <2>2. told' \in SUBSET ({"added", "removed", "candidate"} \X Offerings)
    BY <1>6, <2>1 DEF Notify, TypeOK
  <2>3. pc' \in [Fetchers -> Stage]
    BY <1>6 DEF Notify, TypeOK, Stage
  <2>4. QED BY <1>0, <1>6, <2>2, <2>3 DEF Notify, TypeOK, world
<1>7. ASSUME NEW r \in Fetchers, WriteLast(r) PROVE TypeOK'
  <2>1. last' \in [admitted : SUBSET Offerings, candidates : SUBSET Offerings]
    BY <1>7 DEF WriteLast, TypeOK
  <2>2. Back(r)
    BY <1>7 DEF WriteLast
  <2>3. QED BY <1>0, <1>7, <2>1, <2>2, BackTypes DEF WriteLast, TypeOK
<1>8. ASSUME NEW r \in Fetchers, Die(r) PROVE TypeOK'
  <2>1. Back(r) /\ UNCHANGED <<policy, bucket, edits, raced>>
    BY <1>8 DEF Die
  <2>2. last' \in [admitted : SUBSET Offerings, candidates : SUBSET Offerings]
        /\ told' \in SUBSET ({"added", "removed", "candidate"} \X Offerings)
    BY <1>8 DEF Die, TypeOK, NoReport
  <2>3. QED BY <1>0, <2>1, <2>2, BackTypes DEF TypeOK
<1>9. ASSUME NEW r \in Fetchers, FetchStep(r) PROVE TypeOK'
  <2>1. pc' \in [Fetchers -> Stage]
    BY <1>9 DEF FetchStep, TypeOK, Stage
  <2>2. QED BY <1>0, <1>9, <2>1 DEF FetchStep, TypeOK, world, history
<1>10. CASE UNCHANGED vars
  BY <1>0, <1>10 DEF TypeOK, vars, world, run, history
<1>11. QED BY <1>1, <1>2, <1>3, <1>4, <1>5, <1>6, <1>7, <1>8, <1>9, <1>10 DEF Next

(* A step that changes neither the last report nor the runs that are       *)
(* telling keeps the comparison good.                                      *)
LEMMA ComparedStutters ==
  ASSUME TypeOK, Compared, UNCHANGED <<last, told, raced>>,
         \A r \in Fetchers : pc'[r] = "telling" =>
           pc[r] = "telling" /\ Changes(r)' = Changes(r)
  PROVE  Compared'
  BY DEF Compared

(* The comparison a telling run made stays good. *)
LEMMA ComparedStep == ASSUME TypeOK, Compared, [Next]_vars PROVE Compared'
<1>1. ASSUME NEW o \in Offerings, PolicyEdited(o) \/ FoldedElsewhere(o) PROVE Compared'
  <2>1. UNCHANGED <<last, run, history>>
    BY <1>1 DEF PolicyEdited, FoldedElsewhere
  <2>2. QED BY <2>1, ComparedStutters DEF run, history, Changes
<1>2. ASSUME NEW r \in Fetchers, Begin(r) \/ FetchStep(r) PROVE Compared'
  <2>1. /\ UNCHANGED <<last, told, raced, admitted, candidates, returning>>
        /\ \A s \in Fetchers : pc'[s] = "telling" => pc[s] = "telling"
    BY <1>2 DEF Begin, FetchStep, world, history, TypeOK
  <2>2. QED BY <2>1, ComparedStutters DEF Changes
<1>3. ASSUME NEW r \in Fetchers, FeedRefused(r) \/ Refused(r) PROVE Compared'
  <2>1. Back(r) /\ UNCHANGED <<world, history>>
    BY <1>3 DEF FeedRefused, Refused
  <2>2. \A s \in Fetchers : pc'[s] = "telling" =>
          pc[s] = "telling" /\ admitted'[s] = admitted[s]
          /\ candidates'[s] = candidates[s] /\ returning'[s] = returning[s]
    BY <2>1 DEF Back, TypeOK
  <2>3. QED BY <2>1, <2>2, ComparedStutters DEF Changes, world, history
<1>4. ASSUME NEW r \in Fetchers, FoldAndPlan(r) PROVE Compared'
  <2>1. UNCHANGED <<last, told, raced>>
    BY <1>4 DEF FoldAndPlan, history
  <2>2. \A s \in Fetchers : pc'[s] = "telling" =>
          pc[s] = "telling" /\ admitted'[s] = admitted[s]
          /\ candidates'[s] = candidates[s] /\ returning'[s] = returning[s]
    BY <1>4 DEF FoldAndPlan, TypeOK
  <2>3. QED BY <2>1, <2>2, ComparedStutters DEF Changes
<1>5. ASSUME NEW r \in Fetchers, Notify(r) PROVE Compared'
  <2>1. SUFFICES ASSUME ~raced', NEW s \in Fetchers, pc'[s] = "telling"
                 PROVE  /\ \A t \in Fetchers : pc'[t] = "telling" => t = s
                        /\ (Changes(s) \subseteq told)'
    BY DEF Compared
  <2>2. \A t \in Fetchers : pc'[t] = "telling" => t = r
    BY <1>5, <2>1 DEF Notify, TypeOK
  <2>3. Changes(r)' = Changes(r) /\ told' = told \cup Changes(r)
    BY <1>5 DEF Notify, Changes, world
  <2>4. QED BY <2>1, <2>2, <2>3
<1>6. ASSUME NEW r \in Fetchers, WriteLast(r) PROVE Compared'
  <2>1. pc[r] = "telling" /\ raced' = raced /\ pc' = [pc EXCEPT ![r] = "idle"]
    BY <1>6 DEF WriteLast, Back
  <2>2. ~raced' => \A s \in Fetchers : pc'[s] # "telling"
    BY <2>1 DEF Compared, TypeOK
  <2>3. QED BY <2>2 DEF Compared
<1>7. ASSUME NEW r \in Fetchers, Die(r) PROVE Compared'
  <2>1. Back(r) /\ raced' = raced
    BY <1>7 DEF Die
  <2>2. \A s \in Fetchers : pc'[s] = "telling" =>
          s # r /\ pc[s] = "telling" /\ admitted'[s] = admitted[s]
          /\ candidates'[s] = candidates[s] /\ returning'[s] = returning[s]
    BY <2>1 DEF Back, TypeOK
  <2>3. CASE UNCHANGED <<last, told>>
    BY <2>1, <2>2, <2>3, ComparedStutters DEF Changes
  <2>4. CASE pc[r] = "telling"
    BY <2>1, <2>2, <2>4 DEF Compared
  <2>5. QED BY <1>7, <2>3, <2>4 DEF Die
<1>8. CASE UNCHANGED vars
  BY <1>8, ComparedStutters DEF vars, world, run, history, Changes
<1>9. QED BY <1>1, <1>2, <1>3, <1>4, <1>5, <1>6, <1>7, <1>8 DEF Next

(* The invariant is inductive. *)
LEMMA Step == IInv /\ [Next]_vars => IInv'
  BY FeedStep, TypeStep, ComparedStep DEF IInv

LEMMA Invariant == Spec => []IInv
  BY Initially, Step, PTL DEF Spec

-----------------------------------------------------------------------------
(* The type invariant holds in every behaviour. *)
THEOREM TypeCorrect == Spec => []TypeOK
<1>1. IInv => TypeOK
  BY DEF IInv
<1>2. QED BY <1>1, Invariant, PTL

(* feed.json is whole unless two fetches overlapped, whatever write fails  *)
(* and wherever a fetcher is killed, for any number of them.               *)
THEOREM WholeUnlessOverlapped == Spec => []TornOnlyByOverlap
<1>1. IInv => TornOnlyByOverlap
  BY DEF IInv, FeedInv, TornOnlyByOverlap
<1>2. QED BY <1>1, Invariant, PTL

(* A step records only what was told, if no two runs raced. *)
LEMMA RecordsOnlyTold ==
  ASSUME IInv, [Next]_vars, NEW r \in Fetchers, Records(r), ~raced
  PROVE  /\ \A o \in last'.admitted \ last.admitted :
              <<"added", o>> \in told \/ o \in returning[r]
         /\ \A o \in last.admitted \ last'.admitted : <<"removed", o>> \in told
         /\ \A o \in last'.candidates \ last.candidates : <<"candidate", o>> \in told
<1> USE DEF IInv
<1>1. last' # last /\ pc'[r] # pc[r]
  BY DEF Records
<1>2. PICK s \in Fetchers : (WriteLast(s) \/ Die(s)) /\ pc[s] = "telling" /\ Back(s)
  <2>1. ~ UNCHANGED vars
    BY <1>1 DEF vars, world
  <2>2. \A o \in Offerings : ~ PolicyEdited(o) /\ ~ FoldedElsewhere(o)
    BY <1>1 DEF PolicyEdited, FoldedElsewhere
  <2>3. \A t \in Fetchers :
          /\ ~Begin(t) /\ ~FetchStep(t) /\ ~FeedRefused(t)
          /\ ~FoldAndPlan(t) /\ ~Refused(t) /\ ~Notify(t)
    BY <1>1 DEF Begin, FetchStep, FeedRefused, FoldAndPlan, Refused, Notify, world
  <2>4. PICK t \in Fetchers : WriteLast(t) \/ Die(t)
    BY <2>1, <2>2, <2>3 DEF Next
  <2>5. pc[t] = "telling" /\ Back(t)
    BY <1>1, <2>4 DEF WriteLast, Die
  <2>6. QED BY <2>4, <2>5
<1>3. s = r
  BY <1>1, <1>2 DEF Back, TypeOK
<1>4. Changes(r) \subseteq told
  BY <1>2, <1>3 DEF Compared
<1>5. last'.admitted = admitted[r] /\ last'.candidates = candidates[r]
  BY DEF Records
<1>6. QED BY <1>4, <1>5 DEF Changes

(* A change is recorded as reported only after the operator was told it.   *)
THEOREM RecordedOnlyTold == Spec => RecordedIsTold
<1>1. IInv /\ [Next]_vars =>
        [\A r \in Fetchers : Records(r) /\ ~raced =>
           /\ \A o \in last'.admitted \ last.admitted :
                <<"added", o>> \in told \/ o \in returning[r]
           /\ \A o \in last.admitted \ last'.admitted : <<"removed", o>> \in told
           /\ \A o \in last'.candidates \ last.candidates : <<"candidate", o>> \in told]_vars
  BY RecordsOnlyTold
<1>2. QED BY <1>1, Invariant, PTL DEF Spec, RecordedIsTold
=============================================================================
