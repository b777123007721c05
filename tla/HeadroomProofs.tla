---------------------------- MODULE HeadroomProofs ---------------------------
(***************************************************************************)
(* Proofs about Headroom, for any number of Allowances, Sources, windows   *)
(* and refreshers.                                                         *)
(*                                                                         *)
(* A Reading is only as good as its age: what one says of a window it may  *)
(* still speak of is a lower bound of what is used (Faithful), wherever it *)
(* is kept.  Of two Readings of a Source the one taken later is the        *)
(* younger; codexbar's own is the youngest, and the records the holder of  *)
(* the lock read are the ones it will replace (Held).                      *)
(***************************************************************************)
EXTENDS Headroom, WellFoundedInduction, TLAPS

(* What a Reading says of windows with levels u, resets in l and last      *)
(* fully drawn f ago.                                                      *)
Faithful(reading, u, l, f) ==
  /\ \A k \in StatedSlots :
       /\ reading.windows[k].left # Unstated
       /\ reading.windows[k].left > 0 =>
            l[k] = reading.windows[k].left /\ reading.windows[k].used <= u[k]
  /\ \A k \in Slots \ StatedSlots :
       /\ reading.windows[k].left = Unstated
       /\ reading.windows[k].used = Full => f[k] <= reading.age

Speaks(reading, s) == Faithful(reading, used[s], left[s], sinceFull[s])

FullNow ==
  \A s \in Sources : \A k \in Slots \ StatedSlots :
    used[s][k] = Full => sinceFull[s][k] = 0

(* Every Reading, wherever it is, is faithful, and none is younger than    *)
(* codexbar's.                                                             *)
MeasuredFaithful == \A s \in Sources : codexbar[s] # None => Speaks(codexbar[s], s)

AnswersFaithful ==
  \A r \in Refreshers : \A s \in Sources : answers[r][s] # None =>
    /\ Speaks(answers[r][s], s)
    /\ codexbar[s] # None /\ codexbar[s].age <= answers[r][s].age

RecordsFaithful ==
  \A a \in Allowances : records[a] # None =>
    LET s == records[a].source IN
    /\ Speaks(records[a].reading, s)
    /\ codexbar[s] # None /\ codexbar[s].age <= records[a].reading.age

Holding == {"locked", "batched", "asked"}

(* The holder of the lock read what Headroom State still is, and has been  *)
(* given nothing older.                                                    *)
Held ==
  \A r \in Refreshers :
    /\ pc[r] \in Holding <=> lock = r
    /\ lock # r => \A s \in Sources : answers[r][s] = None
    /\ lock = r =>
         /\ previous[r] = records
         /\ \A a \in Allowances :
              records[a] # None /\ answers[r][records[a].source] # None
              => answers[r][records[a].source].age <= records[a].reading.age

(* A rise that was reported still shows in the records. *)
FiredShows ==
  \A c \in fired :
    /\ c.allowance \in Allowances /\ c.slot \in Slots
    /\ records[c.allowance] # None /\ records[c.allowance].source = c.source
    /\ records[c.allowance].reading.windows[c.slot].used >= c.threshold
    /\ ~Void(records[c.allowance].reading, c.slot, 0)

IInv ==
  /\ TypeOK
  /\ FullNow
  /\ MeasuredFaithful /\ AnswersFaithful /\ RecordsFaithful
  /\ Held
  /\ FiredShows

-----------------------------------------------------------------------------
(* Among some windows of a Reading there is one that is drawn the most:    *)
(* levels are bounded, so the distances to Full have a least one.          *)
LEMMA WorstIsWorst ==
  ASSUME NEW slots, slots \subseteq Slots, slots # {}, NEW reading \in Reading
  PROVE  /\ Worst(slots, reading) \in slots
         /\ \A j \in slots :
              reading.windows[j].used <= reading.windows[Worst(slots, reading)].used
<1> DEFINE u(k) == reading.windows[k].used
           spare == {Full - u(k) : k \in slots}
<1>1. \A k \in slots : u(k) \in 0..Full
  BY DEF Reading, Window
<1>2. spare \subseteq Nat /\ spare # {}
  BY <1>1, HeadroomAssumption
<1>3. PICK x \in spare : \A y \in spare : ~ (<<y, x>> \in OpToRel(<, Nat))
  BY <1>2, WFMin, NatLessThanWellFounded
<1>4. \A y \in spare : x <= y
  <2>1. ASSUME NEW m \in Nat, NEW n \in Nat, m < n PROVE <<m, n>> \in OpToRel(<, Nat)
    BY <2>1, Zenon DEF OpToRel
  <2>2. ASSUME NEW y \in spare PROVE x <= y
    <3>1. x \in Nat /\ y \in Nat
      BY <1>2
    <3>2. ~ (y < x)
      BY <1>3, <2>1, <3>1
    <3>3. QED BY <3>1, <3>2
  <2>3. QED BY <2>2
<1>5. PICK k \in slots : x = Full - u(k)
  OBVIOUS
<1>6. \A j \in slots : u(j) <= u(k)
  <2>1. ASSUME NEW j \in slots PROVE u(j) <= u(k)
    <3>1. Full - u(k) <= Full - u(j)
      BY <1>4, <1>5
    <3> HIDE DEF u
    <3>2. QED BY <1>1, <3>1, HeadroomAssumption
  <2>2. QED BY <2>1
<1>7. QED BY <1>6 DEF Worst

(* What a unit of time does to a Reading. *)
LEMMA OlderReading ==
  ASSUME NEW reading \in Reading
  PROVE  /\ Older(reading) \in Reading
         /\ Older(reading).age = IF reading.age = MaxAge THEN MaxAge ELSE reading.age + 1
         /\ \A k \in Slots :
              /\ Older(reading).windows[k].used = reading.windows[k].used
              /\ Older(reading).windows[k].left =
                   IF reading.windows[k].left = Unstated \/ reading.windows[k].left = -MaxRun
                   THEN reading.windows[k].left ELSE reading.windows[k].left - 1
<1> USE HeadroomAssumption
<1>1. reading # None
  BY NoneAssumption
<1>2. \A k \in Slots : reading.windows[k] \in Window
  BY DEF Reading
<1>3. \A k \in Slots : Older(reading).windows[k] =
        [reading.windows[k] EXCEPT !.left =
           IF @ = Unstated \/ @ = -MaxRun THEN @ ELSE @ - 1]
  BY <1>1 DEF Older
<1>4. Older(reading).age = IF reading.age = MaxAge THEN MaxAge ELSE reading.age + 1
  BY <1>1 DEF Older
<1>5. \A k \in Slots :
        /\ Older(reading).windows[k].used = reading.windows[k].used
        /\ Older(reading).windows[k].left =
             IF reading.windows[k].left = Unstated \/ reading.windows[k].left = -MaxRun
             THEN reading.windows[k].left ELSE reading.windows[k].left - 1
  <2>1. SUFFICES ASSUME NEW k \in Slots
                 PROVE  /\ Older(reading).windows[k].used = reading.windows[k].used
                        /\ Older(reading).windows[k].left =
                             IF reading.windows[k].left = Unstated \/ reading.windows[k].left = -MaxRun
                             THEN reading.windows[k].left ELSE reading.windows[k].left - 1
    OBVIOUS
  <2>2. reading.windows[k] \in [used : 0..Full, left : Left \cup {Unstated}]
    BY <1>2 DEF Window
  <2>3. QED BY <1>3, <2>2
<1>6. \A k \in Slots : Older(reading).windows[k] \in Window
  <2>1. SUFFICES ASSUME NEW k \in Slots PROVE Older(reading).windows[k] \in Window
    OBVIOUS
  <2>2. reading.windows[k].left \in (-MaxRun..Length) \cup {Unstated}
    BY <1>2 DEF Window, Left
  <2>3. (IF reading.windows[k].left = Unstated \/ reading.windows[k].left = -MaxRun
         THEN reading.windows[k].left ELSE reading.windows[k].left - 1)
        \in Left \cup {Unstated}
    BY <2>2 DEF Left
  <2>4. /\ reading.windows[k].used \in 0..Full
        /\ Older(reading).windows[k] =
             [used |-> reading.windows[k].used,
              left |-> IF reading.windows[k].left = Unstated \/ reading.windows[k].left = -MaxRun
                       THEN reading.windows[k].left ELSE reading.windows[k].left - 1]
    BY <1>2, <1>3 DEF Window
  <2>5. QED BY <2>3, <2>4 DEF Window
<1>7. Older(reading).age \in Age
  BY <1>4 DEF Reading, Age, MaxAge
<1>8. Older(reading) \in Reading
  BY <1>1, <1>6, <1>7 DEF Older, Reading
<1>9. QED BY <1>4, <1>5, <1>8

LEMMA OlderRecordIs ==
  ASSUME NEW record \in Record
  PROVE  /\ OlderRecord(record) \in Record
         /\ OlderRecord(record).source = record.source
         /\ OlderRecord(record).reading = Older(record.reading)
  BY OlderReading, NoneAssumption DEF OlderRecord, Record

LEMMA OlderOrNone ==
  /\ \A x \in Reading \cup {None} :
       Older(x) \in Reading \cup {None} /\ (Older(x) # None <=> x # None)
  /\ \A x \in Record \cup {None} :
       OlderRecord(x) \in Record \cup {None} /\ (OlderRecord(x) # None <=> x # None)
<1>1. Older(None) = None /\ OlderRecord(None) = None
  BY DEF Older, OlderRecord
<1>2. QED BY <1>1, OlderReading, OlderRecordIs, NoneAssumption

(* A window that is live is live at every later lag, too: lag counts back. *)
LEMMA LiveBefore ==
  ASSUME NEW reading \in Reading, NEW k \in Slots, NEW lag \in Nat, ~Void(reading, k, 0)
  PROVE  ~Void(reading, k, lag)
<1>1. reading.windows[k].left \in Left \cup {Unstated} /\ reading.age \in Nat
  BY HeadroomAssumption DEF Reading, Window, Age, MaxAge
<1>2. QED BY <1>1, HeadroomAssumption DEF Void, Left

-----------------------------------------------------------------------------
(* The initial state satisfies the invariant. *)
LEMMA Initially == Init => IInv
<1> SUFFICES ASSUME Init PROVE IInv
  OBVIOUS
<1> USE HeadroomAssumption
<1>1. TypeOK
  <2>1. used \in [Sources -> [Slots -> 0..Full]] /\ left \in [Sources -> [StatedSlots -> 1..Length]]
    BY DEF Init
  <2>2. codexbar \in [Sources -> Reading \cup {None}] /\ mapping \in [Allowances -> Sources \cup {None}]
    BY DEF Init, NoAnswers
  <2>3. records \in [Allowances -> Record \cup {None}] /\ lock \in Refreshers \cup {None}
    BY DEF Init, NoRecords
  <2>4. /\ pc \in [Refreshers -> Stage]
        /\ policy \in [Refreshers -> [Allowances -> Sources \cup {None}]]
        /\ waited \in [Refreshers -> 0..MaxRun]
    BY DEF Init, Stage, Unmapped
  <2>5. /\ previous \in [Refreshers -> [Allowances -> Record \cup {None}]]
        /\ answers \in [Refreshers -> [Sources -> Reading \cup {None}]]
    BY DEF Init, NoRecords, NoAnswers
  <2>6. changes \in 0..MaxChanges
    BY DEF Init
  <2>7. sinceFull \in [Sources -> [Slots \ StatedSlots -> Age]]
    <3>1. MaxAge \in Age
      BY DEF Age, MaxAge
    <3>2. QED BY <3>1 DEF Init
  <2>8. QED BY <2>1, <2>2, <2>3, <2>4, <2>5, <2>6, <2>7 DEF TypeOK
<1>2. FullNow /\ MeasuredFaithful
  BY DEF Init, FullNow, MeasuredFaithful, NoAnswers
<1>3. AnswersFaithful /\ RecordsFaithful
  BY DEF Init, AnswersFaithful, RecordsFaithful, NoAnswers, NoRecords
<1>4. Held /\ FiredShows
  BY DEF Init, Held, FiredShows, Holding, NoAnswers
<1>5. QED BY <1>1, <1>2, <1>3, <1>4 DEF IInv

(* What codexbar measures is a Reading, taken now. *)
LEMMA Measured ==
  ASSUME TypeOK, NEW s \in Sources, Measure(s)
  PROVE  \E reading \in Reading :
           /\ codexbar' = [codexbar EXCEPT ![s] = reading]
           /\ reading = [windows |-> [k \in Slots |->
                            [used |-> used[s][k],
                             left |-> IF k \in StatedSlots THEN left[s][k] ELSE Unstated]],
                         age |-> 0]
<1> USE HeadroomAssumption
<1> DEFINE windows == [k \in Slots |->
                         [used |-> used[s][k],
                          left |-> IF k \in StatedSlots THEN left[s][k] ELSE Unstated]]
           reading == [windows |-> windows, age |-> 0]
<1>1. \A k \in Slots : windows[k] \in Window
  <2>1. SUFFICES ASSUME NEW k \in Slots PROVE windows[k] \in Window
    OBVIOUS
  <2>2. used[s][k] \in 0..Full /\ (k \in StatedSlots => left[s][k] \in Left)
    BY DEF TypeOK, Left
  <2>3. QED BY <2>2 DEF Window
<1>2. reading \in Reading
  BY <1>1 DEF Reading, Age, MaxAge
<1>3. codexbar' = [codexbar EXCEPT ![s] = reading]
  BY DEF Measure
<1>4. QED BY <1>2, <1>3

(* Back leaves what a refresher keeps well-formed. *)
LEMMA BackTypes ==
  ASSUME TypeOK, NEW r \in Refreshers, Back(r)
  PROVE  /\ pc' \in [Refreshers -> Stage]
         /\ policy' \in [Refreshers -> [Allowances -> Sources \cup {None}]]
         /\ waited' \in [Refreshers -> 0..MaxRun]
         /\ previous' \in [Refreshers -> [Allowances -> Record \cup {None}]]
         /\ answers' \in [Refreshers -> [Sources -> Reading \cup {None}]]
<1> USE HeadroomAssumption
<1>1. /\ Unmapped \in [Allowances -> Sources \cup {None}]
      /\ NoRecords \in [Allowances -> Record \cup {None}]
      /\ NoAnswers \in [Sources -> Reading \cup {None}]
  BY DEF Unmapped, NoRecords, NoAnswers
<1>2. "idle" \in Stage /\ 0 \in 0..MaxRun
  BY DEF Stage
<1>3. QED BY <1>1, <1>2 DEF TypeOK, Back

(* The type invariant is preserved. *)
LEMMA TypeStep == ASSUME TypeOK, [Next]_vars PROVE TypeOK'
<1> USE HeadroomAssumption
<1>1. ASSUME NEW s \in Sources, Measure(s) PROVE TypeOK'
  <2>1. codexbar' \in [Sources -> Reading \cup {None}]
    BY <1>1, Measured DEF TypeOK
  <2>2. QED BY <1>1, <2>1 DEF Measure, TypeOK, vendor, locals
<1>2. ASSUME NEW s \in Sources, NEW k \in Slots, Draw(s, k) PROVE TypeOK'
  <2>1. used' \in [Sources -> [Slots -> 0..Full]]
    BY <1>2 DEF Draw, TypeOK
  <2>2. sinceFull' \in [Sources -> [Slots \ StatedSlots -> Age]]
    <3>1. 0 \in Age
      BY DEF Age, MaxAge
    <3>2. QED BY <1>2, <3>1 DEF Draw, TypeOK
  <2>3. changes' \in 0..MaxChanges
    BY <1>2 DEF Draw, Change, TypeOK
  <2>4. QED BY <1>2, <2>1, <2>2, <2>3 DEF Draw, TypeOK, locals
<1>3. ASSUME NEW s \in Sources, NEW k \in Slots, GiveBack(s, k) PROVE TypeOK'
  <2>1. used' \in [Sources -> [Slots -> 0..Full]]
    BY <1>3 DEF GiveBack, TypeOK
  <2>2. changes' \in 0..MaxChanges
    BY <1>3 DEF GiveBack, Change, TypeOK
  <2>3. QED BY <1>3, <2>1, <2>2 DEF GiveBack, TypeOK, locals
<1>4. ASSUME Pass PROVE TypeOK'
  <2>1. used' \in [Sources -> [Slots -> 0..Full]]
    BY <1>4 DEF Pass, TypeOK
  <2>2. left' \in [Sources -> [StatedSlots -> 1..Length]]
    <3>1. left' = [s \in Sources |-> [k \in StatedSlots |->
                     IF k \in StatedSlots /\ left[s][k] = 1 THEN Length ELSE left[s][k] - 1]]
      BY <1>4 DEF Pass
    <3>2. \A s \in Sources : \A k \in StatedSlots : left[s][k] \in 1..Length
      BY DEF TypeOK
    <3>3. QED BY <3>1, <3>2
  <2>3. sinceFull' \in [Sources -> [Slots \ StatedSlots -> Age]]
    <3>1. \A s \in Sources : \A k \in Slots \ StatedSlots : sinceFull[s][k] \in 0..MaxAge
      BY DEF TypeOK, Age
    <3>2. sinceFull' = [s \in Sources |-> [k \in Slots \ StatedSlots |->
                          IF used'[s][k] = Full THEN 0
                          ELSE IF sinceFull[s][k] = MaxAge THEN MaxAge ELSE sinceFull[s][k] + 1]]
      BY <1>4 DEF Pass
    <3>3. MaxAge \in Nat
      BY DEF MaxAge
    <3>4. \A s \in Sources : \A k \in Slots \ StatedSlots :
            (IF used'[s][k] = Full THEN 0
             ELSE IF sinceFull[s][k] = MaxAge THEN MaxAge ELSE sinceFull[s][k] + 1) \in Age
      BY <3>1, <3>3 DEF Age
    <3>5. QED BY <3>2, <3>4
  <2>4. /\ records' \in [Allowances -> Record \cup {None}]
        /\ codexbar' \in [Sources -> Reading \cup {None}]
        /\ previous' \in [Refreshers -> [Allowances -> Record \cup {None}]]
        /\ answers' \in [Refreshers -> [Sources -> Reading \cup {None}]]
    <3>1. /\ records' = [a \in Allowances |-> OlderRecord(records[a])]
          /\ codexbar' = [s \in Sources |-> Older(codexbar[s])]
          /\ previous' = [r \in Refreshers |-> [a \in Allowances |-> OlderRecord(previous[r][a])]]
          /\ answers' = [r \in Refreshers |-> [s \in Sources |-> Older(answers[r][s])]]
      BY <1>4 DEF Pass
    <3>2. QED BY <3>1, OlderOrNone DEF TypeOK
  <2>5. waited' \in [Refreshers -> 0..MaxRun]
    <3>1. \A r \in Refreshers : (IF pc[r] = "idle" THEN 0 ELSE waited[r] + 1) \in 0..MaxRun
      BY <1>4 DEF Pass, TypeOK
    <3>2. QED BY <1>4, <3>1 DEF Pass
  <2>6. changes' \in 0..MaxChanges
    BY <1>4 DEF Pass, Change, TypeOK
  <2>7. UNCHANGED <<mapping, lock, pc, policy>>
    BY <1>4 DEF Pass
  <2>8. QED BY <2>1, <2>2, <2>3, <2>4, <2>5, <2>6, <2>7 DEF TypeOK
<1>5. ASSUME NEW a \in Allowances, Remap(a) PROVE TypeOK'
  <2>1. mapping' \in [Allowances -> Sources \cup {None}] /\ changes' \in 0..MaxChanges
    BY <1>5 DEF Remap, Change, TypeOK
  <2>2. QED BY <1>5, <2>1 DEF Remap, TypeOK, vendor, locals
<1>6. ASSUME NEW r \in Refreshers, Start(r) PROVE TypeOK'
  <2>1. /\ pc' \in [Refreshers -> Stage]
        /\ policy' \in [Refreshers -> [Allowances -> Sources \cup {None}]]
    BY <1>6 DEF Start, TypeOK, Stage
  <2>2. QED BY <1>6, <2>1 DEF Start, TypeOK, vendor
<1>7. ASSUME NEW r \in Refreshers, GiveUp(r) PROVE TypeOK'
  BY <1>7, BackTypes DEF GiveUp, TypeOK, vendor
<1>8. ASSUME NEW r \in Refreshers, Acquire(r) PROVE TypeOK'
  <2>1. /\ pc' \in [Refreshers -> Stage] /\ lock' \in Refreshers \cup {None}
        /\ previous' \in [Refreshers -> [Allowances -> Record \cup {None}]]
    BY <1>8 DEF Acquire, TypeOK, Stage
  <2>2. QED BY <1>8, <2>1 DEF Acquire, TypeOK, vendor
<1>9. ASSUME NEW r \in Refreshers, Ask(r) PROVE TypeOK'
  <2>1. pc' \in [Refreshers -> Stage]
    <3>1. pc' = [pc EXCEPT ![r] = "batched"] \/ pc' = [pc EXCEPT ![r] = "asked"]
      BY <1>9 DEF Ask
    <3>2. QED BY <3>1 DEF TypeOK, Stage
  <2>2. answers' \in [Refreshers -> [Sources -> Reading \cup {None}]]
    <3>1. PICK answering \in SUBSET Sources :
            answers' = [answers EXCEPT ![r] =
              [s \in Sources |-> IF s \in answering THEN codexbar[s] ELSE @[s]]]
      BY <1>9 DEF Ask
    <3>2. [s \in Sources |-> IF s \in answering THEN codexbar[s] ELSE answers[r][s]]
            \in [Sources -> Reading \cup {None}]
      BY DEF TypeOK
    <3>3. QED BY <3>1, <3>2 DEF TypeOK
  <2>3. QED BY <1>9, <2>1, <2>2 DEF Ask, TypeOK, vendor
<1>10. ASSUME NEW r \in Refreshers, Store(r) PROVE TypeOK'
  <2>1. records' \in [Allowances -> Record \cup {None}]
    <3>1. \A a \in Allowances : Refreshed(r, a) \in Record \cup {None}
      BY DEF Refreshed, Record, TypeOK
    <3>2. QED BY <1>10, <3>1 DEF Store
  <2>2. lock' = None /\ Back(r) /\ UNCHANGED <<changes, vendor, codexbar, mapping>>
    BY <1>10 DEF Store
  <2>3. QED BY <2>1, <2>2, BackTypes DEF TypeOK, vendor
<1>11. ASSUME NEW r \in Refreshers, Die(r) PROVE TypeOK'
  <2>1. lock' \in Refreshers \cup {None}
    BY <1>11 DEF Die, TypeOK
  <2>2. QED BY <1>11, <2>1, BackTypes DEF Die, TypeOK, vendor
<1>12. CASE UNCHANGED vars
  BY <1>12 DEF vars, vendor, locals, TypeOK
<1>13. QED BY <1>1, <1>2, <1>3, <1>4, <1>5, <1>6, <1>7, <1>8, <1>9, <1>10, <1>11, <1>12 DEF Next

-----------------------------------------------------------------------------
(* A Reading stays faithful while a window is drawn from. *)
LEMMA SpeaksAfterDraw ==
  ASSUME TypeOK, NEW s \in Sources, NEW k \in Slots, Draw(s, k),
         NEW t \in Sources, NEW reading \in Reading, Speaks(reading, t)
  PROVE  Faithful(reading, used'[t], left'[t], sinceFull'[t])
<1> USE HeadroomAssumption
<1>1. /\ left' = left
      /\ \A j \in Slots : used[t][j] \in 0..Full /\ used'[t][j] \in {used[t][j], used[t][j] + 1}
      /\ \A j \in Slots \ StatedSlots : sinceFull'[t][j] \in {sinceFull[t][j], 0}
  BY DEF Draw, TypeOK
<1>2. reading.age \in Nat /\ \A j \in Slots : reading.windows[j].used \in 0..Full
  BY DEF Reading, Window, Age, MaxAge
<1>3. QED BY <1>1, <1>2 DEF Speaks, Faithful

(* So it does while one gives back. *)
LEMMA SpeaksAfterGiveBack ==
  ASSUME TypeOK, NEW s \in Sources, NEW k \in Slots, GiveBack(s, k),
         NEW t \in Sources, NEW reading \in Reading, Speaks(reading, t)
  PROVE  Faithful(reading, used'[t], left'[t], sinceFull'[t])
<1> USE HeadroomAssumption
<1>1. /\ left' = left /\ sinceFull' = sinceFull
      /\ \A j \in StatedSlots : used'[t][j] = used[t][j]
  BY DEF GiveBack, TypeOK
<1>2. QED BY <1>1 DEF Speaks, Faithful

(* So it does as time passes and it grows older: a window that refills has *)
(* just expired in it.                                                     *)
LEMMA SpeaksAfterPass ==
  ASSUME TypeOK, Pass, NEW t \in Sources, NEW reading \in Reading, Speaks(reading, t)
  PROVE  Faithful(Older(reading), used'[t], left'[t], sinceFull'[t])
<1> USE HeadroomAssumption
<1> DEFINE older == Older(reading)
<1>1. /\ \A j \in StatedSlots :
           /\ left'[t][j] = IF left[t][j] = 1 THEN Length ELSE left[t][j] - 1
           /\ left[t][j] # 1 => used'[t][j] = used[t][j]
      /\ \A j \in Slots \ StatedSlots :
           sinceFull'[t][j] = IF used'[t][j] = Full THEN 0
                              ELSE IF sinceFull[t][j] = MaxAge THEN MaxAge ELSE sinceFull[t][j] + 1
  BY DEF Pass
<1>2. /\ older.age = IF reading.age = MaxAge THEN MaxAge ELSE reading.age + 1
      /\ \A j \in Slots :
           /\ older.windows[j].used = reading.windows[j].used
           /\ older.windows[j].left =
                IF reading.windows[j].left = Unstated \/ reading.windows[j].left = -MaxRun
                THEN reading.windows[j].left ELSE reading.windows[j].left - 1
  BY OlderReading
<1>3. /\ MaxAge \in Nat /\ reading.age \in 0..MaxAge
      /\ \A j \in Slots : /\ reading.windows[j].left \in (-MaxRun..Length) \cup {Unstated}
                          /\ reading.windows[j].used \in 0..Full
      /\ \A j \in StatedSlots : left[t][j] \in 1..Length
      /\ \A j \in Slots \ StatedSlots : sinceFull[t][j] \in 0..MaxAge
  BY DEF Reading, Window, Age, MaxAge, Left, TypeOK
<1> HIDE DEF older
<1>4. ASSUME NEW j \in StatedSlots
      PROVE  /\ older.windows[j].left # Unstated
             /\ older.windows[j].left > 0 =>
                  left'[t][j] = older.windows[j].left /\ older.windows[j].used <= used'[t][j]
  <2>1. /\ reading.windows[j].left \in -MaxRun..Length
        /\ reading.windows[j].left > 0 =>
             left[t][j] = reading.windows[j].left /\ reading.windows[j].used <= used[t][j]
    BY <1>3 DEF Speaks, Faithful
  <2>2. older.windows[j].left = IF reading.windows[j].left = -MaxRun
                                THEN reading.windows[j].left ELSE reading.windows[j].left - 1
    BY <1>2, <2>1
  <2>3. older.windows[j].left # Unstated
    BY <2>1, <2>2
  <2>4. ASSUME older.windows[j].left > 0
        PROVE  left'[t][j] = older.windows[j].left /\ older.windows[j].used <= used'[t][j]
    <3>1. reading.windows[j].left > 1 /\ older.windows[j].left = reading.windows[j].left - 1
      BY <2>1, <2>2, <2>4
    <3>2. left[t][j] > 1 /\ left[t][j] = reading.windows[j].left
      BY <2>1, <3>1
    <3>3. QED BY <1>1, <1>2, <2>1, <3>1, <3>2
  <2>5. QED BY <2>3, <2>4
<1>5. ASSUME NEW j \in Slots \ StatedSlots
      PROVE  /\ older.windows[j].left = Unstated
             /\ older.windows[j].used = Full => sinceFull'[t][j] <= older.age
  <2>1. /\ reading.windows[j].left = Unstated
        /\ reading.windows[j].used = Full => sinceFull[t][j] <= reading.age
    BY DEF Speaks, Faithful
  <2>2. QED BY <1>1, <1>2, <1>3, <2>1
<1>6. QED BY <1>4, <1>5 DEF Faithful, older

(* What codexbar measures is what is used. *)
LEMMA SpeaksAfterMeasure ==
  ASSUME TypeOK, FullNow, NEW s \in Sources, Measure(s)
  PROVE  /\ codexbar'[s] \in Reading /\ codexbar'[s].age = 0
         /\ Speaks(codexbar'[s], s)
         /\ \A t \in Sources \ {s} : codexbar'[t] = codexbar[t]
<1> USE HeadroomAssumption
<1>1. PICK reading \in Reading :
        /\ codexbar' = [codexbar EXCEPT ![s] = reading]
        /\ reading = [windows |-> [k \in Slots |->
                         [used |-> used[s][k],
                          left |-> IF k \in StatedSlots THEN left[s][k] ELSE Unstated]],
                      age |-> 0]
  BY Measured
<1>2. codexbar'[s] = reading /\ \A t \in Sources \ {s} : codexbar'[t] = codexbar[t]
  BY <1>1 DEF TypeOK
<1>3. /\ \A k \in StatedSlots : left[s][k] \in 1..Length
      /\ \A k \in Slots : used[s][k] \in 0..Full
  BY DEF TypeOK
<1>4. Speaks(reading, s)
  BY <1>1, <1>3 DEF Speaks, Faithful, FullNow
<1>5. QED BY <1>1, <1>2, <1>4

-----------------------------------------------------------------------------
(* Windows that give no reset and are drawn fully now have been just now.  *)
LEMMA FullStep == ASSUME TypeOK, FullNow, [Next]_vars PROVE FullNow'
<1> USE HeadroomAssumption
<1>1. ASSUME NEW s \in Sources, NEW k \in Slots, Draw(s, k) PROVE FullNow'
  BY <1>1 DEF Draw, FullNow, TypeOK
<1>2. ASSUME NEW s \in Sources, NEW k \in Slots, GiveBack(s, k) PROVE FullNow'
  BY <1>2 DEF GiveBack, FullNow, TypeOK
<1>3. CASE Pass
  BY <1>3 DEF Pass, FullNow
<1>4. CASE UNCHANGED vendor
  BY <1>4 DEF vendor, FullNow
<1>5. [Next]_vars => \/ Pass \/ UNCHANGED vendor
                     \/ \E s \in Sources : \E k \in Slots : Draw(s, k) \/ GiveBack(s, k)
  BY DEF Next, vars, Measure, Remap, Start, GiveUp, Acquire, Ask, Store, Die
<1>6. QED BY <1>1, <1>2, <1>3, <1>4, <1>5

(* A unit of time keeps the order of two ages. *)
LEMMA OlderInOrder ==
  ASSUME NEW x \in Reading, NEW y \in Reading, x.age <= y.age
  PROVE  Older(x).age <= Older(y).age
<1>1. x.age \in 0..MaxAge /\ y.age \in 0..MaxAge
  BY DEF Reading, Age
<1>2. MaxAge \in Nat
  BY HeadroomAssumption DEF MaxAge
<1>3. QED BY <1>1, <1>2, OlderReading

(* What codexbar has measured stays faithful. *)
LEMMA MeasuredStep ==
  ASSUME TypeOK, FullNow, MeasuredFaithful, [Next]_vars PROVE MeasuredFaithful'
<1> USE HeadroomAssumption, NoneAssumption
<1>1. ASSUME NEW s \in Sources, Measure(s) PROVE MeasuredFaithful'
  <2>1. UNCHANGED vendor
    BY <1>1 DEF Measure
  <2>2. QED BY <1>1, <2>1, SpeaksAfterMeasure DEF MeasuredFaithful, Speaks, vendor
<1>2. ASSUME NEW s \in Sources, NEW k \in Slots, Draw(s, k) PROVE MeasuredFaithful'
  BY <1>2, SpeaksAfterDraw DEF Draw, MeasuredFaithful, Speaks, TypeOK
<1>3. ASSUME NEW s \in Sources, NEW k \in Slots, GiveBack(s, k) PROVE MeasuredFaithful'
  BY <1>3, SpeaksAfterGiveBack DEF GiveBack, MeasuredFaithful, Speaks, TypeOK
<1>4. ASSUME Pass PROVE MeasuredFaithful'
  <2>1. SUFFICES ASSUME NEW s \in Sources, codexbar'[s] # None
                 PROVE  Faithful(codexbar'[s], used'[s], left'[s], sinceFull'[s])
    BY DEF MeasuredFaithful, Speaks
  <2>2. codexbar'[s] = Older(codexbar[s])
    BY <1>4 DEF Pass
  <2>3. codexbar[s] \in Reading /\ codexbar[s] # None
    BY <2>1, <2>2, OlderOrNone DEF TypeOK
  <2>4. QED BY <1>4, <2>2, <2>3, SpeaksAfterPass DEF MeasuredFaithful
<1>5. CASE UNCHANGED <<vendor, codexbar>>
  BY <1>5 DEF vendor, MeasuredFaithful, Speaks
<1>6. [Next]_vars =>
        \/ \E s \in Sources : Measure(s) \/ \E k \in Slots : Draw(s, k) \/ GiveBack(s, k)
        \/ Pass \/ UNCHANGED <<vendor, codexbar>>
  BY DEF Next, vars, Remap, Start, GiveUp, Acquire, Ask, Store, Die
<1>7. QED BY <1>1, <1>2, <1>3, <1>4, <1>5, <1>6

(* So do the Readings a refresher has been given. *)
LEMMA AnswersStep ==
  ASSUME TypeOK, FullNow, MeasuredFaithful, AnswersFaithful, [Next]_vars
  PROVE  AnswersFaithful'
<1> USE HeadroomAssumption, NoneAssumption
<1>0. \A r \in Refreshers : \A s \in Sources :
        answers[r][s] # None => answers[r][s] \in Reading /\ answers[r][s].age \in Nat
  BY DEF TypeOK, Reading, Age, MaxAge
<1>1. ASSUME NEW s \in Sources, Measure(s) PROVE AnswersFaithful'
  <2>1. UNCHANGED <<vendor, answers>>
    BY <1>1 DEF Measure, locals
  <2>2. QED BY <1>0, <1>1, <2>1, SpeaksAfterMeasure DEF AnswersFaithful, Speaks, vendor
<1>2. ASSUME NEW s \in Sources, NEW k \in Slots, Draw(s, k) PROVE AnswersFaithful'
  <2>1. UNCHANGED <<codexbar, answers>>
    BY <1>2 DEF Draw, locals
  <2>2. QED BY <1>0, <1>2, <2>1, SpeaksAfterDraw DEF AnswersFaithful, Speaks
<1>3. ASSUME NEW s \in Sources, NEW k \in Slots, GiveBack(s, k) PROVE AnswersFaithful'
  <2>1. UNCHANGED <<codexbar, answers>>
    BY <1>3 DEF GiveBack, locals
  <2>2. QED BY <1>0, <1>3, <2>1, SpeaksAfterGiveBack DEF AnswersFaithful, Speaks
<1>4. ASSUME Pass PROVE AnswersFaithful'
  <2>1. SUFFICES ASSUME NEW r \in Refreshers, NEW s \in Sources, answers'[r][s] # None
                 PROVE  /\ Faithful(answers'[r][s], used'[s], left'[s], sinceFull'[s])
                        /\ codexbar'[s] # None /\ codexbar'[s].age <= answers'[r][s].age
    BY DEF AnswersFaithful, Speaks
  <2>2. answers'[r][s] = Older(answers[r][s]) /\ codexbar'[s] = Older(codexbar[s])
    BY <1>4 DEF Pass
  <2>3. answers[r][s] \in Reading /\ answers[r][s] # None
    BY <2>1, <2>2, OlderOrNone DEF TypeOK
  <2>4. Speaks(answers[r][s], s) /\ codexbar[s] \in Reading /\ codexbar[s].age <= answers[r][s].age
    BY <2>3 DEF AnswersFaithful, TypeOK
  <2>5. QED BY <1>4, <2>2, <2>3, <2>4, SpeaksAfterPass, OlderInOrder, OlderReading
<1>5. ASSUME NEW r \in Refreshers, Ask(r) PROVE AnswersFaithful'
  <2>1. UNCHANGED <<vendor, codexbar>>
    BY <1>5 DEF Ask
  <2>2. \A t \in Refreshers : \A s \in Sources : answers'[t][s] \in {answers[t][s], codexbar[s]}
    <3>1. PICK answering \in SUBSET Sources :
            answers' = [answers EXCEPT ![r] =
              [s \in Sources |-> IF s \in answering THEN codexbar[s] ELSE @[s]]]
      BY <1>5 DEF Ask
    <3>2. QED BY <3>1 DEF TypeOK
  <2>3. \A s \in Sources : codexbar[s] # None => codexbar[s].age <= codexbar[s].age
    BY DEF TypeOK, Reading, Age, MaxAge
  <2>4. QED BY <2>1, <2>2, <2>3 DEF AnswersFaithful, MeasuredFaithful, Speaks, vendor
<1>6. CASE /\ UNCHANGED <<vendor, codexbar>>
           /\ \A t \in Refreshers : \A s \in Sources : answers'[t][s] \in {answers[t][s], None}
  BY <1>6 DEF vendor, AnswersFaithful, Speaks
<1>7. ASSUME NEW r \in Refreshers, GiveUp(r) \/ Store(r) \/ Die(r) PROVE AnswersFaithful'
  <2>1. UNCHANGED <<vendor, codexbar>> /\ answers' = [answers EXCEPT ![r] = NoAnswers]
    BY <1>7 DEF GiveUp, Store, Die, Back
  <2>2. \A t \in Refreshers : \A s \in Sources : answers'[t][s] \in {answers[t][s], None}
    BY <2>1 DEF TypeOK, NoAnswers
  <2>3. QED BY <1>6, <2>1, <2>2
<1>8. [Next]_vars =>
        \/ \E s \in Sources : Measure(s) \/ \E k \in Slots : Draw(s, k) \/ GiveBack(s, k)
        \/ Pass \/ \E r \in Refreshers : Ask(r) \/ GiveUp(r) \/ Store(r) \/ Die(r)
        \/ UNCHANGED <<vendor, codexbar, answers>>
  BY DEF Next, vars, Remap, Start, Acquire, locals
<1>9. QED BY <1>1, <1>2, <1>3, <1>4, <1>5, <1>6, <1>7, <1>8

(* And so does what is stored. *)
LEMMA RecordsStep ==
  ASSUME TypeOK, FullNow, AnswersFaithful, RecordsFaithful, Held, [Next]_vars
  PROVE  RecordsFaithful'
<1> USE HeadroomAssumption, NoneAssumption
<1>0. \A a \in Allowances : records[a] # None =>
        /\ records[a] \in Record /\ records[a].source \in Sources
        /\ records[a].reading \in Reading /\ records[a].reading.age \in Nat
  BY DEF TypeOK, Record, Reading, Age, MaxAge
<1>1. ASSUME NEW s \in Sources, Measure(s) PROVE RecordsFaithful'
  <2>1. UNCHANGED <<vendor, records>>
    BY <1>1 DEF Measure
  <2>2. QED BY <1>0, <1>1, <2>1, SpeaksAfterMeasure DEF RecordsFaithful, Speaks, vendor
<1>2. ASSUME NEW s \in Sources, NEW k \in Slots, Draw(s, k) PROVE RecordsFaithful'
  <2>1. UNCHANGED <<codexbar, records>>
    BY <1>2 DEF Draw
  <2>2. QED BY <1>0, <1>2, <2>1, SpeaksAfterDraw DEF RecordsFaithful, Speaks
<1>3. ASSUME NEW s \in Sources, NEW k \in Slots, GiveBack(s, k) PROVE RecordsFaithful'
  <2>1. UNCHANGED <<codexbar, records>>
    BY <1>3 DEF GiveBack
  <2>2. QED BY <1>0, <1>3, <2>1, SpeaksAfterGiveBack DEF RecordsFaithful, Speaks
<1>4. ASSUME Pass PROVE RecordsFaithful'
  <2>1. SUFFICES ASSUME NEW a \in Allowances, records'[a] # None, NEW s, s = records'[a].source
                 PROVE  /\ Faithful(records'[a].reading, used'[s], left'[s], sinceFull'[s])
                        /\ codexbar'[s] # None /\ codexbar'[s].age <= records'[a].reading.age
    BY DEF RecordsFaithful, Speaks
  <2>2. records'[a] = OlderRecord(records[a]) /\ \A t \in Sources : codexbar'[t] = Older(codexbar[t])
    BY <1>4 DEF Pass
  <2>3. records[a] \in Record /\ records[a] # None
    BY <2>1, <2>2, OlderOrNone DEF TypeOK
  <2>4. s = records[a].source /\ s \in Sources /\ records'[a].reading = Older(records[a].reading)
    BY <1>0, <2>1, <2>2, <2>3, OlderRecordIs
  <2>5. /\ Speaks(records[a].reading, s) /\ codexbar[s] \in Reading
        /\ codexbar[s].age <= records[a].reading.age
    BY <2>3, <2>4 DEF RecordsFaithful, TypeOK
  <2>6. QED BY <1>0, <1>4, <2>2, <2>3, <2>4, <2>5, SpeaksAfterPass, OlderInOrder, OlderReading
<1>5. ASSUME NEW r \in Refreshers, Store(r) PROVE RecordsFaithful'
  <2>1. UNCHANGED <<vendor, codexbar>> /\ lock = r /\ previous[r] = records
    BY <1>5 DEF Store, Held, Holding
  <2>2. SUFFICES ASSUME NEW a \in Allowances, records'[a] # None, NEW s, s = records'[a].source
                 PROVE  /\ Speaks(records'[a].reading, s)
                        /\ codexbar[s] # None /\ codexbar[s].age <= records'[a].reading.age
    BY <2>1 DEF RecordsFaithful, Speaks, vendor
  <2>3. records'[a] = Refreshed(r, a)
    BY <1>5 DEF Store
  <2>4. CASE records'[a] = records[a]
    BY <2>2, <2>4 DEF RecordsFaithful
  <2>5. CASE /\ policy[r][a] \in Sources /\ answers[r][policy[r][a]] # None
             /\ records'[a] = [source |-> policy[r][a], reading |-> answers[r][policy[r][a]]]
    BY <2>2, <2>5 DEF AnswersFaithful
  <2>6. QED BY <2>1, <2>2, <2>3, <2>4, <2>5 DEF Refreshed, TypeOK
<1>6. CASE UNCHANGED <<vendor, codexbar, records>>
  BY <1>6 DEF vendor, RecordsFaithful, Speaks
<1>7. [Next]_vars =>
        \/ \E s \in Sources : Measure(s) \/ \E k \in Slots : Draw(s, k) \/ GiveBack(s, k)
        \/ Pass \/ (\E r \in Refreshers : Store(r)) \/ UNCHANGED <<vendor, codexbar, records>>
  BY DEF Next, vars, Remap, Start, GiveUp, Acquire, Ask, Die
<1>8. QED BY <1>1, <1>2, <1>3, <1>4, <1>5, <1>6, <1>7

(* The holder's records are still those stored, and what it was given is   *)
(* no older.                                                               *)
LEMMA HeldStep ==
  ASSUME TypeOK, RecordsFaithful, Held, [Next]_vars PROVE Held'
<1> USE HeadroomAssumption, NoneAssumption
<1>0. lock = None => \A r \in Refreshers : lock # r
  OBVIOUS
<1>1. ASSUME Pass PROVE Held'
  <2>1. UNCHANGED <<lock, pc>>
        /\ \A r \in Refreshers : \A s \in Sources : answers'[r][s] = Older(answers[r][s])
        /\ \A a \in Allowances : records'[a] = OlderRecord(records[a])
    BY <1>1 DEF Pass
  <2>2. ASSUME NEW r \in Refreshers, lock = r PROVE previous'[r] = records'
    <3>1. previous[r] = records
      BY <2>2 DEF Held
    <3>2. previous'[r] = [a \in Allowances |-> OlderRecord(previous[r][a])]
          /\ records' = [a \in Allowances |-> OlderRecord(records[a])]
      BY <1>1 DEF Pass
    <3>3. QED BY <3>1, <3>2
  <2>3. ASSUME NEW r \in Refreshers, NEW s \in Sources, answers[r][s] = None
        PROVE  answers'[r][s] = None
    BY <2>1, <2>3 DEF Older
  <2>4. ASSUME NEW r \in Refreshers, lock = r, NEW a \in Allowances,
               records'[a] # None, answers'[r][records'[a].source] # None
        PROVE  answers'[r][records'[a].source].age <= records'[a].reading.age
    <3> DEFINE s == records[a].source
    <3>1. records[a] \in Record /\ records[a] # None
      BY <2>1, <2>4, OlderOrNone DEF TypeOK
    <3>2. records'[a].source = s /\ records'[a].reading = Older(records[a].reading)
      BY <2>1, <3>1, OlderRecordIs
    <3>3. s \in Sources /\ records[a].reading \in Reading
      BY <3>1 DEF Record
    <3>4. answers'[r][s] = Older(answers[r][s])
      BY <2>1, <3>3
    <3>5. answers[r][s] \in Reading /\ answers[r][s] # None
      BY <2>4, <3>2, <3>3, <3>4, OlderOrNone DEF TypeOK
    <3>6. answers[r][s].age <= records[a].reading.age
      BY <2>4, <3>1, <3>5 DEF Held
    <3>7. QED BY <3>2, <3>3, <3>4, <3>5, <3>6, OlderInOrder
  <2>5. QED BY <2>1, <2>2, <2>3, <2>4 DEF Held
<1>2. ASSUME NEW r \in Refreshers, Acquire(r) PROVE Held'
  <2>1. /\ lock = None /\ lock' = r /\ pc' = [pc EXCEPT ![r] = "locked"] /\ pc[r] = "waiting"
        /\ previous' = [previous EXCEPT ![r] = records] /\ UNCHANGED <<records, answers>>
    BY <1>2 DEF Acquire
  <2>2. \A t \in Refreshers : pc[t] \notin Holding /\ \A s \in Sources : answers[t][s] = None
    BY <1>0, <2>1 DEF Held
  <2>3. \A a \in Allowances : records[a] # None => records[a].source \in Sources
    BY DEF TypeOK, Record
  <2>4. previous'[r] = records'
    BY <2>1 DEF TypeOK
  <2>5. \A t \in Refreshers : pc'[t] \in Holding <=> lock' = t
    BY <2>1, <2>2 DEF TypeOK, Holding
  <2>6. QED BY <2>1, <2>2, <2>3, <2>4, <2>5 DEF Held
<1>3. ASSUME NEW r \in Refreshers, Ask(r) PROVE Held'
  <2>1. UNCHANGED <<records, lock, previous>>
    BY <1>3 DEF Ask
  <2>2. pc[r] \in Holding /\ \A t \in Refreshers : pc'[t] \in Holding <=> pc[t] \in Holding
    <3>1. /\ pc[r] \in {"locked", "batched"}
          /\ pc' = [pc EXCEPT ![r] = "batched"] \/ pc' = [pc EXCEPT ![r] = "asked"]
      BY <1>3 DEF Ask
    <3>2. QED BY <3>1 DEF TypeOK, Holding
  <2>3. lock = r
    BY <2>2 DEF Held
  <2>4. PICK answering \in SUBSET Sources :
          answers' = [answers EXCEPT ![r] =
            [s \in Sources |-> IF s \in answering THEN codexbar[s] ELSE @[s]]]
    BY <1>3 DEF Ask
  <2>5. /\ \A t \in Refreshers \ {r} : answers'[t] = answers[t]
        /\ \A s \in Sources : answers'[r][s] \in {answers[r][s], codexbar[s]}
    BY <2>4 DEF TypeOK
  <2>6. ASSUME NEW a \in Allowances, records[a] # None, answers'[r][records[a].source] # None
        PROVE  answers'[r][records[a].source].age <= records[a].reading.age
    <3>1. records[a].source \in Sources
      BY <2>6 DEF TypeOK, Record
    <3>2. QED BY <2>3, <2>5, <2>6, <3>1 DEF Held, RecordsFaithful
  <2>7. QED BY <2>1, <2>2, <2>3, <2>5, <2>6 DEF Held
<1>4. ASSUME NEW r \in Refreshers, Store(r) \/ Die(r) \/ GiveUp(r) PROVE Held'
  <2>1. /\ pc' = [pc EXCEPT ![r] = "idle"] /\ answers' = [answers EXCEPT ![r] = NoAnswers]
        /\ previous' = [previous EXCEPT ![r] = NoRecords]
    BY <1>4 DEF Store, Die, GiveUp, Back
  <2>2. lock' # r /\ (lock' = lock \/ (lock = r /\ lock' = None))
    BY <1>4 DEF Store, Die, GiveUp, Held, Holding
  <2>3. \A t \in Refreshers \ {r} : lock' = t => records' = records
    BY <1>4, <2>2 DEF Store, Die, GiveUp, Held, Holding
  <2>4. /\ pc'[r] \notin Holding /\ \A s \in Sources : answers'[r][s] = None
        /\ \A t \in Refreshers \ {r} :
             pc'[t] = pc[t] /\ answers'[t] = answers[t] /\ previous'[t] = previous[t]
    BY <2>1 DEF TypeOK, NoAnswers, Holding
  <2>5. \A t \in Refreshers \ {r} : lock' = t <=> lock = t
    BY <2>2
  <2>6. QED BY <2>2, <2>3, <2>4, <2>5 DEF Held
<1>5. ASSUME NEW r \in Refreshers, Start(r) PROVE Held'
  <2>1. UNCHANGED <<records, lock, previous, answers>>
        /\ pc[r] = "idle" /\ pc' = [pc EXCEPT ![r] = "waiting"]
    BY <1>5 DEF Start
  <2>2. \A t \in Refreshers : pc'[t] \in Holding <=> pc[t] \in Holding
    BY <2>1 DEF TypeOK, Holding
  <2>3. QED BY <2>1, <2>2 DEF Held
<1>6. CASE UNCHANGED <<records, lock, locals>>
  BY <1>6 DEF Held, locals
<1>7. [Next]_vars =>
        \/ Pass
        \/ \E r \in Refreshers :
             Acquire(r) \/ Ask(r) \/ Store(r) \/ Die(r) \/ GiveUp(r) \/ Start(r)
        \/ UNCHANGED <<records, lock, locals>>
  BY DEF Next, vars, Remap, Measure, Draw, GiveBack
<1>8. QED BY <1>1, <1>2, <1>3, <1>4, <1>5, <1>6, <1>7

(* A rise that is reported is of an Allowance, and of one of its windows   *)
(* outside the named ones.                                                 *)
LEMMA RiseIs ==
  ASSUME TypeOK, NEW r \in Refreshers, NEW c \in Rises(NewCrossings(r))
  PROVE  LET a == c.allowance
             s == policy[r][a]
             k0 == Binding(a, previous[r][a].reading, waited[r])
             k1 == Binding(a, answers[r][s], waited[r])
             u0 == previous[r][a].reading.windows[k0].used
             u1 == answers[r][s].windows[k1].used
         IN /\ a \in Allowances /\ previous[r][a] # None
            /\ s # None /\ answers[r][s] # None
            /\ k0 # None /\ k1 # None /\ c.slot = k1
            /\ c.source = s /\ previous[r][a].source = s
            /\ c.threshold \in Thresholds /\ u0 < u1
            /\ (u0 < c.threshold /\ c.threshold <= u1) \/ (u1 < c.threshold /\ c.threshold <= u0)
<1>1. PICK d \in NewCrossings(r) :
        /\ d.rising /\ d.from = d.source
        /\ c = [allowance |-> d.allowance, slot |-> d.slot, threshold |-> d.threshold, source |-> d.source]
  BY DEF Rises
<1>2. PICK a \in Allowances :
        /\ previous[r][a] # None /\ policy[r][a] # None /\ answers[r][policy[r][a]] # None
        /\ d \in Crossings(a, previous[r][a], policy[r][a], answers[r][policy[r][a]], waited[r])
  BY DEF NewCrossings
<1> DEFINE s == policy[r][a]
           k0 == Binding(a, previous[r][a].reading, waited[r])
           k1 == Binding(a, answers[r][s], waited[r])
           u0 == previous[r][a].reading.windows[k0].used
           u1 == answers[r][s].windows[k1].used
<1>3. k0 # None /\ k1 # None
  BY <1>2 DEF Crossings
<1>4. PICK t \in Thresholds :
        /\ (u0 < t /\ t <= u1) \/ (u1 < t /\ t <= u0)
        /\ d = [allowance |-> a, slot |-> k1, threshold |-> t, rising |-> u0 < u1,
                from |-> previous[r][a].source, source |-> s]
  BY <1>2, <1>3 DEF Crossings
<1>5. c.allowance = a /\ c.slot = k1 /\ c.threshold = t /\ c.source = s
  BY <1>1, <1>4
<1>6. previous[r][a].source = s /\ u0 < u1
  BY <1>1, <1>4
<1>7. QED BY <1>2, <1>3, <1>4, <1>5, <1>6

(* The binding window is a live one outside the named slots, and no such   *)
(* window is drawn more.                                                   *)
LEMMA BindingIsWorst ==
  ASSUME NEW a \in Allowances, NEW reading \in Reading, NEW lag,
         NEW live, live = LiveIn(Slots \ NamedSlots[a], reading, lag), live # {}
  PROVE  /\ Binding(a, reading, lag) \in live
         /\ \A j \in live :
              reading.windows[j].used <= reading.windows[Binding(a, reading, lag)].used
<1>1. live \subseteq Slots
  BY DEF LiveIn
<1>2. Binding(a, reading, lag) = Worst(live, reading)
  BY DEF Binding
<1>3. QED BY <1>1, <1>2, WorstIsWorst

(* A reported rise still shows. *)
LEMMA FiredStep ==
  ASSUME TypeOK, FiredShows, [Next]_vars PROVE FiredShows'
<1> USE HeadroomAssumption, NoneAssumption
<1>1. ASSUME Pass PROVE FiredShows'
  <2>1. SUFFICES ASSUME NEW c \in fired'
                 PROVE  /\ c.allowance \in Allowances /\ c.slot \in Slots
                        /\ records'[c.allowance] # None
                        /\ records'[c.allowance].source = c.source
                        /\ records'[c.allowance].reading.windows[c.slot].used >= c.threshold
                        /\ ~Void(records'[c.allowance].reading, c.slot, 0)
    BY DEF FiredShows, Void
  <2>2. /\ c \in fired
        /\ records'[c.allowance].reading.windows[c.slot].used >= c.threshold
        /\ ~Void(records'[c.allowance].reading, c.slot, 0)
    BY <1>1 DEF Pass
  <2>3. /\ c.allowance \in Allowances /\ c.slot \in Slots
        /\ records[c.allowance] \in Record /\ records[c.allowance].source = c.source
    BY <2>2 DEF FiredShows, TypeOK
  <2>4. records'[c.allowance] = OlderRecord(records[c.allowance])
    BY <1>1, <2>3 DEF Pass
  <2>5. QED BY <2>2, <2>3, <2>4, OlderRecordIs
<1>2. ASSUME NEW r \in Refreshers, Store(r) PROVE FiredShows'
  <2>1. SUFFICES ASSUME NEW c \in fired'
                 PROVE  /\ c.allowance \in Allowances /\ c.slot \in Slots
                        /\ records'[c.allowance] # None
                        /\ records'[c.allowance].source = c.source
                        /\ records'[c.allowance].reading.windows[c.slot].used >= c.threshold
                        /\ ~Void(records'[c.allowance].reading, c.slot, 0)
    BY DEF FiredShows, Void
  <2>2. /\ c \in fired \cup Rises(crossed')
        /\ records'[c.allowance] # None
        /\ records'[c.allowance].source = c.source
        /\ records'[c.allowance].reading.windows[c.slot].used >= c.threshold
        /\ ~Void(records'[c.allowance].reading, c.slot, 0)
    BY <1>2 DEF Store
  <2>3. c \in fired \/ c \in Rises(NewCrossings(r))
    BY <1>2, <2>2 DEF Store, Rises
  <2>4. CASE c \in fired
    BY <2>2, <2>4 DEF FiredShows
  <2>5. CASE c \in Rises(NewCrossings(r))
    <3> DEFINE a == c.allowance
               reading == answers[r][policy[r][a]]
    <3>1. /\ a \in Allowances /\ policy[r][a] # None /\ reading # None
          /\ c.slot = Binding(a, reading, waited[r]) /\ c.slot # None
      BY <2>5, RiseIs
    <3>2. reading \in Reading
      BY <3>1 DEF TypeOK
    <3>3. LiveIn(Slots \ NamedSlots[a], reading, waited[r]) # {}
      BY <3>1 DEF Binding
    <3>4. c.slot \in Slots
      <4> HIDE DEF reading, a
      <4>1. Binding(a, reading, waited[r]) \in LiveIn(Slots \ NamedSlots[a], reading, waited[r])
        BY <3>1, <3>2, <3>3, BindingIsWorst
      <4>2. QED BY <3>1, <4>1 DEF LiveIn
    <3>5. QED BY <2>2, <3>1, <3>4
  <2>6. QED BY <2>3, <2>4, <2>5
<1>3. CASE UNCHANGED records /\ fired' \subseteq fired
  BY <1>3 DEF FiredShows, Void
<1>4. [Next]_vars =>
        \/ Pass
        \/ \E r \in Refreshers : Store(r)
        \/ (UNCHANGED records /\ fired' \subseteq fired)
  BY DEF Next, vars, Remap, Measure, Draw, GiveBack, Start, GiveUp, Acquire, Ask, Die
<1>5. QED BY <1>1, <1>2, <1>3, <1>4

(* The invariant is inductive. *)
LEMMA Step == IInv /\ [Next]_vars => IInv'
  BY TypeStep, FullStep, MeasuredStep, AnswersStep, RecordsStep, HeldStep, FiredStep DEF IInv

LEMMA Invariant == Spec => []IInv
  BY Initially, Step, PTL DEF Spec

-----------------------------------------------------------------------------
(* The type invariant holds in every behaviour. *)
THEOREM TypeCorrect == Spec => []TypeOK
<1>1. IInv => TypeOK
  BY DEF IInv
<1>2. QED BY <1>1, Invariant, PTL

(* A live window that a faithful Reading calls drawn is drawn. *)
LEMMA DemotingWindowIsDry ==
  ASSUME IInv, NEW a \in Allowances, NEW sub \in NamedSlots[a] \cup {None},
         NEW k \in DemotedBy(a, sub)
  PROVE  /\ IF k \in StatedSlots THEN used[mapping[a]][k] = Full
            ELSE sinceFull[mapping[a]][k] < Staleness
         /\ AllowanceHeadroom(a) # None /\ AllowanceHeadroom(a).windows[k] = Full
<1> USE HeadroomAssumption, NoneAssumption
<1> DEFINE s == mapping[a]
           reading == records[a].reading
           windows == (Slots \ NamedSlots[a]) \cup ({sub} \ {None})
           live == LiveIn(windows, reading, 0)
<1>1. Published(a) /\ k \in RouteWindows(a, sub, reading) /\ reading.windows[k].used >= Full
  BY DEF DemotedBy
<1>2. records[a] \in Record /\ reading \in Reading /\ s \in Sources /\ records[a].source = s
  BY <1>1 DEF Published, IInv, TypeOK, Record
<1>3. windows \subseteq Slots
  OBVIOUS
<1>4. live # {} /\ k = Worst(live, reading)
  BY <1>1 DEF RouteWindows
<1>5. k \in Slots /\ ~Void(reading, k, 0)
  <2>1. live \subseteq Slots
    BY <1>3 DEF LiveIn
  <2>2. k \in live
    BY <1>2, <1>4, <2>1, WorstIsWorst
  <2>3. QED BY <2>1, <2>2 DEF LiveIn
<1>6. reading.windows[k].used = Full
  <2>1. reading.windows[k].used \in 0..Full
    BY <1>2, <1>5 DEF Reading, Window
  <2> HIDE DEF reading
  <2>2. QED BY <1>1, <2>1
<1>7. Speaks(reading, s)
  BY <1>1, <1>2 DEF IInv, RecordsFaithful, Published
<1>8. reading.windows[k].left \in Left \cup {Unstated} /\ reading.age \in Nat /\ MaxAge \in Nat
  BY <1>2, <1>5 DEF Reading, Window, Age, MaxAge
<1>9. AllowanceHeadroom(a) # None /\ AllowanceHeadroom(a).windows[k] = Full
  <2>1. AllowanceHeadroom(a) = [binding |-> Binding(a, reading, 0),
                                windows |-> [j \in Slots |-> Shown(reading, j)]]
    BY <1>1, <1>5 DEF AllowanceHeadroom, Described, LiveIn
  <2>2. Shown(reading, k) = Full
    BY <1>5, <1>6 DEF Shown
  <2>3. Binding(a, reading, 0) \in Slots \cup {None}
    <3>1. LiveIn(Slots \ NamedSlots[a], reading, 0) = {} => Binding(a, reading, 0) = None
      BY DEF Binding
    <3>2. LiveIn(Slots \ NamedSlots[a], reading, 0) # {} => Binding(a, reading, 0) \in Slots
      <4>1. LiveIn(Slots \ NamedSlots[a], reading, 0) \subseteq Slots
        BY DEF LiveIn
      <4>2. QED BY <1>2, <4>1, BindingIsWorst
    <3>3. QED BY <3>1, <3>2
  <2>4. \A j \in Slots : Shown(reading, j) \in (0..Full) \cup {None}
    BY <1>2 DEF Shown, Reading, Window
  <2>5. AllowanceHeadroom(a) \in Description
    BY <2>1, <2>3, <2>4 DEF Description
  <2>6. QED BY <1>5, <2>1, <2>2, <2>5
<1>10. CASE k \in StatedSlots
  <2>1. reading.windows[k].left > 0
    BY <1>5, <1>7, <1>8, <1>10 DEF Void, Speaks, Faithful, Left
  <2>2. reading.windows[k].used <= used[s][k] /\ used[s][k] \in 0..Full
    BY <1>2, <1>5, <1>7, <1>10, <2>1 DEF Speaks, Faithful, IInv, TypeOK
  <2>3. used[s][k] = Full
    <3> HIDE DEF reading, s
    <3>1. QED BY <1>6, <2>2
  <2>4. QED BY <1>10, <1>9, <2>3
<1>11. CASE k \notin StatedSlots
  <2>1. reading.age < Staleness
    BY <1>5, <1>7, <1>8, <1>11 DEF Void, Speaks, Faithful
  <2>2. sinceFull[s][k] <= reading.age /\ sinceFull[s][k] \in 0..MaxAge
    BY <1>2, <1>5, <1>6, <1>7, <1>11 DEF Speaks, Faithful, IInv, TypeOK, Age
  <2>3. sinceFull[s][k] < Staleness
    <3> HIDE DEF reading, s
    <3>1. QED BY <1>8, <2>1, <2>2
  <2>4. QED BY <1>11, <1>9, <2>3
<1>12. QED BY <1>10, <1>11

(* Whatever is demoted is dry, for any windows, resets and staleness.      *)
THEOREM OnlyDryDemoted == Spec => []DemotedIsDry
<1>1. IInv => DemotedIsDry
  BY DemotingWindowIsDry DEF DemotedIsDry
<1>2. QED BY <1>1, Invariant, PTL

(* A step stores no older Reading of the same Source. *)
LEMMA StoresForward ==
  ASSUME IInv, [Next]_vars, NEW a \in Allowances,
         records[a] # None, records'[a] # None, records'[a].source = records[a].source
  PROVE  \/ records'[a].reading.age <= records[a].reading.age
         \/ records'[a] = OlderRecord(records[a])
<1> USE HeadroomAssumption, NoneAssumption DEF IInv
<1>1. CASE UNCHANGED records
  BY <1>1 DEF TypeOK, Record, Reading, Age, MaxAge
<1>2. CASE Pass
  BY <1>2 DEF Pass
<1>3. ASSUME NEW r \in Refreshers, Store(r)
      PROVE  records'[a].reading.age <= records[a].reading.age
  <2>1. previous[r] = records /\ lock = r
    BY <1>3 DEF Store, Held, Holding
  <2>2. records'[a] = Refreshed(r, a)
    BY <1>3 DEF Store
  <2>3. CASE records'[a] = records[a]
    BY <2>3 DEF TypeOK, Record, Reading, Age, MaxAge
  <2>4. CASE /\ answers[r][policy[r][a]] # None
             /\ records'[a] = [source |-> policy[r][a], reading |-> answers[r][policy[r][a]]]
    BY <2>1, <2>4 DEF Held
  <2>5. QED BY <2>1, <2>2, <2>3, <2>4 DEF Refreshed
<1>4. [Next]_vars => Pass \/ (\E r \in Refreshers : Store(r)) \/ UNCHANGED records
  BY DEF Next, vars, Remap, Measure, Draw, GiveBack, Start, GiveUp, Acquire, Ask, Die
<1>5. QED BY <1>1, <1>2, <1>3, <1>4

(* An older measurement of an account never replaces a newer one.          *)
THEOREM OnlyForward == Spec => ReadingsMoveForward
<1>1. IInv /\ [Next]_vars =>
        [\A a \in Allowances :
           /\ records[a] # None
           /\ records'[a] # None
           /\ records'[a].source = records[a].source
           => \/ records'[a].reading.age <= records[a].reading.age
              \/ records'[a] = OlderRecord(records[a])]_vars
  BY StoresForward
<1>2. QED BY <1>1, Invariant, PTL DEF Spec, ReadingsMoveForward

(* What a stored Reading still shows over a threshold is no new rise. *)
LEMMA NoSecondRise ==
  ASSUME IInv, NEW r \in Refreshers, Store(r), NEW c \in fired, c \in Rises(NewCrossings(r))
  PROVE  FALSE
<1> USE HeadroomAssumption, NoneAssumption DEF IInv
<1> DEFINE a == c.allowance
           reading == records[a].reading
           lag == waited[r]
           k0 == Binding(a, reading, lag)
           given == answers[r][policy[r][a]]
           k1 == Binding(a, given, lag)
           live == LiveIn(Slots \ NamedSlots[a], reading, lag)
<1>1. previous[r] = records
  BY DEF Store, Held, Holding
<1>2. /\ a \in Allowances /\ policy[r][a] # None /\ given \in Reading
      /\ c.slot = k1 /\ k1 # None /\ c.threshold \in Nat
      /\ reading.windows[k0].used < given.windows[k1].used
      /\ \/ reading.windows[k0].used < c.threshold /\ c.threshold <= given.windows[k1].used
         \/ given.windows[k1].used < c.threshold /\ c.threshold <= reading.windows[k0].used
  <2>1. a \in Allowances /\ policy[r][a] # None /\ given # None /\ c.slot = k1 /\ k1 # None
    BY RiseIs
  <2>2. c.threshold \in Thresholds
    BY RiseIs
  <2>3. reading.windows[k0].used < given.windows[k1].used
        /\ ((reading.windows[k0].used < c.threshold /\ c.threshold <= given.windows[k1].used)
            \/ (given.windows[k1].used < c.threshold /\ c.threshold <= reading.windows[k0].used))
    BY <1>1, RiseIs
  <2>4. given \in Reading
    BY <2>1 DEF TypeOK
  <2>5. c.threshold \in Nat
    <3>1. \A t \in Thresholds : t \in Nat
      OBVIOUS
    <3> HIDE DEF IInv
    <3>2. QED BY <2>2, <3>1
  <2>6. QED BY <2>1, <2>3, <2>4, <2>5
<1>3. /\ c.slot \in Slots /\ reading \in Reading
      /\ reading.windows[c.slot].used >= c.threshold
      /\ ~Void(reading, c.slot, 0)
  BY <1>2 DEF FiredShows, TypeOK, Record
<1>4. c.slot \in Slots \ NamedSlots[a]
  <2>1. LiveIn(Slots \ NamedSlots[a], given, lag) # {}
    BY <1>2 DEF Binding
  <2> HIDE DEF given, lag, a
  <2>2. Binding(a, given, lag) \in LiveIn(Slots \ NamedSlots[a], given, lag)
    BY <1>2, <2>1, BindingIsWorst
  <2>3. QED BY <1>2, <2>2 DEF LiveIn
<1>5. c.slot \in live
  <2>1. lag \in Nat
    BY DEF TypeOK
  <2>2. QED BY <1>3, <1>4, <2>1, LiveBefore DEF LiveIn
<1>6. k0 \in live /\ reading.windows[c.slot].used <= reading.windows[k0].used
  BY <1>2, <1>3, <1>5, BindingIsWorst
<1>7. k0 \in Slots /\ k1 \in Slots
  BY <1>3, <1>2, <1>6 DEF LiveIn
<1>8. /\ reading.windows[k0].used \in Nat /\ reading.windows[c.slot].used \in Nat
      /\ given.windows[k1].used \in Nat
  <2> HIDE DEF k0, k1, reading, given
  <2>1. QED BY <1>2, <1>3, <1>7 DEF Reading, Window
<1> HIDE DEF k0, k1, reading, given, live, lag
<1>9. QED BY <1>2, <1>3, <1>6, <1>8

(* No rise is reported twice while the stored Readings show it.            *)
THEOREM RisesOnce == Spec => FiredOnce
<1>1. IInv /\ [Next]_vars => [Rises(crossed') \cap fired = {}]_vars
  <2>1. SUFFICES ASSUME IInv, Next PROVE Rises(crossed') \cap fired = {}
    BY DEF Next
  <2>2. CASE crossed' = {}
    BY <2>2 DEF Rises
  <2>3. ASSUME NEW r \in Refreshers, Store(r) PROVE Rises(crossed') \cap fired = {}
    <3>1. crossed' = {} \/ crossed' = NewCrossings(r)
      BY <2>3 DEF Store
    <3>2. CASE crossed' = NewCrossings(r)
      BY <2>1, <2>3, <3>2, NoSecondRise
    <3>3. QED BY <2>2, <3>1, <3>2
  <2>4. Next => crossed' = {} \/ \E r \in Refreshers : Store(r)
    BY DEF Next, Pass, Remap, Measure, Draw, GiveBack, Start, GiveUp, Acquire, Ask, Die
  <2>5. QED BY <2>1, <2>2, <2>3, <2>4
<1>2. QED BY <1>1, Invariant, PTL DEF Spec, FiredOnce
=============================================================================
