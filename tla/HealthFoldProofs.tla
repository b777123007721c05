-------------------------- MODULE HealthFoldProofs --------------------------
(***************************************************************************)
(* Proofs about HealthFold for any number of processes, entries, Probes    *)
(* and deaths.  The inductive invariant joins the typing, the lock's owner,*)
(* what a fold knows of the Journal while it holds the lock, and what has  *)
(* been consumed so far.                                                   *)
(***************************************************************************)
EXTENDS HealthFold, TLAPS

-----------------------------------------------------------------------------
(* Facts about sequences. *)

(* The elements of a sequence, by index. *)
LEMMA ToSetIndex ==
  ASSUME NEW S, NEW s \in Seq(S), NEW e
  PROVE  e \in ToSet(s) <=> \E i \in 1..Len(s) : s[i] = e
  BY DEF ToSet

(* One element more. *)
LEMMA ToSetAppend ==
  ASSUME NEW S, NEW s \in Seq(S), NEW x \in S
  PROVE  /\ Append(s, x) \in Seq(S)
         /\ \A e : e \in ToSet(Append(s, x)) <=> e \in ToSet(s) \/ e = x
<1> DEFINE t == Append(s, x)
<1>1. t \in Seq(S) /\ Len(t) = Len(s) + 1 /\ t[Len(s) + 1] = x
      /\ \A i \in 1..Len(s) : t[i] = s[i]
  OBVIOUS
<1>2. ASSUME NEW e PROVE e \in ToSet(t) <=> e \in ToSet(s) \/ e = x
  <2>1. e \in ToSet(t) <=> \E i \in 1..Len(t) : t[i] = e
    <3> HIDE DEF t
    <3>1. QED BY <1>1, ToSetIndex
  <2>2. e \in ToSet(s) <=> \E i \in 1..Len(s) : s[i] = e
    BY ToSetIndex
  <2>3. QED
    <3> HIDE DEF t
    <3>1. QED BY <1>1, <2>1, <2>2
<1>3. QED
  BY <1>1, <1>2

(* What remains of a sequence after its first n elements. *)
LEMMA SuffixElements ==
  ASSUME NEW S, NEW s \in Seq(S), NEW n \in 0..Len(s)
  PROVE  /\ SubSeq(s, n + 1, Len(s)) \in Seq(S)
         /\ \A e : e \in ToSet(SubSeq(s, n + 1, Len(s)))
                     <=> \E i \in (n + 1)..Len(s) : s[i] = e
<1> DEFINE t == SubSeq(s, n + 1, Len(s))
<1>1. t \in Seq(S) /\ Len(t) = Len(s) - n /\ \A i \in 1..Len(t) : t[i] = s[n + i]
  OBVIOUS
<1>2. ASSUME NEW e
      PROVE  e \in ToSet(t) <=> \E i \in (n + 1)..Len(s) : s[i] = e
  <2>1. ASSUME NEW i \in 1..Len(t), t[i] = e
        PROVE  \E j \in (n + 1)..Len(s) : s[j] = e
    <3>1. n + i \in (n + 1)..Len(s) /\ s[n + i] = e
      BY <1>1, <2>1
    <3>2. QED BY <3>1
  <2>2. ASSUME NEW j \in (n + 1)..Len(s), s[j] = e
        PROVE  \E i \in 1..Len(t) : t[i] = e
    <3>1. j - n \in 1..Len(t) /\ t[j - n] = e
      BY <1>1, <2>2
    <3>2. QED BY <3>1
  <2>3. e \in ToSet(t) <=> \E i \in 1..Len(t) : t[i] = e
    <3> HIDE DEF t
    <3>1. QED BY <1>1, ToSetIndex
  <2>4. QED
    BY <2>1, <2>2, <2>3
<1>3. QED
  BY <1>1, <1>2

(* It repeats no element if the sequence repeats none. *)
LEMMA SuffixDistinct ==
  ASSUME NEW S, NEW s \in Seq(S), NEW n \in 0..Len(s),
         \A i, j \in 1..Len(s) : s[i] = s[j] => i = j
  PROVE  LET t == SubSeq(s, n + 1, Len(s))
         IN  \A i, j \in 1..Len(t) : t[i] = t[j] => i = j
<1> DEFINE t == SubSeq(s, n + 1, Len(s))
<1>1. Len(t) = Len(s) - n /\ \A i \in 1..Len(t) : t[i] = s[n + i]
  OBVIOUS
<1>2. ASSUME NEW i \in 1..Len(t), NEW j \in 1..Len(t), t[i] = t[j] PROVE i = j
  <2>1. n + i \in 1..Len(s) /\ n + j \in 1..Len(s)
    BY <1>1
  <2>2. s[n + i] = s[n + j]
    BY <1>1, <1>2
  <2>3. n + i = n + j
    BY <2>1, <2>2
  <2>4. QED
    BY <2>1, <2>3
<1>3. QED
  BY <1>2

-----------------------------------------------------------------------------
(* Every action keeps the variables in their types. *)
LEMMA TypeStep == ConstantsAssumption /\ TypeOK /\ [Next]_vars => TypeOK'
<1> SUFFICES ASSUME ConstantsAssumption, TypeOK, [Next]_vars PROVE TypeOK'
  OBVIOUS
<1> USE DEF TypeOK, Stage, files, locals, history
<1>1. ASSUME NEW e \in Entry, AppendObservation(e) PROVE TypeOK'
  BY <1>1 DEF AppendObservation
<1>2. ASSUME NEW p \in Process, Sweep(p) PROVE TypeOK'
  BY <1>2 DEF Sweep, ConstantsAssumption
<1>3. ASSUME NEW p \in Process, Confirm(p) PROVE TypeOK'
  <2>1. Recorded(health) \subseteq Key
    BY DEF Recorded, ConstantsAssumption
  <2>2. \A b \in Probe : KeyOf[b] \in Key
    BY DEF ConstantsAssumption, Event
  <2>3. QED
    BY <1>3, <2>1, <2>2 DEF Confirm
<1>4. ASSUME NEW p \in Process, Acquire(p) PROVE TypeOK'
  BY <1>4 DEF Acquire
<1>5. ASSUME NEW p \in Process, Forget(p)
      PROVE  /\ pc' \in [Process -> Stage] /\ outcomes' \in [Process -> SUBSET Probe]
             /\ admitted' \in [Process -> SUBSET Key]
             /\ prior' \in [Process -> [Event -> Nat]]
             /\ batch' \in [Process -> Seq(Entry)]
             /\ survivors' \in [Process -> Seq(Entry)]
  <2>1. NoEvents \in [Event -> Nat] /\ <<>> \in Seq(Entry)
    BY DEF NoEvents
  <2>2. QED
    BY <1>5, <2>1 DEF Forget
<1>6. ASSUME NEW p \in Process, GiveUp(p) PROVE TypeOK'
  BY <1>5, <1>6 DEF GiveUp
<1>7. ASSUME NEW p \in Process, ReadState(p) PROVE TypeOK'
  <2>1. prior' \in [Process -> [Event -> Nat]]
    BY <1>7 DEF ReadState
  <2>2. batch' \in [Process -> Seq(Entry)]
    BY <1>7 DEF ReadState
  <2>3. pc' \in [Process -> Stage]
    BY <1>7 DEF ReadState
  <2>4. QED
    BY <1>7, <2>1, <2>2, <2>3 DEF ReadState
<1>8. ASSUME NEW p \in Process, WriteHealth(p) PROVE TypeOK'
  <2>1. health' \in [Event -> Nat]
    BY <1>8 DEF WriteHealth, Reduce, Times
  <2>2. folds' \in [Entry -> Nat]
    BY <1>8 DEF WriteHealth, Times
  <2>3. QED
    BY <1>8, <2>1, <2>2 DEF WriteHealth
<1>9. ASSUME NEW p \in Process, ReadSurvivors(p) PROVE TypeOK'
  <2>1. SubSeq(journal, Len(batch[p]) + 1, Len(journal)) \in Seq(Entry)
    OBVIOUS
  <2>2. QED
    BY <1>9, <2>1 DEF ReadSurvivors
<1>10. ASSUME NEW p \in Process, ReplaceJournal(p) PROVE TypeOK'
  BY <1>5, <1>10 DEF ReplaceJournal
<1>11. ASSUME NEW p \in Process, LeaveUnrotated(p) PROVE TypeOK'
  BY <1>5, <1>11 DEF LeaveUnrotated
<1>12. ASSUME NEW p \in Process, Crash(p) PROVE TypeOK'
  <2>1. redo' \in [Entry -> Nat]
    BY <1>12 DEF Crash, Times
  <2>2. crashes' \in 0..MaxCrash
    BY <1>12 DEF Crash, ConstantsAssumption
  <2>3. QED
    BY <1>5, <1>12, <2>1, <2>2 DEF Crash
<1>13. CASE UNCHANGED vars
  BY <1>13 DEF vars
<1>14. QED
  BY <1>1, <1>2, <1>3, <1>4, <1>6, <1>7, <1>8, <1>9, <1>10, <1>11, <1>12, <1>13
     DEF Next, Fold

LEMMA TypeInit == ConstantsAssumption /\ Init => TypeOK
  BY DEF Init, TypeOK, Stage, NoEvents, ConstantsAssumption

(* Every variable of HealthFold keeps its type, whatever the processes,    *)
(* entries, Probes and deaths.                                             *)
THEOREM TypeCorrect == Spec => []TypeOK
<1>1. ConstantsAssumption
  BY ConstantsAssumption
<1>2. QED
  BY <1>1, TypeInit, TypeStep, PTL DEF Spec

-----------------------------------------------------------------------------
(* The inductive invariant. *)

(* The lock's holder is exactly the process between taking and leaving it. *)
LockInv == \A p \in Process : pc[p] \in Inside <=> lock = p

(* No entry is in the Journal twice, and only written entries are in it. *)
JournalInv ==
  /\ \A i, j \in 1..Len(journal) : journal[i] = journal[j] => i = j
  /\ ToSet(journal) \subseteq appended

(* BatchStillFirst, by index. *)
BatchInv ==
  \A p \in Process : pc[p] \in {"read", "written", "rotating"} =>
    /\ Len(batch[p]) <= Len(journal)
    /\ \A i \in 1..Len(batch[p]) : batch[p][i] = journal[i]

(* What a rotation is about to keep: entries of the Journal, none twice,   *)
(* none of those it consumed, and all others but the exposed ones.         *)
SurvivorsInv ==
  \A p \in Process : pc[p] = "rotating" =>
    /\ \A i, j \in 1..Len(survivors[p]) : survivors[p][i] = survivors[p][j] => i = j
    /\ ToSet(survivors[p]) \subseteq ToSet(journal)
    /\ ToSet(survivors[p]) \cap ToSet(batch[p]) = {}
    /\ ToSet(journal) \subseteq ToSet(batch[p]) \cup ToSet(survivors[p]) \cup exposed

(* Process p has written a Health State that consumed entry e and has not  *)
(* rotated it away yet.                                                    *)
Consuming(p, e) == pc[p] \in Folded /\ e \in ToSet(batch[p])

(* How often an entry has been consumed. *)
CountInv ==
  \A e \in Entry :
    /\ e \notin appended => folds[e] = 0
    /\ \A p \in Process : Consuming(p, e) => folds[e] > 0
    /\ folds[e] <= redo[e] + 1
    /\ e \in ToSet(journal) /\ (\A p \in Process : ~Consuming(p, e))
         => folds[e] <= redo[e]

IInv ==
  /\ TypeOK
  /\ LockInv
  /\ PriorIsCurrent
  /\ JournalInv
  /\ BatchInv
  /\ SurvivorsInv
  /\ CountInv
  /\ NothingLostUnread

-----------------------------------------------------------------------------
LEMMA InvInit == ConstantsAssumption /\ Init => IInv
<1> SUFFICES ASSUME ConstantsAssumption, Init PROVE IInv
  OBVIOUS
<1>1. ToSet(<<>>) = {}
  BY DEF ToSet
<1>2. LockInv /\ PriorIsCurrent
  BY DEF Init, LockInv, PriorIsCurrent, Inside, ConstantsAssumption
<1>3. JournalInv /\ BatchInv /\ SurvivorsInv
  BY <1>1 DEF Init, JournalInv, BatchInv, SurvivorsInv
<1>4. CountInv /\ NothingLostUnread
  BY <1>1 DEF Init, CountInv, NothingLostUnread, Consuming, Folded
<1>5. QED
  BY <1>2, <1>3, <1>4, TypeInit DEF IInv

(* Only the holder folds, and the lock passes only through NoProcess. *)
LEMMA LockStep ==
  ConstantsAssumption /\ TypeOK /\ LockInv /\ [Next]_vars => LockInv'
<1> SUFFICES ASSUME ConstantsAssumption, TypeOK, LockInv, [Next]_vars PROVE LockInv'
  OBVIOUS
<1> USE DEF LockInv, TypeOK, Inside, Stage
<1>1. ASSUME NEW e \in Entry, AppendObservation(e) PROVE LockInv'
  BY <1>1 DEF AppendObservation
<1>2. ASSUME NEW p \in Process, Sweep(p) PROVE LockInv'
  BY <1>2 DEF Sweep
<1>3. ASSUME NEW p \in Process, Confirm(p) PROVE LockInv'
  BY <1>3 DEF Confirm
<1>4. ASSUME NEW p \in Process, Acquire(p) PROVE LockInv'
  BY <1>4 DEF Acquire, ConstantsAssumption
<1>5. ASSUME NEW p \in Process, GiveUp(p) PROVE LockInv'
  BY <1>5 DEF GiveUp, Forget
<1>6. ASSUME NEW p \in Process, ReadState(p) PROVE LockInv'
  BY <1>6 DEF ReadState
<1>7. ASSUME NEW p \in Process, WriteHealth(p) PROVE LockInv'
  BY <1>7 DEF WriteHealth
<1>8. ASSUME NEW p \in Process, ReadSurvivors(p) PROVE LockInv'
  BY <1>8 DEF ReadSurvivors
<1>9. ASSUME NEW p \in Process, ReplaceJournal(p) PROVE LockInv'
  BY <1>9 DEF ReplaceJournal, Forget, ConstantsAssumption
<1>10. ASSUME NEW p \in Process, LeaveUnrotated(p) PROVE LockInv'
  BY <1>10 DEF LeaveUnrotated, Forget, ConstantsAssumption
<1>11. ASSUME NEW p \in Process, Crash(p) PROVE LockInv'
  BY <1>11 DEF Crash, Forget, ConstantsAssumption
<1>12. CASE UNCHANGED vars
  BY <1>12 DEF vars
<1>13. QED
  BY <1>1, <1>2, <1>3, <1>4, <1>5, <1>6, <1>7, <1>8, <1>9, <1>10, <1>11, <1>12
     DEF Next, Fold

(* Health State does not change between a fold's read and its write. *)
LEMMA PriorStep ==
  TypeOK /\ LockInv /\ PriorIsCurrent /\ [Next]_vars => PriorIsCurrent'
<1> SUFFICES ASSUME TypeOK, LockInv, PriorIsCurrent, [Next]_vars PROVE PriorIsCurrent'
  OBVIOUS
<1> USE DEF PriorIsCurrent, TypeOK, files
<1>1. ASSUME NEW e \in Entry, AppendObservation(e) PROVE PriorIsCurrent'
  BY <1>1 DEF AppendObservation, locals
<1>2. ASSUME NEW p \in Process, Sweep(p) PROVE PriorIsCurrent'
  BY <1>2 DEF Sweep
<1>3. ASSUME NEW p \in Process, Confirm(p) PROVE PriorIsCurrent'
  BY <1>3 DEF Confirm
<1>4. ASSUME NEW p \in Process, Acquire(p) PROVE PriorIsCurrent'
  BY <1>4 DEF Acquire, locals
<1>5. ASSUME NEW p \in Process, GiveUp(p) PROVE PriorIsCurrent'
  BY <1>5 DEF GiveUp, Forget
<1>6. ASSUME NEW p \in Process, ReadState(p) PROVE PriorIsCurrent'
  BY <1>6 DEF ReadState
<1>7. ASSUME NEW p \in Process, WriteHealth(p) PROVE PriorIsCurrent'
  <2>1. \A q \in Process : pc'[q] # "read"
    BY <1>7 DEF WriteHealth, LockInv, Inside
  <2>2. QED
    BY <2>1
<1>8. ASSUME NEW p \in Process, ReadSurvivors(p) PROVE PriorIsCurrent'
  BY <1>8 DEF ReadSurvivors
<1>9. ASSUME NEW p \in Process, ReplaceJournal(p) PROVE PriorIsCurrent'
  BY <1>9 DEF ReplaceJournal, Forget
<1>10. ASSUME NEW p \in Process, LeaveUnrotated(p) PROVE PriorIsCurrent'
  BY <1>10 DEF LeaveUnrotated, Forget
<1>11. ASSUME NEW p \in Process, Crash(p) PROVE PriorIsCurrent'
  BY <1>11 DEF Crash, Forget
<1>12. CASE UNCHANGED vars
  BY <1>12 DEF vars, locals
<1>13. QED
  BY <1>1, <1>2, <1>3, <1>4, <1>5, <1>6, <1>7, <1>8, <1>9, <1>10, <1>11, <1>12
     DEF Next, Fold

(* A step that moves no entry: the processes' own business. *)
Quiet == UNCHANGED <<journal, appended, exposed, folds, redo>>

LEMMA QuietActions ==
  ASSUME NEW p \in Process,
         Sweep(p) \/ Confirm(p) \/ Acquire(p) \/ GiveUp(p) \/ ReadState(p)
           \/ LeaveUnrotated(p)
  PROVE  Quiet
  BY DEF Quiet, Sweep, Confirm, Acquire, GiveUp, ReadState, LeaveUnrotated, files, history

(* The Journal's entries stay distinct and written. *)
LEMMA JournalStep ==
  TypeOK /\ JournalInv /\ SurvivorsInv /\ [Next]_vars => JournalInv'
<1> SUFFICES ASSUME TypeOK, JournalInv, SurvivorsInv, [Next]_vars PROVE JournalInv'
  OBVIOUS
<1> USE DEF TypeOK
<1>1. ASSUME NEW e \in Entry, AppendObservation(e) PROVE JournalInv'
  <2>1. ToSet(journal') = ToSet(journal) \cup {e}
    BY <1>1, ToSetAppend DEF AppendObservation
  <2>2. e \notin ToSet(journal)
    BY <1>1 DEF AppendObservation, JournalInv
  <2>3. \A i \in 1..Len(journal) : journal[i] # e
    BY <2>2, ToSetIndex
  <2>4. /\ Len(journal') = Len(journal) + 1 /\ journal'[Len(journal) + 1] = e
        /\ \A i \in 1..Len(journal) : journal'[i] = journal[i]
    BY <1>1 DEF AppendObservation
  <2>5. Len(journal) \in Nat
        /\ \A i, j \in 1..Len(journal) : journal[i] = journal[j] => i = j
    BY DEF JournalInv
  <2>6. ASSUME NEW i \in 1..Len(journal') PROVE i \in 1..Len(journal) \/ i = Len(journal) + 1
    <3> HIDE DEF TypeOK
    <3>1. QED BY <2>4, <2>5
  <2>7. ASSUME NEW i \in 1..Len(journal'), NEW j \in 1..Len(journal'), journal'[i] = journal'[j]
        PROVE  i = j
    <3> HIDE DEF TypeOK
    <3>1. QED BY <2>3, <2>4, <2>5, <2>6, <2>7
  <2>8. ToSet(journal') \subseteq appended'
    BY <1>1, <2>1 DEF AppendObservation, JournalInv
  <2>9. QED
    BY <2>7, <2>8 DEF JournalInv
<1>2. ASSUME Quiet PROVE JournalInv'
  BY <1>2 DEF JournalInv, Quiet
<1>3. ASSUME NEW p \in Process, WriteHealth(p) \/ ReadSurvivors(p) \/ Crash(p)
      PROVE  JournalInv'
  BY <1>3 DEF JournalInv, WriteHealth, ReadSurvivors, Crash, files, history
<1>4. ASSUME NEW p \in Process, ReplaceJournal(p) PROVE JournalInv'
  BY <1>4 DEF JournalInv, SurvivorsInv, ReplaceJournal, history
<1>5. CASE UNCHANGED vars
  BY <1>5 DEF JournalInv, vars, files, history
<1>6. QED
  BY <1>1, <1>2, <1>3, <1>4, <1>5, QuietActions DEF Next, Fold

(* The entries a fold read stay first: only the holder of the lock shortens*)
(* the Journal, and it is then no longer folding.                          *)
LEMMA BatchStep ==
  ConstantsAssumption /\ TypeOK /\ LockInv /\ BatchInv /\ [Next]_vars => BatchInv'
<1> SUFFICES ASSUME ConstantsAssumption, TypeOK, LockInv, BatchInv, [Next]_vars
             PROVE  BatchInv'
  OBVIOUS
<1> USE DEF TypeOK, BatchInv, files, locals
<1>1. ASSUME NEW e \in Entry, AppendObservation(e) PROVE BatchInv'
  BY <1>1 DEF AppendObservation
<1>2. ASSUME NEW p \in Process, Sweep(p) \/ Confirm(p) \/ Acquire(p)
      PROVE  BatchInv'
  BY <1>2 DEF Sweep, Confirm, Acquire
<1>3. ASSUME NEW p \in Process, GiveUp(p) \/ LeaveUnrotated(p) \/ Crash(p)
      PROVE  BatchInv'
  <2>1. journal' = journal /\ Forget(p)
    BY <1>3 DEF GiveUp, LeaveUnrotated, Crash
  <2>2. pc'[p] = "idle" /\ \A q \in Process \ {p} : pc'[q] = pc[q] /\ batch'[q] = batch[q]
    BY <2>1 DEF Forget
  <2>3. \A q \in Process : pc'[q] \in {"read", "written", "rotating"} =>
          q # p /\ pc'[q] = pc[q] /\ batch'[q] = batch[q]
    BY <2>2
  <2>4. SUFFICES ASSUME NEW q \in Process, pc'[q] \in {"read", "written", "rotating"}
                 PROVE  /\ Len(batch'[q]) <= Len(journal')
                        /\ \A i \in 1..Len(batch'[q]) : batch'[q][i] = journal'[i]
    BY DEF BatchInv
  <2>5. pc[q] \in {"read", "written", "rotating"} /\ batch'[q] = batch[q] /\ journal' = journal
    BY <2>1, <2>3, <2>4
  <2>6. /\ Len(batch[q]) <= Len(journal)
        /\ \A i \in 1..Len(batch[q]) : batch[q][i] = journal[i]
    BY <2>5 DEF BatchInv
  <2>7. QED
    BY <2>5, <2>6
<1>4. ASSUME NEW p \in Process, ReadState(p) PROVE BatchInv'
  BY <1>4 DEF ReadState
<1>5. ASSUME NEW p \in Process, WriteHealth(p) PROVE BatchInv'
  BY <1>5 DEF WriteHealth
<1>6. ASSUME NEW p \in Process, ReadSurvivors(p) PROVE BatchInv'
  BY <1>6 DEF ReadSurvivors
<1>7. ASSUME NEW p \in Process, ReplaceJournal(p) PROVE BatchInv'
  <2>1. \A q \in Process : pc'[q] \notin Inside
    BY <1>7 DEF ReplaceJournal, Forget, LockInv, Inside
  <2>2. QED
    BY <2>1 DEF Inside
<1>8. CASE UNCHANGED vars
  BY <1>8 DEF vars
<1>9. QED
  BY <1>1, <1>2, <1>3, <1>4, <1>5, <1>6, <1>7, <1>8 DEF Next, Fold

(* A rotation keeps all it did not consume, but for the exposed entries. *)
LEMMA SurvivorsStep ==
  TypeOK /\ LockInv /\ JournalInv /\ BatchInv /\ SurvivorsInv /\ [Next]_vars
    => SurvivorsInv'
<1> SUFFICES ASSUME TypeOK, LockInv, JournalInv, BatchInv, SurvivorsInv, [Next]_vars
             PROVE  SurvivorsInv'
  OBVIOUS
<1> USE DEF TypeOK
<1>1. ASSUME NEW e \in Entry, AppendObservation(e) PROVE SurvivorsInv'
  <2>1. ToSet(journal') = ToSet(journal) \cup {e}
    BY <1>1, ToSetAppend DEF AppendObservation
  <2>2. QED
    BY <1>1, <2>1 DEF AppendObservation, SurvivorsInv, locals
<1>2. ASSUME NEW p \in Process,
             Sweep(p) \/ Confirm(p) \/ Acquire(p) \/ ReadState(p) \/ WriteHealth(p)
      PROVE  SurvivorsInv'
  <2>1. UNCHANGED <<journal, exposed, survivors>>
    BY <1>2 DEF Sweep, Confirm, Acquire, ReadState, WriteHealth, files, locals, history
  <2>2. \A q \in Process : pc'[q] = "rotating" => pc[q] = "rotating" /\ batch'[q] = batch[q]
    BY <1>2 DEF Sweep, Confirm, Acquire, ReadState, WriteHealth, locals
  <2>3. QED
    BY <2>1, <2>2 DEF SurvivorsInv
<1>3. ASSUME NEW p \in Process, GiveUp(p) \/ LeaveUnrotated(p) \/ Crash(p)
      PROVE  SurvivorsInv'
  <2>1. UNCHANGED <<journal, exposed>>
    BY <1>3 DEF GiveUp, LeaveUnrotated, Crash, files, history
  <2>2. \A q \in Process : pc'[q] = "rotating" =>
          pc[q] = "rotating" /\ batch'[q] = batch[q] /\ survivors'[q] = survivors[q]
    BY <1>3 DEF GiveUp, LeaveUnrotated, Crash, Forget
  <2>3. QED
    BY <2>1, <2>2 DEF SurvivorsInv
<1>4. ASSUME NEW p \in Process, ReadSurvivors(p) PROVE SurvivorsInv'
  <2> DEFINE n == Len(batch[p])
             s == SubSeq(journal, n + 1, Len(journal))
  <2>1. /\ pc[p] = "written" /\ n \in 0..Len(journal)
        /\ \A i \in 1..n : batch[p][i] = journal[i]
    <3>1. pc[p] = "written"
      BY <1>4 DEF ReadSurvivors
    <3>2. batch[p] \in Seq(Entry) /\ journal \in Seq(Entry)
      OBVIOUS
    <3>3. n <= Len(journal) /\ \A i \in 1..n : batch[p][i] = journal[i]
      BY <3>1 DEF BatchInv
    <3>4. n \in 0..Len(journal)
      BY <3>2, <3>3
    <3>5. QED
      BY <3>1, <3>3, <3>4
  <2>2. /\ UNCHANGED <<journal, exposed, batch>> /\ survivors'[p] = s
        /\ \A q \in Process : q # p => pc'[q] = pc[q] /\ pc[q] # "rotating"
    BY <1>4, <2>1 DEF ReadSurvivors, LockInv, Inside, files, history
  <2>3. \A i, j \in 1..Len(s) : s[i] = s[j] => i = j
    <3>1. \A i, j \in 1..Len(journal) : journal[i] = journal[j] => i = j
      BY DEF JournalInv
    <3>2. QED
      BY <2>1, <3>1, SuffixDistinct
  <2>4. \A e : e \in ToSet(s) <=> \E i \in (n + 1)..Len(journal) : journal[i] = e
    BY <2>1, SuffixElements
  <2>5. \A e : e \in ToSet(batch[p]) <=> \E i \in 1..n : journal[i] = e
    <3>1. \A e : e \in ToSet(batch[p]) <=> \E i \in 1..Len(batch[p]) : batch[p][i] = e
      BY ToSetIndex
    <3>2. QED
      BY <2>1, <3>1
  <2>6. \A e : e \in ToSet(journal) <=> \E i \in 1..Len(journal) : journal[i] = e
    BY ToSetIndex
  <2>7. ToSet(s) \subseteq ToSet(journal)
    BY <2>1, <2>4, <2>6
  <2>8. ToSet(s) \cap ToSet(batch[p]) = {}
    <3>1. ASSUME NEW i \in (n + 1)..Len(journal), NEW j \in 1..n
          PROVE  journal[i] # journal[j]
      BY <2>1 DEF JournalInv
    <3>2. QED
      BY <3>1, <2>4, <2>5
  <2>9. ToSet(journal) \subseteq ToSet(batch[p]) \cup ToSet(s)
    BY <2>1, <2>4, <2>5, <2>6
  <2>10. QED
    <3> HIDE DEF s, n
    <3>1. QED
      BY <2>2, <2>3, <2>7, <2>8, <2>9 DEF SurvivorsInv
<1>5. ASSUME NEW p \in Process, ReplaceJournal(p) PROVE SurvivorsInv'
  <2>1. \A q \in Process : pc'[q] # "rotating"
    BY <1>5 DEF ReplaceJournal, Forget, LockInv, Inside
  <2>2. QED
    BY <2>1 DEF SurvivorsInv
<1>6. CASE UNCHANGED vars
  BY <1>6 DEF SurvivorsInv, vars, files, locals, history
<1>7. QED
  BY <1>1, <1>2, <1>3, <1>4, <1>5, <1>6 DEF Next, Fold

(* An entry is consumed at most once more than deaths made it repeat. *)
LEMMA CountStep ==
  TypeOK /\ LockInv /\ JournalInv /\ BatchInv /\ SurvivorsInv /\ CountInv /\ [Next]_vars
    => CountInv'
<1> SUFFICES ASSUME TypeOK, LockInv, JournalInv, BatchInv, SurvivorsInv, CountInv, [Next]_vars
             PROVE  CountInv'
  OBVIOUS
<1> USE DEF TypeOK
<1>0. /\ \A e \in Entry : folds[e] \in Nat /\ redo[e] \in Nat
      /\ \A p \in Process : batch[p] \in Seq(Entry)
  OBVIOUS
<1>1. ASSUME NEW x \in Entry, AppendObservation(x) PROVE CountInv'
  <2>1. ToSet(journal') = ToSet(journal) \cup {x}
    BY <1>1, ToSetAppend DEF AppendObservation
  <2>2. QED
    BY <1>0, <1>1, <2>1 DEF AppendObservation, CountInv, Consuming, locals
<1>2. ASSUME Quiet, \A p \in Process, e \in Entry : Consuming(p, e)' <=> Consuming(p, e)
      PROVE  CountInv'
  BY <1>2 DEF CountInv, Quiet
<1>3. ASSUME NEW p \in Process, Sweep(p) \/ Confirm(p) \/ Acquire(p) PROVE CountInv'
  <2>1. \A q \in Process, e \in Entry : Consuming(q, e)' <=> Consuming(q, e)
    BY <1>3 DEF Sweep, Confirm, Acquire, Consuming, Folded, locals
  <2>2. QED
    BY <1>2, <1>3, <2>1, QuietActions
<1>4. ASSUME NEW p \in Process, GiveUp(p) PROVE CountInv'
  <2>1. \A q \in Process, e \in Entry : Consuming(q, e)' <=> Consuming(q, e)
    BY <1>4 DEF GiveUp, Forget, Consuming, Folded
  <2>2. QED
    BY <1>2, <1>4, <2>1, QuietActions
<1>5. ASSUME NEW p \in Process, ReadState(p) PROVE CountInv'
  <2>1. \A q \in Process, e \in Entry : Consuming(q, e)' <=> Consuming(q, e)
    BY <1>5 DEF ReadState, Consuming, Folded
  <2>2. QED
    BY <1>2, <1>5, <2>1, QuietActions
<1>6. ASSUME NEW p \in Process, LeaveUnrotated(p) PROVE CountInv'
  <2>1. \A q \in Process, e \in Entry : Consuming(q, e)' <=> Consuming(q, e)
    <3>1. ToSet(batch[p]) = {}
      BY <1>6 DEF LeaveUnrotated, ToSet
    <3>2. \A e \in Entry : ~Consuming(p, e) /\ ~Consuming(p, e)'
      BY <1>6, <3>1 DEF LeaveUnrotated, Forget, Consuming, Folded
    <3>3. \A q \in Process : q # p => pc'[q] = pc[q] /\ batch'[q] = batch[q]
      BY <1>6 DEF LeaveUnrotated, Forget
    <3>4. QED
      BY <3>2, <3>3 DEF Consuming
  <2>2. QED
    BY <1>2, <1>6, <2>1, QuietActions
<1>7. ASSUME NEW p \in Process, WriteHealth(p) PROVE CountInv'
  <2>1. /\ UNCHANGED <<journal, batch, appended, redo>> /\ pc[p] = "read"
        /\ \A e \in Entry : folds'[e] = IF e \in ToSet(batch[p]) THEN folds[e] + 1
                                                               ELSE folds[e]
    BY <1>7 DEF WriteHealth, Times, locals
  <2>2. \A q \in Process, e \in Entry :
          /\ Consuming(p, e)' <=> e \in ToSet(batch[p])
          /\ ~Consuming(q, e)
          /\ q # p => ~Consuming(q, e)'
    <3>1. pc[p] = "read" /\ pc' = [pc EXCEPT ![p] = "written"] /\ batch' = batch
      BY <1>7 DEF WriteHealth, locals
    <3>2. \A q \in Process : pc[q] \notin Folded
      BY <3>1 DEF LockInv, Inside, Folded
    <3>3. pc'[p] = "written" /\ \A q \in Process \ {p} : pc'[q] = pc[q]
      BY <3>1
    <3>4. QED
      BY <3>1, <3>2, <3>3 DEF Consuming, Folded
  <2>3. \A e \in ToSet(batch[p]) : e \in ToSet(journal) /\ e \in appended
    <3>1. \A e : e \in ToSet(batch[p]) <=> \E i \in 1..Len(batch[p]) : batch[p][i] = e
      BY <1>0, ToSetIndex
    <3>2. /\ Len(batch[p]) <= Len(journal)
          /\ \A i \in 1..Len(batch[p]) : batch[p][i] = journal[i]
      BY <2>1 DEF BatchInv
    <3>3. \A i \in 1..Len(batch[p]) : i \in 1..Len(journal)
      BY <3>2
    <3>4. \A e : e \in ToSet(journal) <=> \E i \in 1..Len(journal) : journal[i] = e
      BY ToSetIndex
    <3>5. \A e \in ToSet(batch[p]) : e \in ToSet(journal)
      BY <3>1, <3>2, <3>3, <3>4
    <3>6. QED
      BY <3>5 DEF JournalInv
  <2>4. ASSUME NEW e \in Entry
        PROVE  /\ e \notin appended' => folds'[e] = 0
               /\ \A q \in Process : Consuming(q, e)' => folds'[e] > 0
               /\ folds'[e] <= redo'[e] + 1
               /\ e \in ToSet(journal') /\ (\A q \in Process : ~Consuming(q, e)')
                    => folds'[e] <= redo'[e]
    <3>1. /\ e \notin appended => folds[e] = 0
          /\ folds[e] <= redo[e] + 1
          /\ e \in ToSet(journal) => folds[e] <= redo[e]
      BY <2>2 DEF CountInv
    <3>2. CASE e \in ToSet(batch[p])
      BY <1>0, <2>1, <2>2, <2>3, <3>1, <3>2
    <3>3. CASE e \notin ToSet(batch[p])
      BY <1>0, <2>1, <2>2, <3>1, <3>3
    <3>4. QED
      BY <3>2, <3>3
  <2>5. QED
    BY <2>4 DEF CountInv
<1>8. ASSUME NEW p \in Process, ReadSurvivors(p) PROVE CountInv'
  <2>1. \A q \in Process, e \in Entry : Consuming(q, e)' <=> Consuming(q, e)
    BY <1>8 DEF ReadSurvivors, Consuming, Folded
  <2>2. Quiet
    BY <1>8 DEF ReadSurvivors, Quiet, files, history
  <2>3. QED
    BY <1>2, <2>1, <2>2
<1>9. ASSUME NEW p \in Process, ReplaceJournal(p) PROVE CountInv'
  <2>1. UNCHANGED <<appended, folds, redo>> /\ journal' = survivors[p] /\ pc[p] = "rotating"
    BY <1>9 DEF ReplaceJournal, history
  <2>2. \A q \in Process, e \in Entry : ~Consuming(q, e)'
    BY <1>9 DEF ReplaceJournal, Forget, Consuming, Folded, LockInv, Inside
  <2>3. \A e \in ToSet(survivors[p]) : e \in ToSet(journal) /\ e \notin ToSet(batch[p])
    BY <2>1 DEF SurvivorsInv
  <2>4. \A q \in Process, e \in Entry : Consuming(q, e) => e \in ToSet(batch[p])
    BY <2>1 DEF Consuming, Folded, LockInv, Inside
  <2>5. QED
    BY <2>1, <2>2, <2>3, <2>4 DEF CountInv
<1>10. ASSUME NEW p \in Process, Crash(p) PROVE CountInv'
  <2>1. UNCHANGED <<journal, appended, folds>>
    BY <1>10 DEF Crash, files
  <2>2. \A e \in Entry : redo'[e] = IF Consuming(p, e) THEN redo[e] + 1 ELSE redo[e]
    BY <1>10 DEF Crash, Times, Consuming
  <2>3. \A q \in Process, e \in Entry : Consuming(q, e)' <=> Consuming(q, e) /\ q # p
    BY <1>10 DEF Crash, Forget, Consuming, Folded
  <2>4. ASSUME NEW e \in Entry
        PROVE  /\ folds'[e] <= redo'[e] + 1
               /\ e \in ToSet(journal') /\ (\A q \in Process : ~Consuming(q, e)')
                    => folds'[e] <= redo'[e]
    <3>1. CASE Consuming(p, e)
      BY <1>0, <2>1, <2>2, <3>1 DEF CountInv
    <3>2. CASE ~Consuming(p, e)
      <4>1. (\A q \in Process : ~Consuming(q, e)') => \A q \in Process : ~Consuming(q, e)
        BY <2>3, <3>2
      <4>2. QED
        BY <1>0, <2>1, <2>2, <3>2, <4>1 DEF CountInv
    <3>3. QED
      BY <3>1, <3>2
  <2>5. QED
    BY <2>1, <2>3, <2>4 DEF CountInv
<1>11. CASE UNCHANGED vars
  <2>1. Quiet /\ \A q \in Process, e \in Entry : Consuming(q, e)' <=> Consuming(q, e)
    BY <1>11 DEF vars, files, locals, history, Quiet, Consuming
  <2>2. QED
    BY <1>2, <2>1
<1>12. QED
  BY <1>1, <1>3, <1>4, <1>5, <1>6, <1>7, <1>8, <1>9, <1>10, <1>11 DEF Next, Fold

(* An entry leaves the Journal consumed, or exposed. *)
LEMMA LossStep ==
  TypeOK /\ SurvivorsInv /\ CountInv /\ NothingLostUnread /\ [Next]_vars
    => NothingLostUnread'
<1> SUFFICES ASSUME TypeOK, SurvivorsInv, CountInv, NothingLostUnread, [Next]_vars
             PROVE  NothingLostUnread'
  OBVIOUS
<1> USE DEF TypeOK
<1>1. ASSUME NEW x \in Entry, AppendObservation(x) PROVE NothingLostUnread'
  <2>1. ToSet(journal') = ToSet(journal) \cup {x}
    BY <1>1, ToSetAppend DEF AppendObservation
  <2>2. QED
    BY <1>1, <2>1 DEF AppendObservation, NothingLostUnread
<1>2. ASSUME Quiet PROVE NothingLostUnread'
  BY <1>2 DEF NothingLostUnread, Quiet
<1>3. ASSUME NEW p \in Process, WriteHealth(p) PROVE NothingLostUnread'
  <2>1. /\ UNCHANGED <<journal, appended, exposed>>
        /\ \A e \in Entry : folds[e] > 0 => folds'[e] > 0
    BY <1>3 DEF WriteHealth, Times
  <2>2. QED
    BY <2>1 DEF NothingLostUnread
<1>4. ASSUME NEW p \in Process, ReadSurvivors(p) \/ Crash(p) PROVE NothingLostUnread'
  BY <1>4 DEF NothingLostUnread, ReadSurvivors, Crash, files, history
<1>5. ASSUME NEW p \in Process, ReplaceJournal(p) PROVE NothingLostUnread'
  <2>1. UNCHANGED <<appended, folds, exposed>> /\ journal' = survivors[p] /\ pc[p] = "rotating"
    BY <1>5 DEF ReplaceJournal, history
  <2>2. ToSet(journal) \subseteq ToSet(batch[p]) \cup ToSet(survivors[p]) \cup exposed
    BY <2>1 DEF SurvivorsInv
  <2>3. \A e \in Entry : e \in ToSet(batch[p]) => folds[e] > 0
    BY <2>1 DEF CountInv, Consuming, Folded
  <2>4. QED
    BY <2>1, <2>2, <2>3 DEF NothingLostUnread
<1>6. CASE UNCHANGED vars
  BY <1>6 DEF NothingLostUnread, vars, files, history
<1>7. QED
  BY <1>1, <1>2, <1>3, <1>4, <1>5, <1>6, QuietActions DEF Next, Fold

-----------------------------------------------------------------------------
(* The invariant holds in every reachable state. *)
THEOREM Invariance == Spec => []IInv
<1>1. ConstantsAssumption
  BY ConstantsAssumption
<1>2. IInv /\ [Next]_vars => IInv'
  BY <1>1, TypeStep, LockStep, PriorStep, JournalStep, BatchStep, SurvivorsStep,
     CountStep, LossStep DEF IInv
<1>3. QED
  BY <1>1, <1>2, InvInit, PTL DEF Spec

(* However many processes there are, two are never both inside the fold. *)
THEOREM MutualExclusionHolds == Spec => []MutualExclusion
<1>1. IInv => MutualExclusion
  BY DEF IInv, LockInv, MutualExclusion
<1>2. QED
  BY <1>1, Invariance, PTL

(* No Observation disappears unread outside the window ADR 0001 accepts,   *)
(* whatever the processes, their order and their deaths.                   *)
THEOREM NothingLostUnreadHolds == Spec => []NothingLostUnread
<1>1. IInv => NothingLostUnread
  BY DEF IInv
<1>2. QED
  BY <1>1, Invariance, PTL

(* Without a death between write and rotation, no Observation is folded    *)
(* into Health State twice.                                                *)
THEOREM FoldedOnceHolds == Spec => []FoldedOnce
<1>1. IInv => FoldedOnce
  BY DEF IInv, CountInv, FoldedOnce
<1>2. QED
  BY <1>1, Invariance, PTL

(* From its read to its rotation a fold may drop what it read by counting  *)
(* from the front: those entries are still the first of the Journal.       *)
THEOREM BatchStillFirstHolds == Spec => []BatchStillFirst
<1>1. ASSUME NEW s \in Seq(Entry), NEW t \in Seq(Entry), Len(s) <= Len(t),
             \A i \in 1..Len(s) : s[i] = t[i]
      PROVE  IsPrefix(s, t)
  <2>1. SubSeq(s, 1, Len(s)) = SubSeq(t, 1, Len(s))
    BY <1>1
  <2>2. QED BY <1>1, <2>1 DEF IsPrefix
<1>2. IInv => BatchStillFirst
  BY <1>1 DEF IInv, BatchInv, TypeOK, BatchStillFirst
<1>3. QED
  BY <1>2, Invariance, PTL

(* A fold always reduces from the Health State it is about to replace. *)
THEOREM PriorIsCurrentHolds == Spec => []PriorIsCurrent
<1>1. IInv => PriorIsCurrent
  BY DEF IInv
<1>2. QED
  BY <1>1, Invariance, PTL

(* Health State forgets an event only where the writing fold does not      *)
(* admit its key: no fold overwrites the update of another.                *)
THEOREM RecordsOnlyPrunedHolds == Spec => RecordsOnlyPruned
<1>1. IInv /\ [Next]_vars => [OnlyPrunes]_vars
  <2> SUFFICES ASSUME IInv, Next PROVE OnlyPrunes
    OBVIOUS
  <2> USE DEF IInv, TypeOK, OnlyPrunes
  <2>1. ASSUME health' = health PROVE OnlyPrunes
    BY <2>1
  <2>2. ASSUME NEW p \in Process, WriteHealth(p) PROVE OnlyPrunes
    <3>1. /\ pc[p] = "read" /\ pc'[p] = "written" /\ prior[p] = health
          /\ health' = Reduce(health, outcomes[p], batch[p], admitted[p])
      BY <2>2 DEF WriteHealth, PriorIsCurrent
    <3>2. \A e \in Event : KeyOf[e] \in admitted[p] => health'[e] >= health[e]
      BY <3>1 DEF Reduce, Times
    <3>3. \A e \in Event : KeyOf[e] \in admitted[p] => ~(health'[e] < health[e])
      <4>1. \A e \in Event : health[e] \in Nat
        OBVIOUS
      <4>2. \A e \in Event : KeyOf[e] \in admitted[p] => health'[e] \in Nat
        BY <3>1, <4>1 DEF Reduce, Times
      <4>3. QED
        BY <3>2, <4>1, <4>2
    <3>4. QED
      BY <3>1, <3>3
  <2>3. ASSUME NEW e \in Entry, AppendObservation(e) PROVE OnlyPrunes
    BY <2>1, <2>3 DEF AppendObservation
  <2>4. ASSUME NEW p \in Process, Sweep(p) \/ Confirm(p) \/ Acquire(p) \/ GiveUp(p)
                 \/ ReadState(p) \/ ReadSurvivors(p) \/ LeaveUnrotated(p) \/ Crash(p)
        PROVE  OnlyPrunes
    BY <2>1, <2>4 DEF Sweep, Confirm, Acquire, GiveUp, ReadState, ReadSurvivors,
                      LeaveUnrotated, Crash, files
  <2>5. ASSUME NEW p \in Process, ReplaceJournal(p) PROVE OnlyPrunes
    BY <2>1, <2>5 DEF ReplaceJournal
  <2>6. QED
    BY <2>2, <2>3, <2>4, <2>5 DEF Next, Fold
<1>2. QED
  BY <1>1, Invariance, PTL DEF Spec, RecordsOnlyPruned

-----------------------------------------------------------------------------
(* HealthFold implements JournalDelivery. *)

(* What a rotation is about to keep is the Journal after the consumed      *)
(* entries, up to some position.                                           *)
ShapeInv ==
  \A p \in Process : pc[p] = "rotating" =>
    \E m \in Len(batch[p])..Len(journal) :
      /\ batch[p] # <<>>
      /\ survivors[p] = SubSeq(journal, Len(batch[p]) + 1, m)

LEMMA ShapeStep == IInv /\ ShapeInv /\ [Next]_vars => ShapeInv'
<1> SUFFICES ASSUME IInv, ShapeInv, [Next]_vars PROVE ShapeInv'
  OBVIOUS
<1> USE DEF IInv, TypeOK
<1>1. ASSUME NEW e \in Entry, AppendObservation(e), NEW p \in Process, pc'[p] = "rotating"
      PROVE  \E m \in Len(batch'[p])..Len(journal') :
               /\ batch'[p] # <<>>
               /\ survivors'[p] = SubSeq(journal', Len(batch'[p]) + 1, m)
  <2>1. UNCHANGED <<pc, batch, survivors>> /\ journal' = Append(journal, e)
    BY <1>1 DEF AppendObservation, locals
  <2>2. PICK m \in Len(batch[p])..Len(journal) :
          batch[p] # <<>> /\ survivors[p] = SubSeq(journal, Len(batch[p]) + 1, m)
    BY <1>1, <2>1 DEF ShapeInv
  <2>3. \A a \in Nat \ {0} : SubSeq(Append(journal, e), a, m) = SubSeq(journal, a, m)
    <3>1. m \in Nat /\ m <= Len(journal)
      OBVIOUS
    <3>2. QED
      BY <3>1
  <2>4. Len(batch[p]) + 1 \in Nat \ {0} /\ m \in Len(batch'[p])..Len(journal')
    <3>1. Len(journal') = Len(journal) + 1 /\ batch' = batch
      BY <2>1
    <3>2. batch[p] \in Seq(Entry) /\ Len(batch[p]) \in Nat /\ Len(journal) \in Nat
      OBVIOUS
    <3>3. QED
      BY <3>1, <3>2
  <2>5. QED
    BY <2>1, <2>2, <2>3, <2>4
<1>2. ASSUME NEW p \in Process,
             Sweep(p) \/ Confirm(p) \/ Acquire(p) \/ ReadState(p) \/ WriteHealth(p)
               \/ GiveUp(p) \/ LeaveUnrotated(p) \/ Crash(p)
      PROVE  ShapeInv'
  <2>1. journal' = journal
    BY <1>2 DEF Sweep, Confirm, Acquire, ReadState, WriteHealth, GiveUp, LeaveUnrotated,
                Crash, files
  <2>2. \A q \in Process : pc'[q] = "rotating" =>
          pc[q] = "rotating" /\ batch'[q] = batch[q] /\ survivors'[q] = survivors[q]
    <3>1. CASE Sweep(p) \/ Confirm(p) \/ Acquire(p) \/ ReadState(p) \/ WriteHealth(p)
      BY <3>1 DEF Sweep, Confirm, Acquire, ReadState, WriteHealth, locals
    <3>2. CASE GiveUp(p) \/ LeaveUnrotated(p) \/ Crash(p)
      BY <3>2 DEF GiveUp, LeaveUnrotated, Crash, Forget
    <3>3. QED
      BY <1>2, <3>1, <3>2
  <2>3. QED
    BY <2>1, <2>2 DEF ShapeInv
<1>3. ASSUME NEW p \in Process, ReadSurvivors(p) PROVE ShapeInv'
  <2>1. /\ UNCHANGED <<journal, batch>> /\ pc[p] = "written" /\ batch[p] # <<>>
        /\ survivors'[p] = SubSeq(journal, Len(batch[p]) + 1, Len(journal))
        /\ \A q \in Process : q # p => pc'[q] = pc[q] /\ pc[q] # "rotating"
    BY <1>3 DEF ReadSurvivors, LockInv, Inside, files
  <2>2. Len(journal) \in Len(batch[p])..Len(journal)
    BY <2>1 DEF BatchInv
  <2>3. QED
    BY <2>1, <2>2 DEF ShapeInv
<1>4. ASSUME NEW p \in Process, ReplaceJournal(p) PROVE ShapeInv'
  BY <1>4 DEF ReplaceJournal, Forget, LockInv, Inside, ShapeInv
<1>5. CASE UNCHANGED vars
  BY <1>5 DEF ShapeInv, vars, files, locals
<1>6. QED
  <2>1. ASSUME NEW e \in Entry, AppendObservation(e) PROVE ShapeInv'
    BY <1>1, <2>1 DEF ShapeInv
  <2>2. QED
    BY <2>1, <1>2, <1>3, <1>4, <1>5 DEF Next, Fold

(* Each step of the processes is a step of the Journal's promise, or none. *)
LEMMA DeliveryStep ==
  IInv /\ ShapeInv /\ [Next]_vars => [Delivery!Next]_(Delivery!vars)
<1> SUFFICES ASSUME IInv, ShapeInv, [Next]_vars PROVE [Delivery!Next]_(Delivery!vars)
  OBVIOUS
<1> USE DEF IInv, TypeOK
<1>1. ASSUME UNCHANGED <<journal, folds, appended>> PROVE [Delivery!Next]_(Delivery!vars)
  BY <1>1 DEF Delivery!vars
<1>2. ASSUME NEW e \in Entry, AppendObservation(e) PROVE [Delivery!Next]_(Delivery!vars)
  BY <1>2 DEF AppendObservation, Delivery!Next, Delivery!Write
<1>3. ASSUME NEW p \in Process, WriteHealth(p) PROVE [Delivery!Next]_(Delivery!vars)
  <2> DEFINE n == Len(batch[p])
             oldest == SubSeq(journal, 1, n)
  <2>1. /\ UNCHANGED <<journal, appended>> /\ pc[p] = "read"
        /\ folds' = [e \in Entry |-> folds[e] + Times(e, {}, batch[p])]
    BY <1>3 DEF WriteHealth
  <2>2. n \in 0..Len(journal) /\ \A i \in 1..n : batch[p][i] = journal[i]
    BY <2>1 DEF BatchInv
  <2>3. batch[p] = oldest
    <3>1. /\ oldest \in Seq(Entry) /\ Len(oldest) = n
          /\ \A i \in 1..n : oldest[i] = journal[i]
      BY <2>2
    <3>2. batch[p] \in Seq(Entry) /\ Len(batch[p]) = n
      OBVIOUS
    <3>3. QED
      BY <2>2, <3>1, <3>2
  <2>4. folds' = [e \in Entry |-> IF e \in ToSet(oldest) THEN folds[e] + 1 ELSE folds[e]]
    <3>1. \A e \in Entry : folds[e] + Times(e, {}, batch[p])
             = IF e \in ToSet(batch[p]) THEN folds[e] + 1 ELSE folds[e]
      BY DEF Times
    <3>2. QED
      BY <2>1, <2>3, <3>1
  <2>5. CASE n = 0
    <3>1. ToSet(batch[p]) = {}
      BY <2>5 DEF ToSet
    <3>2. folds' = folds
      BY <2>3, <2>4, <3>1
    <3>3. QED
      BY <1>1, <2>1, <3>2
  <2>6. CASE n # 0
    <3>1. n \in 1..Len(journal)
      BY <2>2, <2>6
    <3>2. Delivery!Deliver(n)
      BY <2>1, <2>4 DEF Delivery!Deliver, Delivery!ToSet, ToSet
    <3>3. QED
      BY <3>1, <3>2 DEF Delivery!Next
  <2>7. QED
    BY <2>5, <2>6
<1>4. ASSUME NEW p \in Process, ReplaceJournal(p) PROVE [Delivery!Next]_(Delivery!vars)
  <2> DEFINE n == Len(batch[p])
  <2>1. /\ UNCHANGED <<folds, appended>> /\ pc[p] = "rotating"
        /\ journal' = survivors[p]
    BY <1>4 DEF ReplaceJournal, history
  <2>2. PICK m \in n..Len(journal) :
          batch[p] # <<>> /\ survivors[p] = SubSeq(journal, n + 1, m)
    BY <2>1 DEF ShapeInv
  <2>3. n \in 1..Len(journal)
    <3>1. batch[p] \in Seq(Entry) /\ batch[p] # <<>> /\ Len(journal) \in Nat
      BY <2>2
    <3>2. n \in Nat /\ n # 0
      BY <3>1
    <3>3. n <= Len(journal)
      BY <2>1 DEF BatchInv
    <3>4. QED
      <4> HIDE DEF n
      <4>1. QED BY <3>1, <3>2, <3>3
  <2>4. \A i \in 1..n : folds[journal[i]] > 0
    <3>1. \A i \in 1..n : batch[p][i] = journal[i]
      BY <2>1 DEF BatchInv
    <3>2. \A e : e \in ToSet(batch[p]) <=> \E i \in 1..n : batch[p][i] = e
      BY ToSetIndex
    <3>3. \A e \in Entry : e \in ToSet(batch[p]) => folds[e] > 0
      BY <2>1 DEF CountInv, Consuming, Folded
    <3>4. \A i \in 1..n : batch[p][i] \in Entry
      OBVIOUS
    <3>5. QED
      BY <3>1, <3>2, <3>3, <3>4
  <2>5. Delivery!Retire(n, m)
    BY <2>1, <2>2, <2>4 DEF Delivery!Retire
  <2>6. QED
    BY <2>2, <2>3, <2>5 DEF Delivery!Next
<1>5. ASSUME NEW p \in Process,
             Sweep(p) \/ Confirm(p) \/ Acquire(p) \/ GiveUp(p) \/ ReadState(p)
               \/ ReadSurvivors(p) \/ LeaveUnrotated(p) \/ Crash(p)
      PROVE  [Delivery!Next]_(Delivery!vars)
  BY <1>1, <1>5 DEF Sweep, Confirm, Acquire, GiveUp, ReadState, ReadSurvivors,
                    LeaveUnrotated, Crash, files, history
<1>6. CASE UNCHANGED vars
  BY <1>1, <1>6 DEF vars, files, history
<1>7. QED
  BY <1>2, <1>3, <1>4, <1>5, <1>6 DEF Next, Fold

(* Seen from the Journal, the processes deliver each entry at least once,  *)
(* oldest first, before retiring it.                                       *)
THEOREM ImplementsDeliveryHolds == Spec => ImplementsDelivery
<1>1. Init => ShapeInv /\ Delivery!Init
  BY DEF Init, ShapeInv, Delivery!Init
<1>2. QED
  BY <1>1, Invariance, ShapeStep, DeliveryStep, PTL
     DEF Spec, ImplementsDelivery, Delivery!Spec
=============================================================================
