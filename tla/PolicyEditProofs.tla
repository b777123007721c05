-------------------------- MODULE PolicyEditProofs --------------------------
(***************************************************************************)
(* Proofs about PolicyEdit, for any calls, ids and values, and any number  *)
(* of saves and sections.                                                  *)
(***************************************************************************)
EXTENDS PolicyEdit, TLAPS

(* The one block, if there is one, is the last section. *)
Tidy(t) == t \in Text /\ \A i \in Blocks(t) : i = Len(t.sections)

(* Nothing is listed below a key in flow style. *)
Closed(t) == \A i \in DOMAIN t.sections :
               t.sections[i].form = "flow" => t.sections[i].below = Empty

(* Only emptied sections are in flow style. *)
Plain(t) == \A i \in DOMAIN t.sections :
              t.sections[i].form = "flow" => t.sections[i].entry = Empty

(* What holds of every text a call handles. *)
Good(t) == Tidy(t) /\ Closed(t) /\ (~FlowEntries => Plain(t))

(* Of two texts, u is t with id's entry replaced, unless that stands below *)
(* a comment.                                                              *)
Replaced(t, u, id, value) ==
  \A i \in Id : Effective(u)[i] =
    IF i = id /\ ~ListedBelow(t, i) THEN value ELSE Effective(t)[i]

Busy(s) == pc[s] # "idle"

(* The call in the lock, and what it knows. *)
CallInv(s) ==
  /\ Busy(s) => lock = s /\ target[s] \in Id
  /\ Good(text[s])
  /\ Good(new[s])
  /\ pc[s] \in {"built", "checked"} => Locatable(s) /\ new[s] = Built(s)
  /\ pc[s] = "checked" /\ s \notin overtaken => policy = text[s]

IInv == TypeOK /\ Good(policy) /\ \A s \in Surface : CallInv(s)

-----------------------------------------------------------------------------
LEMMA EmptyType == Empty \in Entries
BY DEF Empty, Entries

LEMMA TextFields ==
  ASSUME NEW t \in Text, NEW q \in Seq(Section)
  PROVE  /\ t.sections \in Seq(Section) /\ t.fault \in BOOLEAN
         /\ [t EXCEPT !.sections = q].sections = q
         /\ [t EXCEPT !.sections = q].fault = t.fault
         /\ [t EXCEPT !.sections = q] \in Text
BY DEF Text

LEMMA NoTextGood == Good(NoText) /\ Valid(NoText) /\ NoText \in Text
BY DEF Good, Tidy, Closed, Plain, Valid, NoText, Text, Section, Blocks

(* What the editor saves is as good as what a verb reads. *)
LEMMA OperatorTextGood ==
  ASSUME PolicyAssumption, NEW t \in OperatorText
  PROVE  Good(t) /\ t \in Text
<1> DEFINE Choice == {<<>>} \cup {<<x>> : x \in HandWritten}
<1>1. t \in [sections : Choice, fault : BOOLEAN]
  BY DEF OperatorText
<1>2. Choice \subseteq Seq(Section) /\ t.sections \in Choice
  <2>1. \A x \in HandWritten : <<x>> \in Seq(Section)
    BY DEF HandWritten
  <2>2. Choice \subseteq Seq(Section)
    <3>1. ASSUME NEW c \in Choice PROVE c \in Seq(Section)
      <4>1. CASE c = <<>>
        BY <4>1
      <4>2. CASE c # <<>>
        <5>1. PICK x \in HandWritten : c = <<x>>
          BY <4>2
        <5>2. QED
          BY <2>1, <5>1
      <4>3. QED
        BY <4>1, <4>2
    <3>2. QED
      BY <3>1
  <2>3. t.sections \in Choice
    <3> HIDE DEF Choice
    <3> QED
      BY <1>1
  <2>4. QED
    BY <2>2, <2>3
<1>3. t \in Text
  BY <1>1, <1>2 DEF Text
<1>4. CASE t.sections = <<>>
  BY <1>3, <1>4 DEF Good, Tidy, Closed, Plain, Blocks
<1>5. CASE t.sections # <<>>
  <2>1. PICK x \in HandWritten : t.sections = <<x>>
    BY <1>2, <1>5
  <2>2. x.form = "flow" => x.below = Empty /\ (x.entry # Empty => FlowEntries)
    BY DEF HandWritten
  <2>3. QED
    BY <2>1, <2>2, <1>3 DEF Good, Tidy, Closed, Plain, Blocks
<1>6. QED
  BY <1>3, <1>4, <1>5

(* In a tidy text the block that _find_key finds is the last section. *)
LEMMA FoundIsLast ==
  ASSUME NEW t, Tidy(t), Blocks(t) # {}
  PROVE  /\ FindKey(t) = Len(t.sections)
         /\ Len(t.sections) \in DOMAIN t.sections
         /\ t.sections # <<>>
         /\ t.sections[Len(t.sections)].form = "block"
<1>1. t.sections \in Seq(Section)
  BY DEF Tidy, Text
<1>2. PICK i \in Blocks(t) : TRUE
  OBVIOUS
<1>3. i = Len(t.sections) /\ Blocks(t) = {i}
  BY <1>2 DEF Tidy
<1>4. i \in DOMAIN t.sections /\ t.sections[i].form = "block"
  BY <1>2 DEF Blocks
<1>5. i \in Int
  BY <1>1, <1>4
<1>6. FindKey(t) \in Blocks(t)
  BY <1>3, <1>5 DEF FindKey
<1>7. QED
  BY <1>1, <1>3, <1>4, <1>6

(* What a reader gets of a section, id by id. *)
LEMMA MergedIs ==
  ASSUME NEW x \in Section, NEW i \in Id
  PROVE  Merged(x)[i] = IF x.below[i] # None THEN x.below[i] ELSE x.entry[i]
BY DEF Merged

(* Recording an entry keeps a text good and changes that entry only. *)
LEMMA WithEntryExact ==
  ASSUME PolicyAssumption, NEW t \in Text, Good(t), NEW id \in Id, NEW value \in Value
  PROVE  /\ WithEntry(t, id, value) \in Text
         /\ Good(WithEntry(t, id, value))
         /\ ~FlowEntries => Replaced(t, WithEntry(t, id, value), id, value)
<1> DEFINE u == WithEntry(t, id, value)
<1> DEFINE n == Len(t.sections)
<1>1. t.sections \in Seq(Section) /\ t.fault \in BOOLEAN
  BY DEF Text
<1>2. CASE Blocks(t) = {}
  <2> DEFINE b == Listing([Empty EXCEPT ![id] = value])
  <2>1. /\ b \in Section /\ b.form = "block" /\ b.below = Empty
        /\ b.entry = [Empty EXCEPT ![id] = value]
    BY EmptyType DEF Section, Entries, Listing
  <2>2. u = [t EXCEPT !.sections = Append(t.sections, b)]
    BY <1>2 DEF WithEntry
  <2>3. u.sections = Append(t.sections, b) /\ u.fault = t.fault /\ u \in Text
    <3> HIDE DEF b
    <3>1. Append(t.sections, b) \in Seq(Section)
      BY <1>1, <2>1
    <3>2. /\ [t EXCEPT !.sections = Append(t.sections, b)].sections = Append(t.sections, b)
          /\ [t EXCEPT !.sections = Append(t.sections, b)].fault = t.fault
          /\ [t EXCEPT !.sections = Append(t.sections, b)] \in Text
      BY <3>1, TextFields
    <3>3. QED
      BY <3>2, <2>2
  <2> HIDE DEF b, u
  <2>4. /\ Len(u.sections) = n + 1
        /\ u.sections[n + 1] = b
        /\ \A i \in 1..n : u.sections[i] = t.sections[i]
        /\ u.sections # <<>> /\ u.sections \in Seq(Section)
    BY <1>1, <2>1, <2>3
  <2>5. \A i \in 1..n : t.sections[i].form # "block"
    BY <1>1, <1>2 DEF Blocks
  <2>6. Tidy(u)
    BY <1>1, <2>3, <2>4, <2>5 DEF Tidy, Blocks
  <2>7. Closed(u) /\ (~FlowEntries => Plain(u))
    <3>1. \A i \in DOMAIN u.sections : i \in 1..n \/ u.sections[i].form = "block"
      BY <1>1, <2>1, <2>4
    <3>2. \A i \in 1..n : u.sections[i] = t.sections[i] /\ i \in DOMAIN t.sections
      BY <1>1, <2>4
    <3>3. QED
      BY <3>1, <3>2 DEF Good, Closed, Plain
  <2>8. ~FlowEntries => \A i \in Id : Effective(t)[i] = None /\ ~ListedBelow(t, i)
    <3>1. CASE t.sections = <<>>
      BY <3>1 DEF Effective, Empty, ListedBelow
    <3>2. CASE t.sections # <<>>
      <4>1. n \in 1..n /\ Last(t.sections) = t.sections[n]
        BY <1>1, <3>2 DEF Last
      <4>2. t.sections[n] \in Section /\ t.sections[n].form # "block"
        BY <1>1, <2>5, <4>1
      <4>3. t.sections[n].form = "flow"
        BY <4>2 DEF Section
      <4>4. ~FlowEntries => t.sections[n].below = Empty /\ t.sections[n].entry = Empty
        BY <1>1, <4>1, <4>3 DEF Good, Closed, Plain
      <4>5. QED
        BY <3>2, <4>1, <4>2, <4>4, MergedIs DEF Effective, ListedBelow, Empty
    <3>3. QED
      BY <3>1, <3>2
  <2>9. \A i \in Id : Effective(u)[i] = IF i = id THEN value ELSE None
    <3>1. Effective(u) = Merged(b)
      BY <2>4 DEF Effective, Last
    <3>2. QED
      BY <3>1, <2>1, MergedIs DEF Empty
  <2>10. QED
    BY <2>3, <2>6, <2>7, <2>8, <2>9 DEF Good, Replaced, u
<1>3. CASE Blocks(t) # {}
  <2>1. /\ FindKey(t) = n /\ n \in DOMAIN t.sections /\ t.sections # <<>>
        /\ t.sections[n].form = "block"
    BY <1>3, FoundIsLast DEF Good
  <2> DEFINE b == [t.sections[n] EXCEPT !.entry = [t.sections[n].entry EXCEPT ![id] = value]]
  <2>2. u = [t EXCEPT !.sections = [t.sections EXCEPT ![n] = b]]
    BY <1>3, <2>1 DEF WithEntry
  <2>3. t.sections[n] \in Section
    BY <1>1, <2>1
  <2>4. /\ b \in Section /\ b.form = "block" /\ b.below = t.sections[n].below
        /\ b.entry = [t.sections[n].entry EXCEPT ![id] = value]
    BY <2>1, <2>3 DEF Section, Entries
  <2>5. u.sections = [t.sections EXCEPT ![n] = b] /\ u.fault = t.fault /\ u \in Text
    <3>1. [t.sections EXCEPT ![n] = b] \in Seq(Section)
      BY <1>1, <2>1, <2>4
    <3>2. /\ [t EXCEPT !.sections = [t.sections EXCEPT ![n] = b]].sections = [t.sections EXCEPT ![n] = b]
          /\ [t EXCEPT !.sections = [t.sections EXCEPT ![n] = b]].fault = t.fault
          /\ [t EXCEPT !.sections = [t.sections EXCEPT ![n] = b]] \in Text
      BY <3>1, TextFields
    <3>3. QED
      BY <3>2, <2>2
  <2> HIDE DEF b, u
  <2>6. /\ Len(u.sections) = n /\ DOMAIN u.sections = DOMAIN t.sections
        /\ u.sections[n] = b
        /\ \A i \in DOMAIN t.sections : i # n => u.sections[i] = t.sections[i]
        /\ u.sections # <<>>
    BY <1>1, <2>1, <2>4, <2>5
  <2>7. Tidy(u)
    BY <1>1, <2>5, <2>6 DEF Tidy, Blocks, Good
  <2>8. Closed(u) /\ (~FlowEntries => Plain(u))
    BY <1>1, <2>4, <2>6 DEF Good, Closed, Plain
  <2>9. Replaced(t, u, id, value)
    <3>1. /\ Effective(t) = Merged(t.sections[n]) /\ Effective(u) = Merged(b)
          /\ Last(t.sections) = t.sections[n]
      BY <2>1, <2>6 DEF Effective, Last
    <3>2. t.sections[n].entry \in Entries
      BY <2>3 DEF Section
    <3>3. \A i \in Id : b.entry[i] = IF i = id THEN value ELSE t.sections[n].entry[i]
      BY <2>4, <3>2 DEF Entries
    <3>4. ASSUME NEW i \in Id
          PROVE  Merged(b)[i] = IF i = id /\ t.sections[n].below[i] = None THEN value
                                ELSE Merged(t.sections[n])[i]
      <4>1. Merged(b)[i] = IF b.below[i] # None THEN b.below[i] ELSE b.entry[i]
        BY <2>4, MergedIs
      <4>2. Merged(t.sections[n])[i] = IF t.sections[n].below[i] # None
              THEN t.sections[n].below[i] ELSE t.sections[n].entry[i]
        BY <2>3, MergedIs
      <4>3. b.below[i] = t.sections[n].below[i]
        BY <2>4
      <4>4. b.entry[i] = IF i = id THEN value ELSE t.sections[n].entry[i]
        BY <3>3
      <4>5. QED
        BY <4>1, <4>2, <4>3, <4>4
    <3>5. \A i \in Id : ListedBelow(t, i) <=> t.sections[n].below[i] # None
      BY <3>1, <2>1 DEF ListedBelow
    <3>6. QED
      BY <3>1, <3>4, <3>5 DEF Replaced
  <2>10. QED
    BY <2>5, <2>7, <2>8, <2>9 DEF Good, u
<1>4. QED
  BY <1>2, <1>3

(* So does clearing one that a line was found for, if the outcome is a     *)
(* valid Policy.                                                           *)
LEMMA WithoutEntryExact ==
  ASSUME PolicyAssumption, NEW t \in Text, Good(t), NEW id \in Id, ~Unlocatable(t, id),
         Valid(WithoutEntry(t, id))
  PROVE  /\ WithoutEntry(t, id) \in Text
         /\ Good(WithoutEntry(t, id))
         /\ Replaced(t, WithoutEntry(t, id), id, None)
<1> DEFINE u == WithoutEntry(t, id)
<1> DEFINE n == Len(t.sections)
<1>1. t.sections \in Seq(Section) /\ t.fault \in BOOLEAN
  BY DEF Text
<1>2. /\ FindKey(t) = n /\ n \in DOMAIN t.sections /\ t.sections # <<>>
      /\ t.sections[n].form = "block"
  BY FoundIsLast DEF Good, Unlocatable
<1> DEFINE e == [t.sections[n].entry EXCEPT ![id] = None]
<1> DEFINE b == [form |-> IF e = Empty THEN "flow" ELSE "block", entry |-> e,
                 below |-> t.sections[n].below]
<1>3. u = [t EXCEPT !.sections = [t.sections EXCEPT ![n] = b]]
  BY <1>2 DEF WithoutEntry
<1>4. t.sections[n] \in Section
  BY <1>1, <1>2
<1>5. /\ b \in Section /\ b.entry = e /\ b.below = t.sections[n].below
      /\ b.form = "flow" => b.entry = Empty
  BY <1>4 DEF Section, Entries
<1>6. u.sections = [t.sections EXCEPT ![n] = b] /\ u.fault = t.fault /\ u \in Text
  <2>1. [t.sections EXCEPT ![n] = b] \in Seq(Section)
    <3> HIDE DEF b, n
    <3>1. n \in DOMAIN t.sections
      BY <1>2
    <3>2. QED BY <1>1, <1>5, <3>1
  <2>2. /\ [t EXCEPT !.sections = [t.sections EXCEPT ![n] = b]].sections = [t.sections EXCEPT ![n] = b]
        /\ [t EXCEPT !.sections = [t.sections EXCEPT ![n] = b]].fault = t.fault
        /\ [t EXCEPT !.sections = [t.sections EXCEPT ![n] = b]] \in Text
    <3> HIDE DEF b, n
    <3>1. QED BY <2>1, TextFields
  <2>3. QED
    BY <2>2, <1>3
<1> HIDE DEF u, b
<1>7. /\ Len(u.sections) = n /\ DOMAIN u.sections = DOMAIN t.sections
      /\ u.sections[n] = b
      /\ \A i \in DOMAIN t.sections : i # n => u.sections[i] = t.sections[i]
      /\ u.sections # <<>>
  BY <1>1, <1>2, <1>5, <1>6
<1>8. Tidy(u)
  BY <1>1, <1>6, <1>7 DEF Tidy, Blocks, Good
<1>9. Closed(u) /\ (~FlowEntries => Plain(u))
  <2>1. Closed(u)
    BY DEF Valid, Closed, u
  <2>2. QED
    BY <2>1, <1>1, <1>5, <1>7 DEF Good, Plain
<1>10. Replaced(t, u, id, None)
  <2>1. /\ Effective(t) = Merged(t.sections[n]) /\ Effective(u) = Merged(b)
        /\ Last(t.sections) = t.sections[n]
    BY <1>2, <1>7 DEF Effective, Last
  <2>2. t.sections[n].entry \in Entries
    BY <1>4 DEF Section
  <2>3. \A i \in Id : b.entry[i] = IF i = id THEN None ELSE t.sections[n].entry[i]
    BY <1>5, <2>2 DEF Entries
  <2>4. ASSUME NEW i \in Id
        PROVE  Merged(b)[i] = IF i = id /\ t.sections[n].below[i] = None THEN None
                              ELSE Merged(t.sections[n])[i]
    <3>1. Merged(b)[i] = IF b.below[i] # None THEN b.below[i] ELSE b.entry[i]
      BY <1>5, MergedIs
    <3>2. Merged(t.sections[n])[i] = IF t.sections[n].below[i] # None
            THEN t.sections[n].below[i] ELSE t.sections[n].entry[i]
      BY <1>4, MergedIs
    <3>3. b.below[i] = t.sections[n].below[i]
      BY <1>5
    <3>4. b.entry[i] = IF i = id THEN None ELSE t.sections[n].entry[i]
      BY <2>3
    <3>5. QED
      BY <3>1, <3>2, <3>3, <3>4
  <2>5. \A i \in Id : ListedBelow(t, i) <=> t.sections[n].below[i] # None
    BY <2>1, <1>2 DEF ListedBelow
  <2>6. QED
    BY <2>1, <2>4, <2>5 DEF Replaced
<1>11. QED
  BY <1>6, <1>8, <1>9, <1>10 DEF Good, u

(* Hence every valid text a verb builds is good, and exact. *)
LEMMA BuiltExact ==
  ASSUME PolicyAssumption, NEW s \in Surface, text[s] \in Text, Good(text[s]),
         target[s] \in Id, wanted[s] \in Value \cup {None}, Locatable(s), Valid(Built(s))
  PROVE  /\ Built(s) \in Text
         /\ Good(Built(s))
         /\ ~FlowEntries => Replaced(text[s], Built(s), target[s], wanted[s])
<1>1. CASE wanted[s] = None
  BY <1>1, WithoutEntryExact DEF Built, Locatable
<1>2. CASE wanted[s] # None
  BY <1>2, WithEntryExact DEF Built
<1>3. QED
  BY <1>1, <1>2

-----------------------------------------------------------------------------
LEMMA InitInv == Init => IInv
<1> SUFFICES ASSUME Init PROVE IInv
  OBVIOUS
<1> USE PolicyAssumption
<1>1. Good(policy) /\ policy \in Text
  BY OperatorTextGood DEF Init
<1>2. TypeOK
  BY <1>1, NoTextGood DEF Init, TypeOK, PolicyAssumption
<1>3. \A s \in Surface : CallInv(s)
  BY NoTextGood DEF Init, CallInv, Busy
<1>4. QED
  BY <1>1, <1>2, <1>3 DEF IInv

(* A call that leaves the lock forgets everything; the others were never   *)
(* in it.                                                                  *)
LEMMA LeaveStep ==
  ASSUME PolicyAssumption, IInv, NEW s \in Surface, Busy(s), Leave(s),
         policy' \in Text, Good(policy'), saves' = saves
  PROVE  IInv'
<1>1. TypeOK'
  <2>1. new' \in [Surface -> Text] /\ \A q \in Surface : Valid(new'[q])
    BY NoTextGood DEF IInv, TypeOK, Leave
  <2>2. text' \in [Surface -> Text]
    BY NoTextGood DEF IInv, TypeOK, Leave
  <2>3. QED
    BY <2>1, <2>2 DEF IInv, TypeOK, Leave
<1>2. ASSUME NEW q \in Surface PROVE CallInv(q)'
  <2>1. CASE q = s
    <3>1. pc'[q] = "idle" /\ text'[q] = NoText /\ new'[q] = NoText
      BY <2>1 DEF IInv, TypeOK, Leave
    <3>2. QED
      BY <3>1, NoTextGood DEF CallInv, Busy, Good, Tidy, Closed, Plain, Blocks
  <2>2. CASE q # s
    <3>1. ~Busy(q)
      BY <2>2 DEF IInv, CallInv
    <3>2. pc'[q] = "idle" /\ text'[q] = text[q] /\ new'[q] = new[q]
      BY <2>2, <3>1 DEF IInv, TypeOK, Leave, Busy
    <3>3. Good(text[q]) /\ Good(new[q])
      BY DEF IInv, CallInv
    <3>4. QED
      BY <3>2, <3>3 DEF CallInv, Busy, Good, Tidy, Closed, Plain, Blocks
  <2>3. QED
    BY <2>1, <2>2
<1>3. QED
  BY <1>1, <1>2 DEF IInv, Good, Tidy, Closed, Plain, Blocks

(* A verb's text is valid, and exact, when it is built. *)
LEMMA BuildStep ==
  ASSUME PolicyAssumption, IInv, NEW s \in Surface, Build(s)
  PROVE  IInv'
<1>1. /\ text[s] \in Text /\ Good(text[s]) /\ target[s] \in Id
      /\ wanted[s] \in Value \cup {None} /\ Locatable(s) /\ Valid(Built(s))
  BY DEF IInv, TypeOK, CallInv, Busy, Build
<1>2. Built(s) \in Text /\ Good(Built(s))
  BY <1>1, BuiltExact
<1>3. TypeOK'
  <2>1. new' \in [Surface -> Text] /\ \A q \in Surface : Valid(new'[q])
    BY <1>1, <1>2 DEF IInv, TypeOK, Build
  <2>2. QED
    BY <2>1 DEF IInv, TypeOK, Build
<1>4. ASSUME NEW q \in Surface PROVE CallInv(q)'
  <2>1. /\ text' = text /\ target' = target /\ wanted' = wanted /\ lock' = lock
        /\ policy' = policy /\ overtaken' = overtaken
    BY DEF Build
  <2>2. Locatable(q)' = Locatable(q) /\ Built(q)' = Built(q)
    BY <2>1 DEF Locatable, Unlocatable, Built
  <2>3. CASE q = s
    <3>1. pc'[q] = "built" /\ new'[q] = Built(s) /\ lock = s
      BY <2>3 DEF IInv, TypeOK, CallInv, Busy, Build
    <3>2. QED
      BY <1>1, <1>2, <2>1, <2>2, <2>3, <3>1 DEF CallInv, Busy, Good, Tidy, Closed, Plain, Blocks
  <2>4. CASE q # s
    <3>1. pc'[q] = pc[q] /\ new'[q] = new[q]
      BY <2>4 DEF IInv, TypeOK, Build
    <3>2. CallInv(q)
      BY DEF IInv
    <3>3. QED
      BY <2>1, <2>2, <3>1, <3>2 DEF CallInv, Busy, Good, Tidy, Closed, Plain, Blocks
  <2>5. QED
    BY <2>3, <2>4
<1>5. QED
  BY <1>3, <1>4 DEF Build, IInv, Good, Tidy, Closed, Plain, Blocks

(* The second reading of the file. *)
LEMMA CompareStep ==
  ASSUME IInv, NEW s \in Surface, Compare(s)
  PROVE  IInv'
<1>1. TypeOK'
  BY DEF IInv, TypeOK, Compare
<1>2. ASSUME NEW q \in Surface PROVE CallInv(q)'
  <2>1. /\ text' = text /\ target' = target /\ wanted' = wanted /\ lock' = lock
        /\ policy' = policy /\ overtaken' = overtaken /\ new' = new
    BY DEF Compare
  <2>2. Locatable(q)' = Locatable(q) /\ Built(q)' = Built(q)
    BY <2>1 DEF Locatable, Unlocatable, Built
  <2>3. CallInv(q)
    BY DEF IInv
  <2>4. \/ pc'[q] = pc[q]
        \/ pc[q] = "built" /\ pc'[q] = "checked" /\ policy = text[q]
    BY DEF IInv, TypeOK, Compare
  <2>5. QED
    BY <2>1, <2>2, <2>3, <2>4 DEF CallInv, Busy, Good, Tidy, Closed, Plain, Blocks
<1>3. QED
  BY <1>1, <1>2 DEF Compare, IInv, Good, Tidy, Closed, Plain, Blocks

(* A verb takes the lock and the text. *)
LEMMA ReadStep ==
  ASSUME PolicyAssumption, IInv, NEW s \in Surface, NEW id \in Id,
         NEW value \in Value \cup {None}, Read(s, id, value)
  PROVE  IInv'
<1>1. TypeOK'
  BY DEF IInv, TypeOK, Read, Start
<1>2. ASSUME NEW q \in Surface PROVE CallInv(q)'
  <2>1. ~Busy(q)
    BY DEF IInv, CallInv, Read, PolicyAssumption
  <2>2. Good(text[q]) /\ Good(new[q]) /\ Good(policy)
    BY DEF IInv, CallInv
  <2>3. CASE q = s
    <3>1. /\ pc'[q] = "read" /\ target'[q] = id /\ text'[q] = policy
          /\ new'[q] = new[q] /\ lock' = s
      BY <2>3 DEF IInv, TypeOK, Read, Start
    <3>2. QED
      BY <2>2, <2>3, <3>1 DEF CallInv, Busy, Good, Tidy, Closed, Plain, Blocks
  <2>4. CASE q # s
    <3>1. pc'[q] = "idle" /\ text'[q] = text[q] /\ new'[q] = new[q]
      BY <2>1, <2>4 DEF IInv, TypeOK, Read, Start, Busy
    <3>2. QED
      BY <2>2, <3>1 DEF CallInv, Busy, Good, Tidy, Closed, Plain, Blocks
  <2>5. QED
    BY <2>3, <2>4
<1>3. QED
  BY <1>1, <1>2 DEF Read, IInv, Good, Tidy, Closed, Plain, Blocks

(* The editor saves: calls past their second reading are overtaken. *)
LEMMA EditorStep ==
  ASSUME PolicyAssumption, IInv, EditorSaves
  PROVE  IInv'
<1>1. PICK t \in OperatorText : policy' = t
  BY DEF EditorSaves
<1>2. Good(t) /\ t \in Text
  BY OperatorTextGood
<1>3. TypeOK'
  BY <1>1, <1>2 DEF IInv, TypeOK, EditorSaves, call, PolicyAssumption
<1>4. ASSUME NEW q \in Surface PROVE CallInv(q)'
  <2>1. /\ text' = text /\ target' = target /\ wanted' = wanted /\ lock' = lock
        /\ new' = new /\ pc' = pc
        /\ overtaken' = overtaken \cup {p \in Surface : pc[p] = "checked"}
    BY DEF EditorSaves, call
  <2>2. Locatable(q)' = Locatable(q) /\ Built(q)' = Built(q)
    BY <2>1 DEF Locatable, Unlocatable, Built
  <2>3. CallInv(q)
    BY DEF IInv
  <2>4. QED
    BY <2>1, <2>2, <2>3 DEF CallInv, Busy, Good, Tidy, Closed, Plain, Blocks
<1>5. QED
  BY <1>1, <1>2, <1>3, <1>4 DEF IInv, Good, Tidy, Closed, Plain, Blocks

(* The lock changes hands between folds only while no verb holds it. *)
LEMMA MaintainerStep ==
  ASSUME PolicyAssumption, IInv, MaintainerTakes \/ MaintainerLeaves \/ UNCHANGED vars
  PROVE  IInv'
<1>1. /\ call' = call /\ policy' = policy /\ saves' = saves /\ overtaken' = overtaken
      /\ lock' = lock \/ (lock \in {None, Maintainer} /\ lock' \in {None, Maintainer})
  BY DEF MaintainerTakes, MaintainerLeaves, vars
<1>2. /\ text' = text /\ target' = target /\ wanted' = wanted
      /\ new' = new /\ pc' = pc
  BY <1>1 DEF call
<1>3. TypeOK'
  BY <1>1, <1>2 DEF IInv, TypeOK
<1>4. ASSUME NEW q \in Surface PROVE CallInv(q)'
  <2>1. Locatable(q)' = Locatable(q) /\ Built(q)' = Built(q)
    BY <1>2 DEF Locatable, Unlocatable, Built
  <2>2. CallInv(q) /\ (Busy(q) => lock' = lock)
    BY <1>1 DEF IInv, CallInv, PolicyAssumption
  <2>3. QED
    BY <1>1, <1>2, <2>1, <2>2 DEF CallInv, Busy, Good, Tidy, Closed, Plain, Blocks
<1>5. QED
  BY <1>1, <1>3, <1>4 DEF IInv, Good, Tidy, Closed, Plain, Blocks

(* The invariant is inductive. *)
LEMMA NextInv == IInv /\ [Next]_vars => IInv'
<1> SUFFICES ASSUME IInv, [Next]_vars PROVE IInv'
  OBVIOUS
<1> USE PolicyAssumption
<1>1. ASSUME NEW s \in Surface, Unchanged(s) \/ RefuseEdit(s) \/ RefuseChanged(s) \/ Die(s)
      PROVE IInv'
  <2>1. Busy(s) /\ Leave(s) /\ policy' = policy /\ saves' = saves
    BY <1>1 DEF Unchanged, RefuseEdit, RefuseChanged, Die, Busy
  <2>2. policy' \in Text /\ Good(policy')
    BY <2>1 DEF IInv, TypeOK
  <2>3. QED
    BY <2>1, <2>2, LeaveStep
<1>2. ASSUME NEW s \in Surface, Replace(s) PROVE IInv'
  <2>1. Busy(s) /\ Leave(s) /\ policy' = new[s] /\ saves' = saves
    BY <1>2 DEF Replace, Busy
  <2>2. policy' \in Text /\ Good(policy')
    BY <2>1 DEF IInv, TypeOK, CallInv
  <2>3. QED
    BY <2>1, <2>2, LeaveStep
<1>3. QED
  BY <1>1, <1>2, BuildStep, CompareStep, ReadStep, EditorStep, MaintainerStep DEF Next

THEOREM Invariance == Spec => []IInv
<1>1. QED
  BY InitInv, NextInv, PTL DEF Spec

(* The type invariant, with the claim that what a call is about to write   *)
(* is a valid Policy.                                                      *)
THEOREM TypeCorrect == Spec => []TypeOK
<1>1. IInv => TypeOK
  BY DEF IInv
<1>2. QED
  BY <1>1, Invariance, PTL

(* The block a verb edits is the section a reader takes. *)
THEOREM EditedBlockIsReadHolds == Spec => []EditedBlockIsRead
<1>1. IInv => EditedBlockIsRead
  BY DEF IInv, Good, Tidy, EditedBlockIsRead
<1>2. QED
  BY <1>1, Invariance, PTL

(* A verb changes the entry it names, unless that is listed below a        *)
(* comment, and no other, provided that the operator writes no entries in  *)
(* flow style.                                                             *)
THEOREM EditIsExactHolds ==
  ASSUME FlowEntries = FALSE
  PROVE  Spec => EditIsExact
<1> DEFINE Exact == \A s \in Surface :
      Replaces(s) /\ policy' # policy /\ s \notin overtaken =>
        \A i \in Id : Effective(policy')[i] =
          IF i = target[s] /\ ~ListedBelow(policy, i) THEN wanted[s] ELSE Effective(policy)[i]
<1>1. IInv => Exact
  <2> SUFFICES ASSUME IInv, NEW s \in Surface, Replaces(s), s \notin overtaken
               PROVE  \A i \in Id : Effective(policy')[i] =
                        IF i = target[s] /\ ~ListedBelow(policy, i) THEN wanted[s]
                        ELSE Effective(policy)[i]
    OBVIOUS
  <2>1. pc[s] = "checked" /\ policy' = new[s]
    BY DEF Replaces
  <2>2. /\ new[s] = Built(s) /\ policy = text[s] /\ Locatable(s) /\ Good(text[s])
        /\ target[s] \in Id /\ text[s] \in Text /\ wanted[s] \in Value \cup {None}
        /\ Valid(Built(s))
    BY <2>1 DEF IInv, CallInv, Busy, TypeOK
  <2>3. Replaced(text[s], Built(s), target[s], wanted[s])
    BY <2>2, BuiltExact, PolicyAssumption
  <2>4. policy' = Built(s) /\ policy = text[s]
    BY <2>1, <2>2
  <2>5. QED
    BY <2>3, <2>4 DEF Replaced
<1>2. IInv => [Exact]_vars
  BY <1>1
<1>3. QED
  BY <1>2, Invariance, PTL DEF EditIsExact
=============================================================================
