----------------------------- MODULE PolicyEdit -----------------------------
(***************************************************************************)
(* The Operator Surface: one verb edits the text of the Policy file while  *)
(* the operator's own editor may save the same file.  A verb works on      *)
(* lines, never on the parsed document, so the model keeps the two apart:  *)
(* the text may hold one key several times, and a YAML reader takes the    *)
(* last of them.  To a verb a block ends at the first line that is not     *)
(* indented deeper than its key, to the reader it goes on after a comment. *)
(*                                                                         *)
(* One key stands for the three that verbs edit alike: withheld,           *)
(* approved_candidates and naming.alias_overrides (of which the levels     *)
(* above the key itself are left out).  A dry run changes nothing and is   *)
(* not a step; a verb that finds the lock busy neither.                    *)
(***************************************************************************)
EXTENDS Integers, Sequences, SequencesExt

CONSTANTS
  Surface,      \* operator_surface calls that may run at the same time
  Id,           \* Offering ids
  Value,        \* what a verb records for an id: a reason, an Alias
  None,         \* no entry; nothing
  Maintainer,   \* the lock's holder when a fold of Health State holds it
  FlowEntries,  \* whether the operator writes entries in flow style, {a: b}
  Commented,    \* ids the operator may list below a comment at column 0
  MaxSaves,     \* bound: saves of the operator's editor
  MaxSections   \* bound: sections of the key that edits leave behind

ASSUME PolicyAssumption ==
  /\ None \notin Value \cup Surface
  /\ Maintainer \notin Surface \cup {None}
  /\ FlowEntries \in BOOLEAN /\ Commented \subseteq Id
  /\ MaxSaves \in Nat /\ MaxSections \in Nat

VARIABLES
  policy,     \* the Policy file
  lock,       \* who holds the maintainer's lock
  pc,         \* where each call is
  target,     \* the id a call is about
  wanted,     \* the value it is to record; None clears the entry
  text,       \* the text it read, which its hash stands for
  new,        \* the text it built
  saves,      \* saves of the editor so far
  \* History: read by no action, only by properties.
  overtaken   \* calls whose file was saved after their last look at it

call == <<pc, target, wanted, text, new>>
vars == <<policy, lock, call, saves, overtaken>>

(* A key is written as a block of lines or in flow style.  A comment that  *)
(* is not indented parts a block: its entries are those above the comment  *)
(* and those below.  The rest of the file may hold a mistake of the        *)
(* operator's.                                                             *)
Entries == [Id -> Value \cup {None}]
Section == [form : {"block", "flow"}, entry : Entries, below : Entries]
Text == [sections : Seq(Section), fault : BOOLEAN]

Empty == [i \in Id |-> None]
NoText == [sections |-> <<>>, fault |-> FALSE]
Listing(entry) == [form |-> "block", entry |-> entry, below |-> Empty]

(* Of two lines for one id a reader takes the lower.                       *)
Merged(section) ==
  [i \in Id |-> IF section.below[i] # None THEN section.below[i] ELSE section.entry[i]]

(* What a reader gets: the last of the sections with this key. *)
Effective(t) == IF t.sections = <<>> THEN Empty ELSE Merged(Last(t.sections))

(* parse_policy: a key with no entry under it reads as null and is         *)
(* refused, as are lines under a flow-style key and a mistake elsewhere.   *)
Valid(t) ==
  /\ ~t.fault
  /\ \A i \in DOMAIN t.sections : t.sections[i].form = "flow" => t.sections[i].below = Empty
  /\ t.sections # <<>> =>
       ~(Last(t.sections).form = "block" /\ Merged(Last(t.sections)) = Empty)

-----------------------------------------------------------------------------
Blocks(t) == {i \in DOMAIN t.sections : t.sections[i].form = "block"}

(* _find_key: the first line that is this key and nothing more. *)
FindKey(t) == CHOOSE i \in Blocks(t) : \A j \in Blocks(t) : i <= j

(* _withhold_text, _approve_candidate_text, _set_alias_text: a line in the *)
(* block as far as _block_end sees it, or a new block at the end when none *)
(* is found.                                                               *)
WithEntry(t, id, value) ==
  IF Blocks(t) = {}
  THEN [t EXCEPT !.sections = Append(@, Listing([Empty EXCEPT ![id] = value]))]
  ELSE [t EXCEPT !.sections[FindKey(t)].entry[id] = value]

(* _unwithhold_text and _collapse_if_empty, which look above the comment.  *)
WithoutEntry(t, id) ==
  LET section == t.sections[FindKey(t)]
      entry == [section.entry EXCEPT ![id] = None]
  IN [t EXCEPT !.sections[FindKey(t)] =
        [form |-> IF entry = Empty THEN "flow" ELSE "block", entry |-> entry,
         below |-> section.below]]

(* The parsed Policy has the entry, and the block as far as _block_end     *)
(* sees it has no line for it.                                             *)
Unlocatable(t, id) ==
  Blocks(t) = {} \/ t.sections[FindKey(t)].entry[id] = None

-----------------------------------------------------------------------------
(* What the operator saves by hand: the key at most once. *)
HandWritten ==
  {x \in Section : IF x.form = "flow" THEN x.below = Empty /\ (x.entry # Empty => FlowEntries)
                   ELSE \A i \in Id : x.below[i] # None => i \in Commented}

OperatorText == [sections : {<<>>} \cup {<<x>> : x \in HandWritten}, fault : BOOLEAN]

Init ==
  /\ policy \in OperatorText
  /\ lock = None
  /\ pc = [s \in Surface |-> "idle"]
  /\ target = [s \in Surface |-> None]
  /\ wanted = [s \in Surface |-> None]
  /\ text = [s \in Surface |-> NoText]
  /\ new = [s \in Surface |-> NoText]
  /\ saves = 0
  /\ overtaken = {}

(* The operator's editor replaces the file, whatever it holds. *)
EditorSaves ==
  /\ saves < MaxSaves
  /\ saves' = saves + 1
  /\ \E t \in OperatorText : policy' = t
  /\ overtaken' = overtaken \cup {s \in Surface : pc[s] = "checked"}
  /\ UNCHANGED <<lock, call>>

(* A fold of Health State takes the same lock, and leaves it. *)
MaintainerTakes ==
  /\ lock = None
  /\ lock' = Maintainer
  /\ UNCHANGED <<policy, call, saves, overtaken>>

MaintainerLeaves ==
  /\ lock = Maintainer
  /\ lock' = None
  /\ UNCHANGED <<policy, call, saves, overtaken>>

Start(s, id, value) ==
  /\ pc[s] = "idle"
  /\ pc' = [pc EXCEPT ![s] = "read"]
  /\ target' = [target EXCEPT ![s] = id]
  /\ wanted' = [wanted EXCEPT ![s] = value]
  /\ text' = [text EXCEPT ![s] = policy]

(* _edit takes the lock and reads the file. *)
Read(s, id, value) ==
  /\ lock = None
  /\ lock' = s
  /\ Start(s, id, value)
  /\ UNCHANGED <<policy, new, saves, overtaken>>

(* _edit returns or raises: the lock is left. *)
Leave(s) ==
  /\ lock' = IF lock = s THEN None ELSE lock
  /\ pc' = [pc EXCEPT ![s] = "idle"]
  /\ target' = [target EXCEPT ![s] = None]
  /\ wanted' = [wanted EXCEPT ![s] = None]
  /\ text' = [text EXCEPT ![s] = NoText]
  /\ new' = [new EXCEPT ![s] = NoText]
  /\ overtaken' = overtaken \ {s}

Already(s) == Effective(text[s])[target[s]] = wanted[s]

Built(s) ==
  IF wanted[s] = None THEN WithoutEntry(text[s], target[s])
  ELSE WithEntry(text[s], target[s], wanted[s])

(* The state asked for already holds. *)
Unchanged(s) ==
  /\ pc[s] = "read"
  /\ Already(s)
  /\ Leave(s)
  /\ UNCHANGED <<policy, saves>>

Locatable(s) == wanted[s] # None \/ ~Unlocatable(text[s], target[s])

(* The line cannot be located, or the edited text is not a valid Policy.   *)
RefuseEdit(s) ==
  /\ pc[s] = "read"
  /\ ~Already(s)
  /\ Locatable(s) => ~Valid(Built(s))
  /\ Leave(s)
  /\ UNCHANGED <<policy, saves>>

(* Faulty: the edited text is not validated. *)
BuildUnvalidated(s) ==
  /\ pc[s] = "read"
  /\ ~Already(s)
  /\ Locatable(s)
  /\ Len(Built(s).sections) <= MaxSections
  /\ new' = [new EXCEPT ![s] = Built(s)]
  /\ pc' = [pc EXCEPT ![s] = "built"]
  /\ UNCHANGED <<policy, lock, target, wanted, text, saves, overtaken>>

(* The verb's edit, validated. *)
Build(s) ==
  /\ pc[s] = "read"
  /\ ~Already(s)
  /\ Locatable(s)
  /\ Len(Built(s).sections) <= MaxSections
  /\ Valid(Built(s))
  /\ new' = [new EXCEPT ![s] = Built(s)]
  /\ pc' = [pc EXCEPT ![s] = "built"]
  /\ UNCHANGED <<policy, lock, target, wanted, text, saves, overtaken>>

(* Faulty: the file is not read a second time. *)
CompareNothing(s) ==
  /\ pc[s] = "built"
  /\ pc' = [pc EXCEPT ![s] = "checked"]
  /\ UNCHANGED <<policy, lock, target, wanted, text, new, saves, overtaken>>

(* The file is read again and its hash compared. *)
Compare(s) ==
  /\ pc[s] = "built"
  /\ policy = text[s]
  /\ pc' = [pc EXCEPT ![s] = "checked"]
  /\ UNCHANGED <<policy, lock, target, wanted, text, new, saves, overtaken>>

RefuseChanged(s) ==
  /\ pc[s] = "built"
  /\ policy # text[s]
  /\ Leave(s)
  /\ UNCHANGED <<policy, saves>>

(* _write_atomically: a temporary file renamed over Policy. *)
Replace(s) ==
  /\ pc[s] = "checked"
  /\ policy' = new[s]
  /\ Leave(s)
  /\ UNCHANGED saves

(* The command is killed, or the disk refuses the write. *)
Die(s) ==
  /\ pc[s] # "idle"
  /\ Leave(s)
  /\ UNCHANGED <<policy, saves>>

Next ==
  \/ EditorSaves \/ MaintainerTakes \/ MaintainerLeaves
  \/ \E s \in Surface :
       \/ \E id \in Id, value \in Value \cup {None} : Read(s, id, value)
       \/ Unchanged(s) \/ RefuseEdit(s) \/ Build(s)
       \/ Compare(s) \/ RefuseChanged(s) \/ Replace(s) \/ Die(s)

Spec == Init /\ [][Next]_vars

-----------------------------------------------------------------------------
(* Type invariant: what a call is about to write is a valid Policy.        *)
TypeOK ==
  /\ policy \in Text
  /\ lock \in Surface \cup {None, Maintainer}
  /\ pc \in [Surface -> {"idle", "read", "built", "checked"}]
  /\ target \in [Surface -> Id \cup {None}]
  /\ wanted \in [Surface -> Value \cup {None}]
  /\ text \in [Surface -> Text]
  /\ new \in [Surface -> Text] /\ \A s \in Surface : Valid(new[s])
  /\ saves \in 0..MaxSaves
  /\ overtaken \subseteq Surface

(* The block a verb edits is the section a reader takes: no older section  *)
(* of the same key follows it, however often verbs add and empty blocks.   *)
EditedBlockIsRead ==
  \A i \in Blocks(policy) : i = Len(policy.sections)

(* A step in which s renames its text into place. *)
Replaces(s) == pc[s] = "checked" /\ pc'[s] = "idle" /\ policy' = new[s]

(* What a verb cannot see: a line below a comment.                         *)
ListedBelow(t, id) == t.sections # <<>> /\ Last(t.sections).below[id] # None

(* A verb changes the one entry it names, of the Policy that is on disk at *)
(* that moment, and no other: neither another call's edit nor the          *)
(* operator's save is undone, unless the editor saves between the last     *)
(* look at the file and the rename.  An entry listed below a comment is    *)
(* not changed even by name (see ReasonIsReplaced), and nothing else is.   *)
EditIsExact ==
  [][\A s \in Surface : Replaces(s) /\ policy' # policy /\ s \notin overtaken =>
       \A i \in Id : Effective(policy')[i] =
         IF i = target[s] /\ ~ListedBelow(policy, i) THEN wanted[s] ELSE Effective(policy)[i]]_vars

(* "Calling it with a different reason replaces the reason": what withhold *)
(* has recorded is what the Policy says.                                   *)
ReasonIsReplaced ==
  [][\A s \in Surface : Replaces(s) /\ wanted[s] # None /\ s \notin overtaken =>
       Effective(policy')[target[s]] = wanted[s]]_vars

(* "Withheld ... Only a human clears it, which is unwithhold": recording   *)
(* an entry for one id leaves the entries of the others.                   *)
OnlyUnwithholdClears ==
  [][\A s \in Surface : Replaces(s) /\ wanted[s] # None /\ s \notin overtaken =>
       \A i \in Id : Effective(policy)[i] # None => Effective(policy')[i] # None]_vars
=============================================================================
