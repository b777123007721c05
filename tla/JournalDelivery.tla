--------------------------- MODULE JournalDelivery --------------------------
(***************************************************************************)
(* What the Observation Journal promises, without processes, locks or      *)
(* files: entries are consumed oldest first, at least once, and leave only *)
(* after they have been consumed.  One step breaks the promise, and only   *)
(* it: retiring consumed entries may also drop the youngest ones, the race *)
(* ADR 0001 accepts so that the proxy never waits for a lock.              *)
(***************************************************************************)
EXTENDS Integers, Sequences, SequencesExt

CONSTANT Entry

VARIABLES
  pending,    \* entries not yet retired, oldest first
  delivered,  \* how often each entry has been consumed
  written     \* entries ever written

vars == <<pending, delivered, written>>

Init ==
  /\ pending = <<>>
  /\ delivered = [e \in Entry |-> 0]
  /\ written = {}

Write(e) ==
  /\ e \notin written
  /\ pending' = Append(pending, e)
  /\ written' = written \cup {e}
  /\ UNCHANGED delivered

(* The oldest n entries are consumed together. *)
Deliver(n) ==
  /\ LET oldest == ToSet(SubSeq(pending, 1, n)) IN
     delivered' = [e \in Entry |-> IF e \in oldest THEN delivered[e] + 1
                                                   ELSE delivered[e]]
  /\ UNCHANGED <<pending, written>>

(* The oldest n, all consumed, are retired; those after position m are     *)
(* lost with them.                                                         *)
Retire(n, m) ==
  /\ \A i \in 1..n : delivered[pending[i]] > 0
  /\ pending' = SubSeq(pending, n + 1, m)
  /\ UNCHANGED <<delivered, written>>

Next ==
  \/ \E e \in Entry : Write(e)
  \/ \E n \in 1..Len(pending) : Deliver(n)
  \/ \E n \in 1..Len(pending) : \E m \in n..Len(pending) : Retire(n, m)

Spec == Init /\ [][Next]_vars
=============================================================================
