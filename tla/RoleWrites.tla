----------------------------- MODULE RoleWrites -----------------------------
(***************************************************************************)
(* Guidance composed with the Generated Config: a run that folds also      *)
(* writes the Role ladders of what it now knows (cli._augment_with_roles). *)
(* Every write that changes the file restarts the proxy.                   *)
(***************************************************************************)
EXTENDS Guidance

VARIABLES
  written,  \* the ladders in the Generated Config
  facts     \* history: what was admitted at that write

NotWritten == [r \in Roles |-> <<>>]

RoleInit == GInit /\ written = NotWritten /\ facts = {}

(* _augment_with_roles, with the Health State the run has just folded and  *)
(* the Headroom State it finds on disk.                                    *)
AugmentWithRoles ==
  LET k == View(admitted, health', figure) IN
  /\ written' = [r \in Roles |-> Ladder(k, Rules[r])]
  /\ facts' = admitted

RunAndWrite == (Sweep \/ Confirm) /\ AugmentWithRoles

RoleNext ==
  \/ RunAndWrite
  \/ /\ \/ \E o \in Offering : TruthChanges(o)
        \/ \E o \in Edited : PolicyChanges(o)
        \/ \E a \in Allowances : DrawnChanges(a) \/ Refresh(a)
        \/ Pass
     /\ UNCHANGED <<written, facts>>

RoleSpec == RoleInit /\ [][RoleNext]_<<Gvars, written, facts>>

-----------------------------------------------------------------------------
(* "Generated Config may be driven only by facts that are deliberate or    *)
(* terminal": two writes with the same admitted Offerings are identical.   *)
OnlyFactsDrive ==
  [][facts # {} /\ facts' = facts => written' = written]_<<Gvars, written, facts>>
=============================================================================
