----------------------------- MODULE RuleTable -----------------------------
(***************************************************************************)
(* What every reconciler of this gateway promises about a kernel table it  *)
(* keeps in step with a plan: an entry that is planned is never taken out, *)
(* and one that is not planned is never put in.  A reboot may empty the    *)
(* table; nothing else disturbs it.  In particular a reconciler never      *)
(* clears the table to fill it again.                                      *)
(***************************************************************************)
CONSTANT Entries

VARIABLES plan, table

Init == plan = {} /\ table = {}

\* A pass begins with a new plan.
Replan == plan' \in SUBSET Entries /\ UNCHANGED table

Add == \E e \in plan : table' = table \cup {e} /\ UNCHANGED plan

Remove == \E e \in table \ plan : table' = table \ {e} /\ UNCHANGED plan

Reboot == table' = {} /\ UNCHANGED plan

Next == Replan \/ Add \/ Remove \/ Reboot

Spec == Init /\ [][Next]_<<plan, table>>

=============================================================================
