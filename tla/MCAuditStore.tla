---------------------------- MODULE MCAuditStore ----------------------------
(***************************************************************************)
(* The instance of AuditStore that TLC checks: writers are alike.          *)
(***************************************************************************)
EXTENDS AuditStore, TLC

Symmetry == Permutations(Writers)

=============================================================================
