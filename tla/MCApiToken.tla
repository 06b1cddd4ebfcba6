----------------------------- MODULE MCApiToken -----------------------------
(***************************************************************************)
(* ApiToken for TLC.  The owner's tabs are interchangeable.                *)
(*                                                                         *)
(* Browsers and requests have only the token in common, which neither      *)
(* changes: no state is lost to either of them if the other stands still.  *)
(***************************************************************************)
EXTENDS ApiToken, TLC

Symmetry == Permutations(Tabs)

NobodyBrowses == page = rights /\ \A u \in Users : socket[u] = "off"

OneAtATime == NobodyBrowses \/ \A q \in Requests : req[q] = "idle"

=============================================================================
