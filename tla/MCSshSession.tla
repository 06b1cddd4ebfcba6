---------------------------- MODULE MCSshSession ----------------------------
(***************************************************************************)
(* Instances of SshSession for TLC: two connections and a cap of one, so   *)
(* that a second connection can be refused, or admitted while the first is *)
(* still on its way.                                                       *)
(***************************************************************************)
EXTENDS SshSession, TLC

Symmetry == Permutations(Conns)

=============================================================================
