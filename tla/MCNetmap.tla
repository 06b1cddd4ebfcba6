------------------------------ MODULE MCNetmap ------------------------------
(***************************************************************************)
(* The instance of Netmap that TLC checks: both shadow slots (and, in the  *)
(* .cfg, two LANs), so that a slot can change its LAN and a LAN its slot.  *)
(***************************************************************************)
EXTENDS Netmap

ShadowSlots == {168, 172}

=============================================================================
