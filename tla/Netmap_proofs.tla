--------------------------- MODULE Netmap_proofs ---------------------------
(***************************************************************************)
(* For any slots, LANs and bounds: a pass without faults leaves exactly    *)
(* the rewrites of its plan and a record of each, a LAN is rewritten       *)
(* before it is masqueraded, and under any faults the two NAT chains       *)
(* implement RuleTable.                                                    *)
(***************************************************************************)
EXTENDS Netmap, TLAPS

(***************************************************************************)
(* The invariant                                                           *)
(***************************************************************************)

Applying == {"snat", "local", "masq"}
Removing == {"unsnat", "unmasq", "unlocal"}

\* Whatever fails: the first loop works on planned mappings, the second on
\* mappings that are not planned.
LoopInv ==
    /\ pc = "idle" => todo = {} /\ pending = {}
    /\ pc = "apply" \/ pc \in Applying => todo \subseteq plan /\ pending \subseteq plan
    /\ pc \in Applying => cur \in plan
    /\ pc = "remove" \/ pc \in Removing =>
          todo \cap plan = {} /\ pending \cap plan = {}
    /\ pc \in Removing => cur \notin plan

\* As long as nothing failed: how the record, the two chains and the position in
\* the loop go together.
Applied == tracked \cup pending
Kept == tracked \ pending

CleanInv ==
    /\ pc = "idle" => dnat = plan /\ snat = plan /\ tracked = plan
    /\ pc = "apply" => /\ dnat = Applied /\ snat = Applied
                       /\ plan \subseteq todo \cup pending
    /\ pc \in Applying => /\ dnat = Applied \cup {cur}
                          /\ plan \subseteq todo \cup pending \cup {cur}
    /\ pc = "snat" => snat = Applied
    /\ pc \in {"local", "masq"} => snat = dnat
    /\ pc = "remove" => /\ dnat = Kept /\ snat = Kept
                        /\ tracked = plan \cup todo \cup pending
    /\ pc \in Removing => /\ dnat = Kept \ {cur}
                          /\ tracked = plan \cup todo \cup pending \cup {cur}
    /\ pc = "unsnat" => snat = Kept
    /\ pc \in {"unmasq", "unlocal"} => snat = dnat

IInv == TypeOK /\ LoopInv /\ (faults = 0 => CleanInv)

\* A fault is counted, after which CleanInv promises nothing.
LEMMA FaultCounts ==
    ASSUME TypeOK, Fault
    PROVE  faults' # 0 /\ faults' \in 0 .. MaxFaults
BY BoundsAssumption DEF TypeOK, Fault

LEMMA StartKeeps == ASSUME IInv, StartPass PROVE IInv'
BY DEF IInv, TypeOK, LoopInv, CleanInv, StartPass, kernel, Applying, Removing,
       Applied, Kept, Rosters

LEMMA ApplyKeeps ==
    ASSUME IInv, EnsureDnat \/ EnsureSnat \/ ClaimLocal \/ EnsureMasq
    PROVE  IInv'
<1> USE DEF IInv, TypeOK, LoopInv, CleanInv, Applying, Removing, Applied
<1>1. CASE EnsureDnat BY <1>1 DEF EnsureDnat
<1>2. CASE EnsureSnat BY <1>2 DEF EnsureSnat
<1>3. CASE ClaimLocal
  <2>1. \/ local' = local \cup {Slot(cur)} /\ faults' = faults
        \/ local' = local /\ faults' # 0 /\ faults' \in 0 .. MaxFaults
    BY <1>3, FaultCounts DEF ClaimLocal
  <2>2. Slot(cur) \in Slots
    BY DEF Mappings, Slot
  <2> QED BY <1>3, <2>1, <2>2 DEF ClaimLocal
<1>4. CASE EnsureMasq
  <2>1. Lan(cur) \in Lans
    BY DEF Mappings, Lan
  <2> QED BY <1>4, <2>1 DEF EnsureMasq
<1> QED BY <1>1, <1>2, <1>3, <1>4

LEMMA RefusedKeeps == ASSUME IInv, RuleRefused PROVE IInv'
<1>1. faults' # 0 /\ faults' \in 0 .. MaxFaults
  BY FaultCounts DEF RuleRefused, IInv
<1> QED BY <1>1 DEF IInv, TypeOK, LoopInv, RuleRefused, kernel, Applying, Removing

LEMMA ListedKeeps == ASSUME IInv, Listed PROVE IInv'
<1> USE DEF IInv, TypeOK, LoopInv, CleanInv, Applying, Removing, Applied, Kept
<1>1. CASE faults' = faults
  <2>1. /\ tracked' = tracked \cup pending
        /\ pc' = "remove" /\ todo' = tracked' \ plan
    BY <1>1, FaultCounts DEF Listed, Fault
  <2> QED BY <1>1, <2>1 DEF Listed, kernel
<1>2. CASE faults' # faults
  <2>1. Fault BY <1>2 DEF Listed
  <2>2. faults' # 0 /\ faults' \in 0 .. MaxFaults BY <2>1, FaultCounts
  <2> QED BY <1>2, <2>2 DEF Listed, kernel
<1> QED BY <1>1, <1>2

LEMMA DropKeeps ==
    ASSUME IInv, DropDnat \/ DropSnat \/ DropMasq \/ ReleaseLocal
    PROVE  IInv'
<1> USE DEF IInv, TypeOK, LoopInv, CleanInv, Applying, Removing, Kept
<1>0. ASSUME NEW S, NEW e, NEW T, Dropped(S, e, T)
      PROVE  \/ T = S \ {e} /\ faults' = faults
             \/ T = S /\ faults' # 0 /\ faults' \in 0 .. MaxFaults
  BY <1>0, FaultCounts DEF Dropped
<1>1. CASE DropDnat
  <2>1. PICK m \in todo : /\ cur' = m
                          /\ todo' = todo \ {m}
                          /\ Dropped(dnat, m, dnat')
    BY <1>1 DEF DropDnat
  <2>2. CASE dnat' = dnat \ {m} /\ faults' = faults
    BY <1>1, <2>1, <2>2 DEF DropDnat
  <2>3. CASE dnat' = dnat /\ faults' # 0 /\ faults' \in 0 .. MaxFaults
    BY <1>1, <2>1, <2>3 DEF DropDnat
  <2> QED BY <1>0, <2>1, <2>2, <2>3
<1>2. CASE DropSnat
  <2>1. CASE snat' = snat \ {cur} /\ faults' = faults
    BY <1>2, <2>1 DEF DropSnat
  <2>2. CASE snat' = snat /\ faults' # 0 /\ faults' \in 0 .. MaxFaults
    BY <1>2, <2>2 DEF DropSnat
  <2> QED BY <1>0, <1>2, <2>1, <2>2 DEF DropSnat
<1>3. CASE DropMasq
  <2>1. \/ masq' = masq \ {Lan(cur)} /\ faults' = faults
        \/ masq' = masq /\ faults' # 0 /\ faults' \in 0 .. MaxFaults
    BY <1>0, <1>3 DEF DropMasq
  <2> QED BY <1>3, <2>1 DEF DropMasq
<1>4. CASE ReleaseLocal
  <2>1. \/ local' = local \ {Slot(cur)} /\ faults' = faults
        \/ local' = local /\ faults' # 0 /\ faults' \in 0 .. MaxFaults
    BY <1>0, <1>4 DEF ReleaseLocal
  <2> QED BY <1>4, <2>1 DEF ReleaseLocal
<1> QED BY <1>1, <1>2, <1>3, <1>4

LEMMA FinishKeeps == ASSUME IInv, Finish PROVE IInv'
<1> USE DEF IInv, TypeOK, LoopInv, CleanInv, Applying, Removing, Kept
<1>1. CASE tracked' = tracked \ pending /\ faults' = faults
  BY <1>1 DEF Finish, kernel
<1>2. CASE Fault
  <2>1. faults' # 0 /\ faults' \in 0 .. MaxFaults BY <1>2, FaultCounts
  <2>2. tracked' \subseteq tracked BY DEF Finish
  <2> QED BY <2>1, <2>2 DEF Finish, kernel
<1> QED BY <1>1, <1>2 DEF Finish

LEMMA WorldKeeps == ASSUME IInv, EditRoster \/ Restart \/ Reboot PROVE IInv'
<1> USE DEF IInv, TypeOK, LoopInv, CleanInv, Applying, Removing, Applied, Kept
<1>1. CASE EditRoster BY <1>1, BoundsAssumption DEF EditRoster, pass, kernel
<1>2. CASE Restart
  <2>1. faults' # 0 /\ faults' \in 0 .. MaxFaults BY <1>2, FaultCounts DEF Restart
  <2> QED BY <1>2, <2>1 DEF Restart, Stopped, kernel
<1>3. CASE Reboot
  <2>1. faults' # 0 /\ faults' \in 0 .. MaxFaults BY <1>3, FaultCounts DEF Reboot
  <2> QED BY <1>3, <2>1 DEF Reboot, Stopped
<1> QED BY <1>1, <1>2, <1>3

\* Every reachable state satisfies the invariant above.
THEOREM NetmapInvariant == Spec => []IInv
<1>1. Init => IInv
  BY BoundsAssumption
  DEF Init, IInv, TypeOK, LoopInv, CleanInv, Applying, Removing, Rosters, Functional
<1>2. IInv /\ [Next]_vars => IInv'
  <2> SUFFICES ASSUME IInv, [Next]_vars PROVE IInv' OBVIOUS
  <2>1. CASE UNCHANGED vars
    BY <2>1 DEF vars, pass, kernel, IInv, TypeOK, LoopInv, CleanInv, Applied, Kept
  <2>2. CASE Next
    BY <2>2, StartKeeps, ApplyKeeps, RefusedKeeps, ListedKeeps, DropKeeps,
       FinishKeeps, WorldKeeps DEF Next, PassStep
  <2> QED BY <2>1, <2>2
<1> QED BY <1>1, <1>2, PTL DEF Spec

\* Every variable keeps its type, for any slots, LANs, edits and faults.
THEOREM TypesKept == Spec => []TypeOK
BY NetmapInvariant, PTL DEF IInv

\* Without faults, each pass of applyPlan ends with the rewrites of its plan in
\* both chains, no others, and the same set on record in Redis.
THEOREM PassIsExact == Spec => []AtRestExact
<1>1. IInv => AtRestExact BY DEF IInv, CleanInv, AtRestExact
<1> QED BY <1>1, NetmapInvariant, PTL

(***************************************************************************)
(* The order of the rules in POSTROUTING                                   *)
(***************************************************************************)

\* Only a rule that is there is behind a masquerade that is there; and, as long
\* as nothing failed, a LAN with a masquerade has a rewrite in front of it, but
\* for the one LAN that a removal is at.
OrderInv ==
    /\ behind \subseteq snat
    /\ \A m \in behind : Lan(m) \in masq
    /\ faults = 0 => \A lan \in masq :
          (pc = "unmasq" /\ lan = Lan(cur)) \/ \E m \in snat \ behind : Lan(m) = lan

LEMMA OrderKept == ASSUME IInv, OrderInv, Next PROVE OrderInv'
<1>1. CASE EnsureSnat BY <1>1 DEF EnsureSnat, OrderInv
<1>2. CASE EnsureMasq
  <2>1. cur \in snat \/ faults # 0
    BY <1>2 DEF EnsureMasq, IInv, TypeOK, CleanInv, Applying
  <2> QED BY <1>2, <2>1 DEF EnsureMasq, OrderInv
<1>3. CASE DropSnat
  <2>1. CASE snat' = snat \ {cur} /\ faults' = faults
    BY <1>3, <2>1 DEF DropSnat, OrderInv
  <2>2. CASE snat' = snat /\ faults' # 0
    BY <1>3, <2>2 DEF DropSnat, OrderInv
  <2> QED BY <1>3, <2>1, <2>2, FaultCounts DEF DropSnat, Dropped, IInv
<1>4. CASE DropMasq
  <2>1. CASE masq' = masq \ {Lan(cur)} /\ faults' = faults
    BY <1>4, <2>1 DEF DropMasq, OrderInv
  <2>2. CASE masq' = masq /\ faults' # 0
    BY <1>4, <2>2 DEF DropMasq, OrderInv
  <2> QED BY <1>4, <2>1, <2>2, FaultCounts DEF DropMasq, Dropped, IInv
<1>5. CASE Reboot BY <1>5, FaultCounts DEF Reboot, OrderInv, IInv
<1>6. CASE /\ UNCHANGED <<snat, masq, behind>>
           /\ pc # "unmasq" /\ (faults' = faults \/ faults' # 0)
  BY <1>6 DEF OrderInv
<1>7. CASE EditRoster BY <1>7 DEF EditRoster, pass, kernel, OrderInv
<1>8. CASE Restart BY <1>8, FaultCounts DEF Restart, kernel, OrderInv, IInv
<1>9. CASE StartPass \/ EnsureDnat
  BY <1>6, <1>9 DEF StartPass, EnsureDnat, kernel
<1>10. CASE ClaimLocal \/ RuleRefused
  BY <1>6, <1>10, FaultCounts DEF ClaimLocal, RuleRefused, kernel, IInv
<1>11. CASE Listed \/ Finish
  BY <1>6, <1>11, FaultCounts DEF Listed, Finish, kernel, IInv
<1>12. CASE DropDnat \/ ReleaseLocal
  BY <1>6, <1>12, FaultCounts DEF DropDnat, ReleaseLocal, Dropped, IInv
<1> QED
  BY <1>1, <1>2, <1>3, <1>4, <1>5, <1>7, <1>8, <1>9, <1>10, <1>11, <1>12
  DEF Next, PassStep

\* Without faults, no order in which LANs come, go and change their slots puts a
\* LAN's masquerade before its rewrite.
THEOREM RewritesComeFirst == Spec => []ShadowBeforeMasquerade
<1>1. Init => OrderInv BY DEF Init, OrderInv
<1>2. IInv /\ OrderInv /\ [Next]_vars => OrderInv'
  <2>1. ASSUME OrderInv, UNCHANGED vars PROVE OrderInv'
    BY <2>1 DEF OrderInv, vars, pass, kernel
  <2> QED BY <2>1, OrderKept
<1>3. OrderInv => ShadowBeforeMasquerade BY DEF OrderInv, ShadowBeforeMasquerade
<1> QED BY <1>1, <1>2, <1>3, NetmapInvariant, PTL DEF Spec

(***************************************************************************)
(* The refinement                                                          *)
(***************************************************************************)

LEMMA DnatStep ==
    ASSUME IInv, IInv', [Next]_vars
    PROVE  [DnatTable!Next]_<<plan, dnat>>
<1> USE DEF DnatTable!Next, DnatTable!Replan, DnatTable!Add, DnatTable!Remove,
            DnatTable!Reboot
<1>1. CASE StartPass
  BY <1>1 DEF StartPass, kernel, IInv, TypeOK, Rosters
<1>2. CASE EnsureDnat
  BY <1>2 DEF EnsureDnat, IInv, LoopInv
<1>3. CASE DropDnat
  <2>1. PICK m \in todo : Dropped(dnat, m, dnat')
    BY <1>3 DEF DropDnat
  <2>2. m \notin plan /\ plan' = plan
    BY <1>3 DEF DropDnat, IInv, LoopInv
  <2> QED BY <2>1, <2>2 DEF Dropped
<1>4. CASE Reboot BY <1>4 DEF Reboot
<1>5. CASE UNCHANGED <<plan, dnat>> BY <1>5
<1> QED
  BY <1>1, <1>2, <1>3, <1>4, <1>5
  DEF Next, PassStep, EnsureSnat, ClaimLocal, EnsureMasq, RuleRefused, Listed,
      DropSnat, DropMasq, ReleaseLocal, Finish, EditRoster, Restart, vars, pass, kernel

LEMMA SnatStep ==
    ASSUME IInv, IInv', [Next]_vars
    PROVE  [SnatTable!Next]_<<plan, snat>>
<1> USE DEF SnatTable!Next, SnatTable!Replan, SnatTable!Add, SnatTable!Remove,
            SnatTable!Reboot
<1>1. CASE StartPass
  BY <1>1 DEF StartPass, kernel, IInv, TypeOK, Rosters
<1>2. CASE EnsureSnat
  BY <1>2 DEF EnsureSnat, IInv, LoopInv, Applying
<1>3. CASE DropSnat
  <2>1. Dropped(snat, cur, snat') /\ cur \notin plan /\ plan' = plan
    BY <1>3 DEF DropSnat, IInv, LoopInv, Removing
  <2> QED BY <2>1 DEF Dropped
<1>4. CASE Reboot BY <1>4 DEF Reboot
<1>5. CASE UNCHANGED <<plan, snat>> BY <1>5
<1> QED
  BY <1>1, <1>2, <1>3, <1>4, <1>5
  DEF Next, PassStep, EnsureDnat, ClaimLocal, EnsureMasq, RuleRefused, Listed,
      DropDnat, DropMasq, ReleaseLocal, Finish, EditRoster, Restart, vars, pass, kernel

\* Whatever fails, restarts or is edited, both NAT chains only gain rewrites that
\* are planned and only lose rewrites that are not: Netmap implements RuleTable.
THEOREM ChainsImplementRuleTable == Spec => RewritesFollowPlan
<1>1. Init => DnatTable!Init /\ SnatTable!Init
  BY DEF Init, DnatTable!Init, SnatTable!Init
<1>2. IInv /\ IInv' /\ [Next]_vars =>
        [DnatTable!Next]_<<plan, dnat>> /\ [SnatTable!Next]_<<plan, snat>>
  BY DnatStep, SnatStep
<1> QED
  BY <1>1, <1>2, NetmapInvariant, PTL
  DEF Spec, RewritesFollowPlan, DnatTable!Spec, SnatTable!Spec

=============================================================================
