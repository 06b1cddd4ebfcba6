------------------------------- MODULE Netmap -------------------------------
(***************************************************************************)
(* The NETMAP half of services/mesh_state.js's applyPlan over              *)
(* utils/net_router.js: mapping this site's physical LANs into shadow      *)
(* ranges, and remembering in Redis what was mapped so that it can be      *)
(* taken back.                                                             *)
(*                                                                         *)
(* A mapping is a pair <<slot, LAN>>: planReconcile turns a slot of the    *)
(* roster into one.  The loops that apply and remove mappings never await, *)
(* so the process cannot do anything else between two commands; but a      *)
(* command may fail, the process may be killed, and the Redis commands the *)
(* loop started are only sent when the loop is over.  An action is one     *)
(* command.                                                                *)
(*                                                                         *)
(* The programs it runs are taken to be installed: on a machine without    *)
(* iptables (haveIptables) every rule is skipped and counts as applied.    *)
(***************************************************************************)
EXTENDS Naturals

CONSTANTS
    Slots,       \* SHADOW_SLOTS, in the order of the roster
    Lans,        \* physical LANs
    MaxChanges,  \* bound: edits of the roster
    MaxFaults    \* bound: refused commands, restarts, reboots

ASSUME SlotsAssumption == Slots \subseteq Nat
ASSUME BoundsAssumption == MaxChanges \in Nat /\ MaxFaults \in Nat

VARIABLES
    roster,   \* the mappings of this site, as the directory has them
    plan,     \* plan.netmaps of the latest pass
    pc,       \* the command the pass is about to issue
    todo,     \* mappings the running loop has not reached
    cur,      \* the mapping it is at
    pending,  \* mappings whose sAdd or sRem waits for the loop to end
    tracked,  \* the applied_netmaps set in Redis
    dnat,     \* PREROUTING -i wg -d shadow -j NETMAP --to LAN
    snat,     \* POSTROUTING -o wg -s LAN -j NETMAP --to shadow
    masq,     \* POSTROUTING -s LAN -o wg -j MASQUERADE, by LAN
    behind,   \* mappings whose snat rule comes after the masq rule of their LAN
    local,    \* ip route local shadow dev lo, by slot
    changes, faults

pass   == <<plan, pc, todo, cur, pending>>
kernel == <<dnat, snat, masq, behind, local>>
vars == <<roster, pass, tracked, kernel, changes, faults>>

Mappings == Slots \X Lans

Functional(r) == \A m, n \in r : m[1] = n[1] => m = n

\* A site has at most one LAN in a slot (lan168, lan172).
Rosters == {r \in SUBSET Mappings : Functional(r)}

Slot(m) == m[1]
Lan(m) == m[2]

Init ==
    /\ roster \in Rosters
    /\ plan = {} /\ pc = "idle" /\ todo = {} /\ pending = {}
    /\ cur \in Mappings      \* unused until a loop sets it
    /\ tracked = {}
    /\ dnat = {} /\ snat = {} /\ masq = {} /\ behind = {} /\ local = {}
    /\ changes = 0 /\ faults = 0

Fault == faults < MaxFaults /\ faults' = faults + 1

(***************************************************************************)
(* A pass                                                                  *)
(***************************************************************************)

\* The timer fires: fetch the roster and plan.
StartPass ==
    /\ pc = "idle"
    /\ plan' = roster
    /\ todo' = roster
    /\ pc' = "apply"
    /\ UNCHANGED <<roster, cur, pending, tracked, kernel, changes, faults>>

\* applyNetmap of the next mapping, in the order of SHADOW_SLOTS.
EnsureDnat ==
    /\ pc = "apply"
    /\ \E m \in todo :
          /\ \A n \in todo : Slot(m) <= Slot(n)
          /\ cur' = m
          /\ todo' = todo \ {m}
          /\ dnat' = dnat \cup {m}
    /\ pc' = "snat"
    /\ UNCHANGED <<roster, plan, pending, tracked, snat, masq, behind, local, changes, faults>>

\* A rule that is not there yet goes to the end of the chain.
EnsureSnat ==
    /\ pc = "snat"
    /\ snat' = snat \cup {cur}
    /\ behind' = IF cur \notin snat /\ Lan(cur) \in masq THEN behind \cup {cur} ELSE behind
    /\ pc' = "local"
    /\ UNCHANGED <<roster, plan, todo, cur, pending, tracked, dnat, masq, local, changes, faults>>

\* Mutant: a mapping on record is taken to have its route.
ClaimLocalUnlessTracked ==
    /\ pc = "local"
    /\ local' = IF cur \in tracked THEN local ELSE local \cup {Slot(cur)}
    /\ pc' = "masq"
    /\ UNCHANGED <<roster, plan, todo, cur, pending, tracked, dnat, snat, masq, behind, changes, faults>>

\* ip route add local: a failure is only warned about.
ClaimLocal ==
    /\ pc = "local"
    /\ \/ local' = local \cup {Slot(cur)} /\ UNCHANGED faults
       \/ Fault /\ UNCHANGED local
    /\ pc' = "masq"
    /\ UNCHANGED <<roster, plan, todo, cur, pending, tracked, dnat, snat, masq, behind, changes>>

\* Mutant: the mapping is never recorded.
EnsureMasqUnrecorded ==
    /\ pc = "masq"
    /\ masq' = masq \cup {Lan(cur)}
    /\ pc' = "apply"
    /\ UNCHANGED <<roster, plan, todo, cur, pending, tracked, dnat, snat, behind, local, changes, faults>>

\* The last rule; recordAppliedNetmap is started and not awaited.
EnsureMasq ==
    /\ pc = "masq"
    /\ masq' = masq \cup {Lan(cur)}
    /\ pending' = pending \cup {cur}
    /\ pc' = "apply"
    /\ UNCHANGED <<roster, plan, todo, cur, tracked, dnat, snat, behind, local, changes, faults>>

\* ensureRule throws: the rest of this mapping is skipped, its record included.
RuleRefused ==
    /\ Fault
    /\ \/ pc \in {"snat", "masq"} /\ UNCHANGED todo
       \/ /\ pc = "apply"
          /\ \E m \in todo : /\ \A n \in todo : Slot(m) <= Slot(n)
                             /\ todo' = todo \ {m}
    /\ pc' = "apply"
    /\ UNCHANGED <<roster, plan, cur, pending, tracked, kernel, changes>>

\* Mutant: every recorded mapping is removed, to be applied by the next pass.
ListedAll ==
    /\ pc = "apply" /\ todo = {}
    /\ tracked' = tracked \cup pending
    /\ todo' = tracked'
    /\ pending' = {}
    /\ pc' = "remove"
    /\ UNCHANGED <<roster, plan, cur, kernel, changes, faults>>

\* The sAdds reach Redis, each on its own, and then sMembers, whose failure
\* ends the pass.  What is recorded and not wanted is to be removed.
Listed ==
    /\ pc = "apply" /\ todo = {}
    /\ \/ tracked' = tracked \cup pending /\ UNCHANGED faults
       \/ Fault /\ \E sent \in SUBSET pending : tracked' = tracked \cup sent
    /\ \/ pc' = "remove" /\ todo' = tracked' \ plan
       \/ pc' = "idle" /\ todo' = {} /\ faults' # faults
    /\ pending' = {}
    /\ UNCHANGED <<roster, plan, cur, kernel, changes>>

(***************************************************************************)
(* Removing: removeNetmap reports no failure                               *)
(***************************************************************************)

\* The set without e; or, by a fault nobody notices, as it was.
Dropped(set, e, new) ==
    \/ new = set \ {e} /\ UNCHANGED faults
    \/ Fault /\ new = set

DropDnat ==
    /\ pc = "remove"
    /\ \E m \in todo :
          /\ cur' = m
          /\ todo' = todo \ {m}
          /\ Dropped(dnat, m, dnat')
    /\ pc' = "unsnat"
    /\ UNCHANGED <<roster, plan, pending, tracked, snat, masq, behind, local, changes>>

DropSnat ==
    /\ pc = "unsnat"
    /\ Dropped(snat, cur, snat')
    /\ behind' = behind \cap snat'
    /\ pc' = "unmasq"
    /\ UNCHANGED <<roster, plan, todo, cur, pending, tracked, dnat, masq, local, changes>>

\* Mutant: the masquerade of a LAN that is still planned is left alone.
DropMasqUnlessPlanned ==
    /\ pc = "unmasq"
    /\ IF \E m \in plan : Lan(m) = Lan(cur)
       THEN UNCHANGED <<masq, faults>>
       ELSE Dropped(masq, Lan(cur), masq')
    /\ behind' = {m \in behind : Lan(m) \in masq'}
    /\ pc' = "unlocal"
    /\ UNCHANGED <<roster, plan, todo, cur, pending, tracked, dnat, snat, local, changes>>

\* Whoever else maps the LAN.
DropMasq ==
    /\ pc = "unmasq"
    /\ Dropped(masq, Lan(cur), masq')
    /\ behind' = {m \in behind : Lan(m) \in masq'}
    /\ pc' = "unlocal"
    /\ UNCHANGED <<roster, plan, todo, cur, pending, tracked, dnat, snat, local, changes>>

\* ip route del local, whoever else maps into the slot; then
\* removeAppliedNetmap, started and not awaited.
ReleaseLocal ==
    /\ pc = "unlocal"
    /\ Dropped(local, Slot(cur), local')
    /\ pending' = pending \cup {cur}
    /\ pc' = "remove"
    /\ UNCHANGED <<roster, plan, todo, cur, tracked, dnat, snat, masq, behind, changes>>

\* The loop is over: the sRems reach Redis, each on its own.
Finish ==
    /\ pc = "remove" /\ todo = {}
    /\ \/ tracked' = tracked \ pending /\ UNCHANGED faults
       \/ Fault /\ \E sent \in SUBSET pending : tracked' = tracked \ sent
    /\ pending' = {}
    /\ pc' = "idle"
    /\ UNCHANGED <<roster, plan, todo, cur, kernel, changes>>

(***************************************************************************)
(* The world                                                               *)
(***************************************************************************)

\* An admin edits the site in the directory.
EditRoster ==
    /\ changes < MaxChanges
    /\ changes' = changes + 1
    /\ roster' \in Rosters \ {roster}
    /\ UNCHANGED <<pass, tracked, kernel, faults>>

Stopped == pc' = "idle" /\ todo' = {} /\ pending' = {}

\* The process is killed and comes back: Redis and the kernel keep what they
\* have.
Restart ==
    /\ Fault /\ Stopped
    /\ UNCHANGED <<roster, plan, cur, tracked, kernel, changes>>

\* The machine reboots: Redis keeps what it has, the kernel nothing.
Reboot ==
    /\ Fault /\ Stopped
    /\ dnat' = {} /\ snat' = {} /\ masq' = {} /\ behind' = {} /\ local' = {}
    /\ UNCHANGED <<roster, plan, cur, tracked, changes>>

PassStep ==
    \/ StartPass \/ EnsureDnat \/ EnsureSnat \/ ClaimLocal \/ EnsureMasq
    \/ RuleRefused \/ Listed
    \/ DropDnat \/ DropSnat \/ DropMasq \/ ReleaseLocal \/ Finish

Next == PassStep \/ EditRoster \/ Restart \/ Reboot

Spec == Init /\ [][Next]_vars

\* The timer keeps firing and a pass that was started goes on.
FairSpec == Spec /\ WF_vars(PassStep)

(***************************************************************************)
(* Properties                                                              *)
(***************************************************************************)

TypeOK ==
    /\ roster \in Rosters /\ plan \in Rosters
    /\ pc \in {"idle", "apply", "snat", "local", "masq", "remove", "unsnat",
               "unmasq", "unlocal"}
    /\ todo \subseteq Mappings /\ pending \subseteq Mappings /\ cur \in Mappings
    /\ tracked \subseteq Mappings
    /\ dnat \subseteq Mappings /\ snat \subseteq Mappings
    /\ masq \subseteq Lans /\ local \subseteq Slots /\ behind \subseteq Mappings
    /\ changes \in 0 .. MaxChanges /\ faults \in 0 .. MaxFaults

\* As long as nothing has failed, each pass leaves exactly the rewrites of its
\* plan, in both directions, and a record of each -- so that whatever the
\* roster becomes, the next pass knows what to take back.
AtRestExact ==
    faults = 0 /\ pc = "idle" => dnat = plan /\ snat = plan /\ tracked = plan

\* "A LAN host answering (or initiating) appears as its shadow": a masquerade in
\* POSTROUTING is always preceded by a rewrite of its LAN, whichever slots LANs
\* have moved between, and also while a pass is running; but for the instant in
\* which a removal has taken the one and not yet the other.
ShadowBeforeMasquerade ==
    faults = 0 /\ pc # "unmasq" =>
        \A lan \in masq : \E m \in snat \ behind : Lan(m) = lan

\* Whatever fails, a mapping that stays in the plan keeps its two rewrites
\* through every pass, and no rewrite is ever installed that was not planned.
\* (applyPlan adds first and then removes only what the plan does not name.)
DnatTable == INSTANCE RuleTable WITH Entries <- Mappings, table <- dnat
SnatTable == INSTANCE RuleTable WITH Entries <- Mappings, table <- snat

RewritesFollowPlan == DnatTable!Spec /\ SnatTable!Spec

Mapped ==
    /\ roster \subseteq dnat /\ roster \subseteq snat
    /\ {Slot(m) : m \in roster} \subseteq local
    /\ {Lan(m) : m \in roster} \subseteq masq

\* Once the roster stays and the faults are over, every LAN of the roster is
\* mapped for good: its two rewrites, its local route and its masquerade.
EventuallyMapped == <>[]Mapped

=============================================================================
