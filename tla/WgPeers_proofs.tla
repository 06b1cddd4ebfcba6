--------------------------- MODULE WgPeers_proofs ---------------------------
(***************************************************************************)
(* For any keys and addresses, any edits and any faults: what a pass does  *)
(* to tunnels that are planned, and what it leaves when its commands work. *)
(***************************************************************************)
EXTENDS WgPeers, TLAPS

\* An address is sent to a peer of the interface.
OwnerInv == \A a \in Addresses : owner[a] # Nobody => owner[a] \in peers

\* The first loop runs over planned keys, the second over others.
LoopInv ==
    /\ pc \in {"set", "route"} => todo \subseteq Wanted(plan)
    /\ pc = "route" => cur \notin todo
    /\ pc \in {"show", "remove", "unroute"} => todo \cap Wanted(plan) = {}
    /\ pc \in {"remove", "unroute"} => cur \notin Wanted(plan)

\* A peer is as planned.
Exact(k) == k \in peers /\ \A a \in Addresses : owner[a] = k <=> a \in plan[k]

Reached == IF pc \in {"set", "route"} THEN Wanted(plan) \ todo ELSE Wanted(plan)

\* A pass without a failure has set the peers it has reached and added their
\* routes, has only the peers before it still to remove, and drops no route that
\* anybody uses.
CleanInv ==
    clean =>
        /\ \A k \in Reached : Exact(k)
        /\ \A k \in Reached : \A a \in plan[k] :
              a \in routes \/ (pc = "route" /\ k = cur /\ a \in routing)
        /\ pc = "idle" => peers \subseteq Wanted(plan)
        /\ pc \in {"show", "unroute"} => peers \subseteq Wanted(plan) \cup todo
        /\ pc = "remove" => /\ peers \subseteq Wanted(plan) \cup todo \cup {cur}
                            /\ \A a \in routing : owner[a] = cur
        /\ pc = "unroute" => \A a \in routing : owner[a] = Nobody

IInv == TypeOK /\ OwnerInv /\ LoopInv /\ CleanInv

\* No two keys of a roster have an address in common.
LEMMA RostersDisjoint ==
    ASSUME NEW r \in Rosters, NEW k \in Keys, NEW l \in Keys, NEW a \in Addresses,
           a \in r[k], a \in r[l]
    PROVE  k = l
BY DEF Rosters

\* A step after a failure has only types, owners and loops to keep.
LEMMA FaultTyped ==
    ASSUME TypeOK, Fault
    PROVE  faults' \in 0 .. MaxFaults /\ clean' = FALSE
BY BoundsAssumption DEF TypeOK, Fault

LEMMA StartPassKeeps == ASSUME IInv, StartPass PROVE IInv'
<1> USE DEF IInv, TypeOK, StartPass, kernel
<1>1. CASE pc' = "set" /\ todo' = Wanted(roster) /\ clean' = TRUE /\ UNCHANGED faults
  <2>1. TypeOK' BY <1>1 DEF Wanted
  <2>2. OwnerInv' /\ LoopInv' BY <1>1 DEF OwnerInv, LoopInv
  <2>3. Reached' = {} BY <1>1 DEF Reached
  <2>4. CleanInv' BY <1>1, <2>3 DEF CleanInv
  <2> QED BY <2>1, <2>2, <2>4
<1>2. CASE Fault /\ UNCHANGED <<pc, todo>>
  <2>1. TypeOK' BY <1>2, FaultTyped
  <2> QED BY <1>2, <2>1, FaultTyped DEF OwnerInv, LoopInv, CleanInv
<1> QED BY <1>1, <1>2

LEMMA SetPeerKeeps == ASSUME IInv, SetPeer PROVE IInv'
<1>1. PICK k \in todo :
          /\ todo' = todo \ {k}
          /\ \/ /\ cur' = k /\ routing' = plan[k] /\ pc' = "route"
                /\ peers' = peers \cup {k}
                /\ owner' = [a \in Addresses |->
                                IF a \in plan[k] THEN k
                                ELSE IF owner[a] = k THEN Nobody ELSE owner[a]]
                /\ Works
             \/ Fault /\ UNCHANGED <<cur, routing, pc, peers, owner>>
  BY DEF SetPeer
<1>2. pc = "set" /\ UNCHANGED <<roster, plan, routes, changes>> BY DEF SetPeer
<1> USE DEF IInv, TypeOK
<1>3. k \in Keys /\ plan[k] \subseteq Addresses BY DEF Rosters
<1>4. CASE /\ cur' = k /\ routing' = plan[k] /\ pc' = "route"
           /\ peers' = peers \cup {k}
           /\ owner' = [a \in Addresses |->
                           IF a \in plan[k] THEN k
                           ELSE IF owner[a] = k THEN Nobody ELSE owner[a]]
           /\ Works
  <2> USE <1>1, <1>2, <1>3, <1>4 DEF Works, health
  <2>1. TypeOK' OBVIOUS
  <2>2. OwnerInv' BY NobodyAssumption DEF OwnerInv
  <2>3. LoopInv' BY DEF LoopInv
  <2>4. CleanInv'
    <3> SUFFICES ASSUME clean PROVE CleanInv' BY DEF CleanInv
    <3>1. Reached' = Reached \cup {k} BY DEF Reached, LoopInv
    <3>2. ASSUME NEW l \in Reached, l # k PROVE Exact(l)'
      <4>1. l \in Keys /\ Exact(l) BY <3>2 DEF Reached, Wanted, CleanInv
      <4>2. \A a \in Addresses : a \in plan[l] => a \notin plan[k]
        BY <3>2, <4>1, RostersDisjoint
      <4>3. l # Nobody BY <4>1, NobodyAssumption
      <4> QED BY <3>2, <4>1, <4>2, <4>3 DEF Exact
    <3>3. Exact(k)' BY NobodyAssumption DEF Exact
    <3>4. \A l \in Reached' : Exact(l)' BY <3>1, <3>2, <3>3
    <3>5. \A l \in Reached' : \A a \in plan'[l] :
             a \in routes' \/ (pc' = "route" /\ l = cur' /\ a \in routing')
      BY <3>1 DEF CleanInv
    <3> QED BY <3>4, <3>5 DEF CleanInv
  <2> QED BY <2>1, <2>2, <2>3, <2>4
<1>5. CASE Fault /\ UNCHANGED <<cur, routing, pc, peers, owner>>
  <2>1. TypeOK' BY <1>1, <1>2, <1>5, FaultTyped
  <2> QED BY <1>1, <1>2, <1>5, <2>1, FaultTyped DEF OwnerInv, LoopInv, CleanInv
<1> QED BY <1>1, <1>4, <1>5

LEMMA RoutingKeeps == ASSUME IInv, AddRoute \/ Routed PROVE IInv'
<1> USE DEF IInv, TypeOK
<1>1. CASE AddRoute
  <2>1. PICK a \in routing :
            \/ routes' = routes \cup {a} /\ routing' = routing \ {a} /\ Works
            \/ Fault /\ routing' = {} /\ UNCHANGED routes
    BY <1>1 DEF AddRoute
  <2>2. pc = "route" /\ UNCHANGED <<roster, plan, pc, todo, cur, peers, owner, changes>>
    BY <1>1 DEF AddRoute
  <2>3. OwnerInv' /\ LoopInv' BY <2>2 DEF OwnerInv, LoopInv
  <2>4. CASE routes' = routes \cup {a} /\ routing' = routing \ {a} /\ Works
    <3>1. TypeOK' BY <2>2, <2>4 DEF Works, health
    <3>2. CleanInv' BY <2>2, <2>4 DEF CleanInv, Reached, Exact, Works, health
    <3> QED BY <2>3, <3>1, <3>2
  <2>5. CASE Fault /\ routing' = {} /\ UNCHANGED routes
    <3>1. TypeOK' BY <2>2, <2>5, FaultTyped
    <3> QED BY <2>3, <2>5, <3>1, FaultTyped DEF CleanInv
  <2> QED BY <2>1, <2>4, <2>5
<1>2. CASE Routed
  <2> USE <1>2 DEF Routed, kernel, health
  <2>1. TypeOK' /\ OwnerInv' /\ LoopInv' BY DEF OwnerInv, LoopInv
  <2>2. CleanInv' BY DEF CleanInv, Reached, Exact
  <2> QED BY <2>1, <2>2
<1> QED BY <1>1, <1>2

LEMMA ListedKeeps == ASSUME IInv, Listed PROVE IInv'
<1> USE DEF IInv, TypeOK, Listed, kernel
<1>1. OwnerInv' /\ LoopInv' BY DEF OwnerInv, LoopInv
<1>2. CASE todo' = peers \ Wanted(plan) /\ Works
  <2>1. TypeOK' BY <1>2 DEF Works, health
  <2>2. CleanInv' BY <1>2 DEF CleanInv, Reached, Exact, Works, health
  <2> QED BY <1>1, <2>1, <2>2
<1>3. CASE todo' = {} /\ Fault
  <2>1. TypeOK' BY <1>3, FaultTyped
  <2> QED BY <1>1, <1>3, <2>1, FaultTyped DEF CleanInv
<1> QED BY <1>2, <1>3

LEMMA ShowAllowedKeeps == ASSUME IInv, ShowAllowed PROVE IInv'
<1>1. PICK k \in todo :
          /\ todo' = todo \ {k} /\ cur' = k
          /\ \/ routing' = {a \in Addresses : owner[a] = k} /\ Works
             \/ routing' = {} /\ Fault
  BY DEF ShowAllowed
<1> USE <1>1 DEF IInv, TypeOK, ShowAllowed, kernel
<1>2. OwnerInv' /\ LoopInv' BY DEF OwnerInv, LoopInv
<1>3. CASE routing' = {a \in Addresses : owner[a] = k} /\ Works
  <2>1. TypeOK' BY <1>3 DEF Works, health
  <2>2. CleanInv' BY <1>3 DEF CleanInv, Reached, Exact, Works, health
  <2> QED BY <1>2, <2>1, <2>2
<1>4. CASE routing' = {} /\ Fault
  <2>1. TypeOK' BY <1>4, FaultTyped
  <2> QED BY <1>2, <1>4, <2>1, FaultTyped DEF CleanInv
<1> QED BY <1>3, <1>4

LEMMA RemovePeerKeeps == ASSUME IInv, RemovePeer PROVE IInv'
<1> USE DEF IInv, TypeOK, RemovePeer
<1>1. CASE /\ peers' = peers \ {cur}
           /\ owner' = [a \in Addresses |-> IF owner[a] = cur THEN Nobody ELSE owner[a]]
           /\ Works
  <2> USE <1>1 DEF Works, health
  <2>1. TypeOK' OBVIOUS
  <2>2. OwnerInv' BY DEF OwnerInv
  <2>3. LoopInv' BY DEF LoopInv
  <2>4. CleanInv'
    <3> SUFFICES ASSUME clean PROVE CleanInv' BY DEF CleanInv
    <3>1. Reached' = Reached /\ Reached = Wanted(plan) BY DEF Reached
    <3>2. ASSUME NEW k \in Reached PROVE Exact(k)'
      <4>1. k \in Keys /\ k # cur /\ Exact(k)
        BY <3>1, <3>2 DEF Wanted, LoopInv, CleanInv
      <4> QED BY <4>1, NobodyAssumption DEF Exact
    <3> QED BY <3>1, <3>2 DEF CleanInv
  <2> QED BY <2>1, <2>2, <2>3, <2>4
<1>2. CASE Fault /\ UNCHANGED <<peers, owner>>
  <2>1. TypeOK' BY <1>2, FaultTyped
  <2> QED BY <1>2, <2>1, FaultTyped DEF OwnerInv, LoopInv, CleanInv
<1> QED BY <1>1, <1>2

LEMMA DropRouteKeeps == ASSUME IInv, DropRoute PROVE IInv'
<1>1. PICK a \in routing :
          /\ routing' = routing \ {a}
          /\ \/ routes' = routes \ {a} /\ Works
             \/ Fault /\ UNCHANGED routes
  BY DEF DropRoute
<1> USE <1>1 DEF IInv, TypeOK, DropRoute
<1>2. OwnerInv' /\ LoopInv' BY DEF OwnerInv, LoopInv
<1>3. CASE routes' = routes \ {a} /\ Works
  <2>1. TypeOK' BY <1>3 DEF Works, health
  <2>2. CleanInv'
    <3> SUFFICES ASSUME clean PROVE CleanInv' BY <1>3 DEF CleanInv, Works, health
    <3>1. Reached' = Reached BY DEF Reached
    <3>2. ASSUME NEW k \in Reached PROVE a \notin plan[k]
      <4>1. k \in Keys /\ Exact(k) /\ owner[a] = Nobody BY DEF Reached, Wanted, CleanInv
      <4> QED BY <4>1, NobodyAssumption DEF Exact
    <3>3. \A k \in Reached : \A b \in plan[k] : b \in routes'
      BY <1>3, <3>2 DEF CleanInv
    <3> QED BY <1>3, <3>1, <3>3 DEF CleanInv, Exact
  <2> QED BY <1>2, <2>1, <2>2
<1>4. CASE Fault /\ UNCHANGED routes
  <2>1. TypeOK' BY <1>4, FaultTyped
  <2> QED BY <1>2, <1>4, <2>1, FaultTyped DEF CleanInv
<1> QED BY <1>3, <1>4

LEMMA EndsKeep == ASSUME IInv, Unrouted \/ Finish PROVE IInv'
<1> USE DEF IInv, TypeOK, Unrouted, Finish, kernel, health
<1>1. TypeOK' OBVIOUS
<1>2. OwnerInv' BY DEF OwnerInv
<1>3. LoopInv' BY DEF LoopInv
<1>4. CleanInv' BY DEF CleanInv, Reached, Exact
<1> QED BY <1>1, <1>2, <1>3, <1>4

LEMMA WorldKeeps == ASSUME IInv, EditDirectory \/ Restart \/ Reboot PROVE IInv'
<1> USE DEF IInv, TypeOK
<1>1. CASE EditDirectory
  <2> USE <1>1, BoundsAssumption DEF EditDirectory, pass, kernel, health
  <2>1. TypeOK' OBVIOUS
  <2>2. OwnerInv' /\ LoopInv' BY DEF OwnerInv, LoopInv
  <2>3. CleanInv' BY DEF CleanInv, Reached, Exact
  <2> QED BY <2>1, <2>2, <2>3
<1>2. CASE Restart
  <2> USE <1>2, FaultTyped DEF Restart, Stopped, kernel
  <2>1. TypeOK' OBVIOUS
  <2> QED BY <2>1 DEF OwnerInv, LoopInv, CleanInv
<1>3. CASE Reboot
  <2> USE <1>3, FaultTyped DEF Reboot, Stopped
  <2>1. TypeOK' OBVIOUS
  <2> QED BY <2>1 DEF OwnerInv, LoopInv, CleanInv
<1> QED BY <1>1, <1>2, <1>3

\* The invariant the theorems rest on: the two loops' keys, and what a pass that
\* has not failed has done by each of its commands.
THEOREM PeersInvariant == Spec => []IInv
<1>1. Init => IInv
  <2> SUFFICES ASSUME Init PROVE IInv OBVIOUS
  <2>0. [k \in Keys |-> {}] \in Rosters BY DEF Rosters
  <2>1. TypeOK
    <3>1. clean \in BOOLEAN BY Zenon DEF Init
    <3>2. owner \in [Addresses -> Keys \cup {Nobody}] BY DEF Init
    <3>3. plan \in Rosters BY <2>0, Zenon DEF Init
    <3>4. 0 \in 0 .. MaxChanges /\ 0 \in 0 .. MaxFaults BY BoundsAssumption
    <3> QED BY <3>1, <3>2, <3>3, <3>4 DEF Init, TypeOK
  <2> QED BY <2>1 DEF Init, IInv, OwnerInv, LoopInv, CleanInv
<1>2. IInv /\ [Next]_vars => IInv'
  <2> SUFFICES ASSUME IInv, [Next]_vars PROVE IInv' OBVIOUS
  <2>1. CASE UNCHANGED vars
    <3> USE <2>1 DEF vars, pass, kernel, health
    <3>1. TypeOK' /\ OwnerInv' /\ LoopInv' BY DEF IInv, TypeOK, OwnerInv, LoopInv
    <3>2. CleanInv' BY DEF IInv, CleanInv, Reached, Exact
    <3> QED BY <3>1, <3>2 DEF IInv
  <2>2. CASE Next
    BY <2>2, StartPassKeeps, SetPeerKeeps, RoutingKeeps, ListedKeeps, ShowAllowedKeeps,
       RemovePeerKeeps, DropRouteKeeps, EndsKeep, WorldKeeps
    DEF Next, PassStep
  <2> QED BY <2>1, <2>2
<1> QED BY <1>1, <1>2, PTL DEF Spec

\* Every variable keeps its type.
THEOREM TypesKept == Spec => []TypeOK
BY PeersInvariant, PTL DEF IInv

\* A pass without a failure leaves the planned peers and no others, each with its
\* addresses and their routes, whatever it found when it began.
THEOREM CleanPassesAreExact == Spec => []CleanPassIsExact
<1>1. IInv => CleanPassIsExact
  <2> SUFFICES ASSUME IInv, pc = "idle", clean
               PROVE  /\ peers = Wanted(plan)
                      /\ Allowed = Table(plan)
                      /\ \A a \in Addresses : owner[a] # Nobody => a \in routes
    BY DEF CleanPassIsExact
  <2>1. \A k \in Wanted(plan) : Exact(k) /\ plan[k] \subseteq routes
    BY DEF IInv, CleanInv, Reached
  <2>2. peers = Wanted(plan) BY <2>1 DEF IInv, CleanInv, Exact
  <2>3. ASSUME NEW k \in Keys, NEW a \in Addresses PROVE owner[a] = k <=> a \in plan[k]
    <3>1. CASE k \in Wanted(plan) BY <2>1, <3>1 DEF Exact
    <3>2. CASE k \notin Wanted(plan)
      BY <2>2, <3>2, NobodyAssumption DEF IInv, OwnerInv, Wanted
    <3> QED BY <3>1, <3>2
  <2>4. Allowed = Table(plan) BY <2>3 DEF Allowed, Table, Entries
  <2>5. ASSUME NEW a \in Addresses, owner[a] # Nobody PROVE a \in routes
    <3>1. owner[a] \in Wanted(plan) BY <2>2, <2>5 DEF IInv, OwnerInv
    <3> QED BY <2>1, <3>1 DEF Exact
  <2> QED BY <2>2, <2>4, <2>5
<1> QED BY <1>1, PeersInvariant, PTL

\* The commands that change who an address is sent to.
LEMMA OwnerSteps ==
    ASSUME [Next]_vars
    PROVE  owner' = owner \/ SetPeer \/ RemovePeer \/ pc' = "idle"
BY DEF Next, PassStep, StartPass, AddRoute, Routed, Listed, ShowAllowed, DropRoute, Unrouted,
       Finish, EditDirectory, Restart, Reboot, Stopped, kernel, vars

\* Whatever fails, no command of a pass takes a planned address from its peer or
\* gives a peer one that is not planned.
THEOREM PlannedTunnelsStay == Spec => TunnelsFollowPlan
<1> DEFINE Follows == pc' # "idle" =>
              /\ Allowed \cap Table(plan) \subseteq Allowed'
              /\ Allowed' \subseteq Allowed \cup Table(plan)
<1>1. ASSUME IInv, [Next]_vars PROVE [Follows]_vars
  <2>1. CASE owner' = owner BY <2>1 DEF Allowed
  <2>2. CASE SetPeer
    <3>1. PICK k \in todo :
             \/ UNCHANGED owner
             \/ owner' = [a \in Addresses |->
                             IF a \in plan[k] THEN k
                             ELSE IF owner[a] = k THEN Nobody ELSE owner[a]]
      BY <2>2 DEF SetPeer
    <3>2. k \in Keys BY <1>1 DEF IInv, TypeOK
    <3>3. ASSUME NEW l \in Keys, NEW a \in Addresses
          PROVE  /\ owner[a] = l /\ a \in plan[l] => owner'[a] = l
                 /\ owner'[a] = l => owner[a] = l \/ a \in plan[l]
      <4>1. a \in plan[k] /\ a \in plan[l] => k = l
        BY <1>1, <3>2, RostersDisjoint DEF IInv, TypeOK
      <4> QED BY <3>1, <4>1, NobodyAssumption
    <3> QED BY <3>3 DEF Allowed, Table, Entries
  <2>3. CASE RemovePeer
    <3>1. \/ UNCHANGED owner
          \/ owner' = [a \in Addresses |-> IF owner[a] = cur THEN Nobody ELSE owner[a]]
      BY <2>3 DEF RemovePeer
    <3>2. cur \notin Wanted(plan) BY <1>1, <2>3 DEF RemovePeer, IInv, LoopInv
    <3>3. ASSUME NEW l \in Keys, NEW a \in Addresses
          PROVE  /\ owner[a] = l /\ a \in plan[l] => owner'[a] = l
                 /\ owner'[a] = l => owner[a] = l
      BY <3>1, <3>2, NobodyAssumption DEF Wanted
    <3> QED BY <3>3 DEF Allowed, Table, Entries
  <2> QED BY <1>1, <2>1, <2>2, <2>3, OwnerSteps
<1> QED BY <1>1, PeersInvariant, PTL DEF Spec, TunnelsFollowPlan

\* As long as its commands work, a pass drops only routes to addresses nobody has.
THEOREM RoutesInUseStay == Spec => UsedRoutesStay
<1> DEFINE Stay == clean /\ clean' => \A a \in routes \ routes' : owner[a] = Nobody
<1>1. ASSUME IInv, [Next]_vars PROVE [Stay]_vars
  <2>1. CASE routes \subseteq routes' BY <2>1
  <2>2. CASE DropRoute
    BY <1>1, <2>2 DEF DropRoute, IInv, CleanInv
  <2>3. CASE Fault BY <2>3 DEF Fault
  <2>4. routes \subseteq routes' \/ DropRoute \/ Fault
    BY <1>1 DEF Next, PassStep, StartPass, SetPeer, AddRoute, Routed, Listed, ShowAllowed,
                RemovePeer, Unrouted, Finish, EditDirectory, Restart, Reboot, Stopped, kernel, vars
  <2> QED BY <2>1, <2>2, <2>3, <2>4
<1> QED BY <1>1, PeersInvariant, PTL DEF Spec, UsedRoutesStay

=============================================================================
