------------------------------ MODULE WgPeers ------------------------------
(***************************************************************************)
(* The peers of wg-mesh: applyPlan of services/mesh_state.js over          *)
(* utils/wg_iface.js.                                                      *)
(*                                                                         *)
(* A planned peer is a pair <<key, addresses>>.  WireGuard keeps one table *)
(* of allowed addresses per interface, so an address has one owner and the *)
(* last peer to claim it takes it.  Kernel routes are added beside it, one *)
(* for each address, and nothing remembers for whom.  An action is one     *)
(* command; a command may fail, and the process may be killed between any  *)
(* two.                                                                    *)
(***************************************************************************)
EXTENDS Naturals

CONSTANTS
    Keys,        \* public keys: of sites, of exit clients, of devices
    Addresses,   \* allowed addresses
    Nobody,      \* no peer
    MaxChanges,  \* bound: edits in the directory
    MaxFaults    \* bound: commands that fail, restarts, reboots

ASSUME NobodyAssumption == Nobody \notin Keys
ASSUME BoundsAssumption == MaxChanges \in Nat /\ MaxFaults \in Nat

VARIABLES
    roster,   \* roster[k]: the addresses the directory gives to k; {}: no peer
    plan,     \* the same, as the latest pass fetched it
    pc,       \* the command the pass is about to issue
    todo,     \* keys the running loop has not reached
    cur,      \* the key it is at
    routing,  \* the addresses whose routes it has not reached
    peers,    \* the peers of the interface
    owner,    \* the peer each address is sent to
    routes,   \* kernel routes to addresses through the interface
    clean,    \* whether every command of the latest pass worked
    changes, faults

pass   == <<plan, pc, todo, cur, routing>>
kernel == <<peers, owner, routes>>
health == <<clean, faults>>
vars == <<roster, pass, kernel, health, changes>>

Entries == Keys \X Addresses

\* The directory gives an address to one peer.
Rosters == {r \in [Keys -> SUBSET Addresses] :
               \A k, l \in Keys : k # l => r[k] \cap r[l] = {}}

\* planReconcile skips a peer that has no addresses.
Wanted(r) == {k \in Keys : r[k] # {}}

\* What a roster, or the interface, sends where.
Table(r) == {e \in Entries : e[2] \in r[e[1]]}
Allowed == {e \in Entries : owner[e[2]] = e[1]}

Init ==
    /\ roster \in Rosters
    /\ plan = [k \in Keys |-> {}] /\ pc = "idle" /\ todo = {} /\ routing = {}
    /\ cur \in Keys       \* unused until a loop sets it
    /\ peers = {} /\ owner = [a \in Addresses |-> Nobody] /\ routes = {}
    /\ clean = FALSE
    /\ changes = 0 /\ faults = 0

Works == UNCHANGED health
Fault == faults < MaxFaults /\ faults' = faults + 1 /\ clean' = FALSE

(***************************************************************************)
(* A pass                                                                  *)
(***************************************************************************)

\* Mutant: wg setconf with a configuration of the interface alone.
StartPassSetconf ==
    /\ pc = "idle"
    /\ plan' = roster
    /\ clean' = TRUE
    /\ pc' = "set" /\ todo' = Wanted(roster)
    /\ peers' = {} /\ owner' = [a \in Addresses |-> Nobody]
    /\ UNCHANGED <<roster, cur, routing, routes, faults, changes>>

\* setPrivateKey and setAddresses leave the peers as they are; when one throws
\* the pass is over.
StartPass ==
    /\ pc = "idle"
    /\ plan' = roster
    /\ \/ pc' = "set" /\ todo' = Wanted(roster) /\ clean' = TRUE /\ UNCHANGED faults
       \/ Fault /\ UNCHANGED <<pc, todo>>
    /\ UNCHANGED <<roster, cur, routing, kernel, changes>>

\* Mutant: addresses are added to those the peer has.
SetPeerAdds ==
    /\ pc = "set"
    /\ \E k \in todo :
          /\ todo' = todo \ {k}
          /\ cur' = k /\ routing' = plan[k] /\ pc' = "route"
          /\ peers' = peers \cup {k}
          /\ owner' = [a \in Addresses |-> IF a \in plan[k] THEN k ELSE owner[a]]
    /\ UNCHANGED <<roster, plan, routes, health, changes>>

\* Mutant: a peer that is there is not set again.
SetNewPeer ==
    /\ pc = "set"
    /\ \E k \in todo :
          /\ todo' = todo \ {k}
          /\ cur' = k /\ routing' = plan[k] /\ pc' = "route"
          /\ peers' = peers \cup {k}
          /\ owner' = [a \in Addresses |-> IF k \notin peers /\ a \in plan[k] THEN k ELSE owner[a]]
    /\ UNCHANGED <<roster, plan, routes, health, changes>>

\* wg set <peer> allowed-ips: exactly these, from whoever has them.  A peer that
\* is refused is skipped with its routes.
SetPeer ==
    /\ pc = "set"
    /\ \E k \in todo :
          /\ todo' = todo \ {k}
          /\ \/ /\ cur' = k /\ routing' = plan[k] /\ pc' = "route"
                /\ peers' = peers \cup {k}
                /\ owner' = [a \in Addresses |->
                                IF a \in plan[k] THEN k
                                ELSE IF owner[a] = k THEN Nobody ELSE owner[a]]
                /\ Works
             \/ Fault /\ UNCHANGED <<cur, routing, pc, peers, owner>>
    /\ UNCHANGED <<roster, plan, routes, changes>>

\* ip route add, for which a route that is there already is no error; another
\* error leaves out the routes that are left.
AddRoute ==
    /\ pc = "route"
    /\ \E a \in routing :
          \/ routes' = routes \cup {a} /\ routing' = routing \ {a} /\ Works
          \/ Fault /\ routing' = {} /\ UNCHANGED routes
    /\ UNCHANGED <<roster, plan, pc, todo, cur, peers, owner, changes>>

Routed ==
    /\ pc = "route" /\ routing = {}
    /\ pc' = "set"
    /\ UNCHANGED <<roster, plan, todo, cur, routing, kernel, health, changes>>

\* listPeers, which finds none when wg fails: what is on the interface and not
\* wanted is to be removed.
Listed ==
    /\ pc = "set" /\ todo = {}
    /\ \/ todo' = peers \ Wanted(plan) /\ Works
       \/ todo' = {} /\ Fault
    /\ pc' = "show"
    /\ UNCHANGED <<roster, plan, cur, routing, kernel, changes>>

\* Mutant: every line of wg show is taken for the peer's.
ShowAllowedOfAll ==
    /\ pc = "show"
    /\ \E k \in todo :
          /\ todo' = todo \ {k} /\ cur' = k
          /\ routing' = {a \in Addresses : owner[a] # Nobody}
    /\ pc' = "remove"
    /\ UNCHANGED <<roster, plan, kernel, health, changes>>

\* removePeer: wg show allowed-ips, before the peer is gone ...
ShowAllowed ==
    /\ pc = "show"
    /\ \E k \in todo :
          /\ todo' = todo \ {k} /\ cur' = k
          /\ \/ routing' = {a \in Addresses : owner[a] = k} /\ Works
             \/ routing' = {} /\ Fault
    /\ pc' = "remove"
    /\ UNCHANGED <<roster, plan, kernel, changes>>

\* ... wg set <peer> remove, whose failure goes unnoticed ...
RemovePeer ==
    /\ pc = "remove"
    /\ \/ /\ peers' = peers \ {cur}
          /\ owner' = [a \in Addresses |-> IF owner[a] = cur THEN Nobody ELSE owner[a]]
          /\ Works
       \/ Fault /\ UNCHANGED <<peers, owner>>
    /\ pc' = "unroute"
    /\ UNCHANGED <<roster, plan, todo, cur, routing, routes, changes>>

\* ... and ip route del of each address it had.
DropRoute ==
    /\ pc = "unroute"
    /\ \E a \in routing :
          /\ routing' = routing \ {a}
          /\ \/ routes' = routes \ {a} /\ Works
             \/ Fault /\ UNCHANGED routes
    /\ UNCHANGED <<roster, plan, pc, todo, cur, peers, owner, changes>>

Unrouted ==
    /\ pc = "unroute" /\ routing = {}
    /\ pc' = "show"
    /\ UNCHANGED <<roster, plan, todo, cur, routing, kernel, health, changes>>

Finish ==
    /\ pc = "show" /\ todo = {}
    /\ pc' = "idle"
    /\ UNCHANGED <<roster, plan, todo, cur, routing, kernel, health, changes>>

(***************************************************************************)
(* The world                                                               *)
(***************************************************************************)

\* A device is added, revoked, re-keyed or moved; a site comes, goes, changes.
EditDirectory ==
    /\ changes < MaxChanges
    /\ changes' = changes + 1
    /\ roster' \in Rosters \ {roster}
    /\ UNCHANGED <<pass, kernel, health>>

Stopped == Fault /\ pc' = "idle" /\ todo' = {} /\ routing' = {}

\* The process is killed and comes back: the interface is as it was left.
Restart == Stopped /\ UNCHANGED <<roster, plan, cur, kernel, changes>>

Reboot ==
    /\ Stopped
    /\ peers' = {} /\ owner' = [a \in Addresses |-> Nobody] /\ routes' = {}
    /\ UNCHANGED <<roster, plan, cur, changes>>

PassStep ==
    \/ StartPass \/ SetPeer \/ AddRoute \/ Routed \/ Listed
    \/ ShowAllowed \/ RemovePeer \/ DropRoute \/ Unrouted \/ Finish

Next == PassStep \/ EditDirectory \/ Restart \/ Reboot

Spec == Init /\ [][Next]_vars

\* The timer keeps firing and a pass that was started goes on.
FairSpec == Spec /\ WF_vars(PassStep)

(***************************************************************************)
(* Properties                                                              *)
(***************************************************************************)

TypeOK ==
    /\ roster \in Rosters /\ plan \in Rosters
    /\ pc \in {"idle", "set", "route", "show", "remove", "unroute"}
    /\ todo \subseteq Keys /\ cur \in Keys /\ routing \subseteq Addresses
    /\ peers \subseteq Keys /\ routes \subseteq Addresses
    /\ owner \in [Addresses -> Keys \cup {Nobody}]
    /\ clean \in BOOLEAN
    /\ changes \in 0 .. MaxChanges /\ faults \in 0 .. MaxFaults

\* A pass whose commands all worked leaves exactly the planned peers, each with
\* exactly its addresses and a route to every one of them, whatever failed or
\* was killed before it: devices that swap addresses or keys included.
CleanPassIsExact ==
    pc = "idle" /\ clean =>
        /\ peers = Wanted(plan)
        /\ Allowed = Table(plan)
        /\ \A a \in Addresses : owner[a] # Nobody => a \in routes

\* Whatever fails, a planned peer never loses an address that is planned for it
\* (a pass does not interrupt a tunnel), and no peer is given one that is not.
\* Only a reboot, at which a pass ends, does otherwise.
TunnelsFollowPlan ==
    [][pc' # "idle" =>
          /\ Allowed \cap Table(plan) \subseteq Allowed'
          /\ Allowed' \subseteq Allowed \cup Table(plan)]_vars

\* As long as commands work, a route is only taken away when no peer has its
\* address: not when a new key has taken the address over from an old one.
UsedRoutesStay ==
    [][clean /\ clean' => \A a \in routes \ routes' : owner[a] = Nobody]_vars

\* Once the directory stays and the faults are over, the interface sends every
\* address of the directory, and no other, to its peer, and the kernel sends
\* them to the interface, for good.
EventuallyReachable ==
    <>[](/\ peers = Wanted(roster) /\ Allowed = Table(roster)
         /\ \A e \in Table(roster) : e[2] \in routes)

=============================================================================
