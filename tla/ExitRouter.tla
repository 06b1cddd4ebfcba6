----------------------------- MODULE ExitRouter -----------------------------
(***************************************************************************)
(* services/exit_router.js: sending a chosen device's internet traffic out *)
(* of a chosen site, by one WireGuard interface and one routing table per  *)
(* exit and one policy rule per device.                                    *)
(*                                                                         *)
(* A rule is a pair <<device, site>>: from the device's address, lookup    *)
(* the site's table.  The kernel goes on to the main table when the table  *)
(* it is sent to has no route, so a rule whose exit is not up steers the   *)
(* device out of this site instead.  An action is one interface brought up *)
(* or torn down, or one ip rule command.                                   *)
(***************************************************************************)
EXTENDS Naturals

CONSTANTS
    Devices,     \* local client devices
    Sites,       \* other sites of the roster
    NoExit,      \* a device's exitSiteId when it exits here
    MaxChanges,  \* bound: edits in the directory
    MaxFaults,   \* bound: commands that fail
    MaxRestarts  \* bound: restarts and reboots

ASSUME NoExitAssumption == NoExit \notin Sites
ASSUME BoundsAssumption ==
    MaxChanges \in Nat /\ MaxFaults \in Nat /\ MaxRestarts \in Nat

VARIABLES
    choice,    \* each device's exitSiteId
    usable,    \* sites that published a key and an endpoint
    plan,      \* plan.rules of the latest pass
    pc,        \* the loop of applyExits that is running
    sites,     \* exits the running loop has not reached
    todo,      \* rules the running loop has not reached
    rules,     \* ip rules with a priority of this module's
    ifaces,    \* wg-exit-<site> interfaces
    defaults,  \* tables with a default route
    clean,     \* whether every command of the latest pass worked
    changes, faults, restarts

directory == <<choice, usable, changes>>
pass      == <<plan, pc, sites, todo>>
kernel    == <<rules, ifaces, defaults>>
health    == <<clean, faults>>
vars == <<directory, pass, kernel, health, restarts>>

Rules == Devices \X Sites

\* A device leaves by one exit at most.
Plans == {p \in SUBSET Rules : \A q, r \in p : q[1] = r[1] => q = r}

Exits(p) == {r[2] : r \in p}

\* planExits: a device whose exit is this site, or cannot be used, gets no rule.
Planned == {r \in Rules : choice[r[1]] = r[2] /\ r[2] \in usable}

Init ==
    /\ choice \in [Devices -> Sites \cup {NoExit}]
    /\ usable \in SUBSET Sites
    /\ plan = {} /\ pc = "boot" /\ sites = {} /\ todo = {}
    /\ rules = {} /\ ifaces = {} /\ defaults = {}
    /\ clean = TRUE
    /\ changes = 0 /\ faults = 0 /\ restarts = 0

Fault == faults < MaxFaults /\ faults' = faults + 1 /\ clean' = FALSE

Works == UNCHANGED health

(***************************************************************************)
(* A pass                                                                  *)
(***************************************************************************)

\* planExits of the devices and the roster as they are now.
StartPass ==
    /\ pc \in {"boot", "idle"}
    /\ plan' = Planned
    /\ sites' = Exits(plan')
    /\ pc' = "exits"
    /\ clean' = TRUE
    /\ UNCHANGED <<directory, todo, kernel, faults, restarts>>

\* One exit: the interface and its peer, then the default route of its table.
\* A throw skips what is left of it; a failed route command goes unnoticed.
BringUp ==
    /\ pc = "exits"
    /\ \E s \in sites :
          /\ sites' = sites \ {s}
          /\ \/ Works /\ ifaces' = ifaces \cup {s} /\ defaults' = defaults \cup {s}
             \/ /\ Fault
                /\ ifaces' \in {ifaces, ifaces \cup {s}}
                /\ UNCHANGED defaults
    /\ UNCHANGED <<directory, plan, pc, todo, rules, restarts>>

\* Mutant: clear everything this module owns, and add it all again.
ListedClears ==
    /\ pc = "exits" /\ sites = {}
    /\ todo' = rules
    /\ pc' = "delete"
    /\ UNCHANGED <<directory, plan, sites, kernel, health, restarts>>

\* Mutant: a rule is stale when its device has no exit any more.
ListedByDevice ==
    /\ pc = "exits" /\ sites = {}
    /\ todo' = {r \in rules : \A p \in plan : p[1] # r[1]}
    /\ pc' = "delete"
    /\ UNCHANGED <<directory, plan, sites, kernel, health, restarts>>

\* listManagedRules: what is installed and not planned is to be deleted.  When
\* the rules cannot be listed, none seems to be installed.
Listed ==
    /\ pc = "exits" /\ sites = {}
    /\ \/ Works /\ todo' = rules \ plan /\ pc' = "delete"
       \/ Fault /\ todo' = plan /\ pc' = "add"
    /\ UNCHANGED <<directory, plan, sites, kernel, restarts>>

DeleteRule ==
    /\ pc = "delete"
    /\ \E r \in todo :
          /\ todo' = todo \ {r}
          /\ \/ Works /\ rules' = rules \ {r}
             \/ Fault /\ UNCHANGED rules
    /\ UNCHANGED <<directory, plan, pc, sites, ifaces, defaults, restarts>>

Deleted ==
    /\ pc = "delete" /\ todo = {}
    /\ todo' = plan \ rules
    /\ pc' = "add"
    /\ UNCHANGED <<directory, plan, sites, kernel, health, restarts>>

\* ip rule add; one that is there already stays as it is.
AddRule ==
    /\ pc = "add"
    /\ \E r \in todo :
          /\ todo' = todo \ {r}
          /\ \/ Works /\ rules' = rules \cup {r}
             \/ Fault /\ UNCHANGED rules
    /\ UNCHANGED <<directory, plan, pc, sites, ifaces, defaults, restarts>>

\* listExitInterfaces, which finds none when the links cannot be listed.
Added ==
    /\ pc = "add" /\ todo = {}
    /\ \/ Works /\ sites' = ifaces \ Exits(plan)
       \/ Fault /\ sites' = {}
    /\ pc' = "teardown"
    /\ UNCHANGED <<directory, plan, todo, kernel, restarts>>

\* Mutant: the interface is left up with an empty table.
TearDownKeepsLink ==
    /\ pc = "teardown"
    /\ \E s \in sites :
          /\ sites' = sites \ {s}
          /\ defaults' = defaults \ {s}
    /\ UNCHANGED <<directory, plan, pc, todo, rules, ifaces, health, restarts>>

\* ip route flush table, ip link del: neither's failure is noticed, and a link
\* takes its routes with it.
TearDown ==
    /\ pc = "teardown"
    /\ \E s \in sites :
          /\ sites' = sites \ {s}
          /\ \/ Works /\ ifaces' = ifaces \ {s} /\ defaults' = defaults \ {s}
             \/ /\ Fault
                /\ UNCHANGED ifaces
                /\ defaults' \in {defaults, defaults \ {s}}
    /\ UNCHANGED <<directory, plan, pc, todo, rules, restarts>>

Finish ==
    /\ pc = "teardown" /\ sites = {}
    /\ pc' = "idle"
    /\ UNCHANGED <<directory, plan, sites, todo, kernel, health, restarts>>

(***************************************************************************)
(* The world                                                               *)
(***************************************************************************)

\* A device's exit is changed, or a site publishes or withdraws.
EditDirectory ==
    /\ changes < MaxChanges
    /\ changes' = changes + 1
    /\ \/ \E d \in Devices, e \in Sites \cup {NoExit} :
             choice' = [choice EXCEPT ![d] = e] /\ UNCHANGED usable
       \/ usable' \in SUBSET Sites /\ UNCHANGED choice
    /\ UNCHANGED <<pass, kernel, health, restarts>>

Stopped ==
    /\ restarts < MaxRestarts /\ restarts' = restarts + 1
    /\ pc' = "boot" /\ sites' = {} /\ todo' = {}
    /\ UNCHANGED <<directory, plan, health>>

\* The process comes back to the kernel state it left, or the machine reboots.
Restart == Stopped /\ UNCHANGED kernel

Reboot ==
    /\ Stopped
    /\ rules' = {} /\ ifaces' = {} /\ defaults' = {}

PassStep ==
    \/ StartPass \/ BringUp \/ Listed \/ DeleteRule \/ Deleted
    \/ AddRule \/ Added \/ TearDown \/ Finish

Next == PassStep \/ EditDirectory \/ Restart \/ Reboot

Spec == Init /\ [][Next]_vars

\* The timer keeps firing and a pass that was started goes on.
FairSpec == Spec /\ WF_vars(PassStep)

(***************************************************************************)
(* Properties                                                              *)
(***************************************************************************)

TypeOK ==
    /\ choice \in [Devices -> Sites \cup {NoExit}]
    /\ usable \subseteq Sites
    /\ plan \in Plans
    /\ pc \in {"boot", "idle", "exits", "delete", "add", "teardown"}
    /\ sites \subseteq Sites /\ todo \subseteq Rules
    /\ rules \subseteq Rules
    /\ ifaces \subseteq Sites /\ defaults \subseteq Sites
    /\ clean \in BOOLEAN
    /\ changes \in 0 .. MaxChanges /\ faults \in 0 .. MaxFaults
    /\ restarts \in 0 .. MaxRestarts

\* While no command has failed, a device is never steered into a table without
\* its exit -- in the middle of a pass, or after a restart in the middle of one.
\* (Exits come up before rules are added and go down after rules are deleted.)
SteeredIntoExits == faults = 0 => Exits(rules) \subseteq defaults

\* A pass whose commands all worked leaves exactly the planned rules and exits,
\* whatever failed or was restarted before it: what is installed is read back
\* from the kernel and never remembered.
CleanPassIsExact ==
    pc = "idle" /\ clean =>
        rules = plan /\ ifaces = Exits(plan) /\ Exits(plan) \subseteq defaults

\* Whatever fails, a rule that stays planned is never deleted, so no pass
\* interrupts a device's traffic, and no rule is added that was not planned.
RulesTable == INSTANCE RuleTable WITH Entries <- Rules, table <- rules

RulesFollowPlan == RulesTable!Spec

\* Once the directory stays and the faults are over, every device leaves by the
\* exit chosen for it and unused exits are gone, for good.
EventuallySteered == <>[](rules = Planned /\ ifaces = Exits(Planned))

=============================================================================
