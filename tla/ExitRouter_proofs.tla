------------------------- MODULE ExitRouter_proofs -------------------------
(***************************************************************************)
(* For any devices, sites and bounds: a clean pass leaves exactly its      *)
(* plan, no device is steered into a table without its exit, and the       *)
(* policy rules implement RuleTable.                                       *)
(***************************************************************************)
EXTENDS ExitRouter, TLAPS

(***************************************************************************)
(* The invariant                                                           *)
(***************************************************************************)

\* Whatever fails: what is being deleted or torn down is not planned, and what is
\* being added is.
LoopInv ==
    /\ pc = "delete" => todo \cap plan = {}
    /\ pc = "add" => todo \subseteq plan
    /\ pc = "teardown" => sites \cap Exits(plan) = {}

\* The planned exits that the pass has reached are up.
UpBut(S) == Exits(plan) \ S \subseteq ifaces /\ Exits(plan) \ S \subseteq defaults

\* How far a pass has come, as long as every command of it worked.
CleanInv ==
    /\ pc = "exits" => UpBut(sites)
    /\ pc \in {"delete", "add", "teardown", "idle"} => UpBut({})
    /\ pc = "delete" => rules \ plan = todo
    /\ pc = "add" => rules \subseteq plan /\ plan \ rules \subseteq todo
    /\ pc \in {"teardown", "idle"} => rules = plan
    /\ pc = "teardown" => ifaces \ Exits(plan) \subseteq sites
    /\ pc = "idle" => ifaces = Exits(plan)

SteerInv == faults = 0 => clean /\ Exits(rules) \subseteq defaults

IInv == TypeOK /\ LoopInv /\ (clean => CleanInv) /\ SteerInv

\* A command that fails spoils the pass it belongs to, and is counted.
LEMMA FaultCounts ==
    ASSUME TypeOK, Fault
    PROVE  clean' = FALSE /\ faults' # 0 /\ faults' \in 0 .. MaxFaults
BY BoundsAssumption DEF TypeOK, Fault

LEMMA ExitsIn == \A p \in SUBSET Rules : Exits(p) \subseteq Sites
BY DEF Exits, Rules

LEMMA ExitsMonotone ==
    \A p, q : p \subseteq q => Exits(p) \subseteq Exits(q)
BY DEF Exits

LEMMA PlannedIsPlan == Planned \in Plans
BY DEF Planned, Plans, Rules

LEMMA StartKeeps == ASSUME IInv, StartPass PROVE IInv'
<1>1. plan' \in Plans BY PlannedIsPlan DEF StartPass
<1>2. Exits(plan') \subseteq Sites BY <1>1, ExitsIn DEF Plans
<1> QED
  BY <1>1, <1>2
  DEF IInv, TypeOK, LoopInv, CleanInv, SteerInv, UpBut, StartPass, directory, kernel

LEMMA BringUpKeeps == ASSUME IInv, BringUp PROVE IInv'
<1> USE DEF IInv, TypeOK, LoopInv, CleanInv, SteerInv, UpBut
<1>1. PICK s \in sites :
        /\ sites' = sites \ {s}
        /\ \/ Works /\ ifaces' = ifaces \cup {s} /\ defaults' = defaults \cup {s}
           \/ /\ Fault
              /\ ifaces' \in {ifaces, ifaces \cup {s}}
              /\ UNCHANGED defaults
  BY DEF BringUp
<1>2. CASE Works /\ ifaces' = ifaces \cup {s} /\ defaults' = defaults \cup {s}
  BY <1>1, <1>2 DEF BringUp, directory, Works, health
<1>3. CASE Fault /\ ifaces' \in {ifaces, ifaces \cup {s}} /\ UNCHANGED defaults
  BY <1>1, <1>3, FaultCounts DEF BringUp, directory
<1> QED BY <1>1, <1>2, <1>3

LEMMA ListedKeeps == ASSUME IInv, Listed PROVE IInv'
<1> USE DEF IInv, TypeOK, LoopInv, CleanInv, SteerInv, UpBut
<1>1. CASE Works /\ todo' = rules \ plan /\ pc' = "delete"
  BY <1>1 DEF Listed, directory, kernel, Works, health
<1>2. CASE Fault /\ todo' = plan /\ pc' = "add"
  BY <1>2, FaultCounts DEF Listed, directory, kernel, Plans
<1> QED BY <1>1, <1>2 DEF Listed

LEMMA DeleteRuleKeeps == ASSUME IInv, DeleteRule PROVE IInv'
<1> USE DEF IInv, TypeOK, LoopInv, CleanInv, SteerInv, UpBut
<1>1. PICK r \in todo : /\ todo' = todo \ {r}
                        /\ \/ Works /\ rules' = rules \ {r}
                           \/ Fault /\ UNCHANGED rules
  BY DEF DeleteRule
<1>2. CASE Works /\ rules' = rules \ {r}
  <2>1. Exits(rules') \subseteq Exits(rules) BY <1>2, ExitsMonotone
  <2> QED BY <1>1, <1>2, <2>1 DEF DeleteRule, directory, Works, health
<1>3. CASE Fault /\ UNCHANGED rules
  BY <1>1, <1>3, FaultCounts DEF DeleteRule, directory
<1> QED BY <1>1, <1>2, <1>3

LEMMA DeletedKeeps == ASSUME IInv, Deleted PROVE IInv'
<1> USE DEF IInv, TypeOK, LoopInv, CleanInv, SteerInv, UpBut
<1>1. plan \subseteq Rules BY DEF Plans
<1> QED BY <1>1 DEF Deleted, directory, kernel, health

LEMMA AddRuleKeeps == ASSUME IInv, AddRule PROVE IInv'
<1> USE DEF IInv, TypeOK, LoopInv, CleanInv, SteerInv, UpBut
<1>1. PICK r \in todo : /\ todo' = todo \ {r}
                        /\ \/ Works /\ rules' = rules \cup {r}
                           \/ Fault /\ UNCHANGED rules
  BY DEF AddRule
<1>2. CASE Works /\ rules' = rules \cup {r}
  <2>1. clean => Exits(rules') \subseteq Exits(plan)
    BY <1>1, <1>2, ExitsMonotone DEF AddRule
  <2> QED BY <1>1, <1>2, <2>1 DEF AddRule, directory, Works, health
<1>3. CASE Fault /\ UNCHANGED rules
  BY <1>1, <1>3, FaultCounts DEF AddRule, directory
<1> QED BY <1>1, <1>2, <1>3

LEMMA AddedKeeps == ASSUME IInv, Added PROVE IInv'
<1> USE DEF IInv, TypeOK, LoopInv, CleanInv, SteerInv, UpBut
<1>1. CASE Works /\ sites' = ifaces \ Exits(plan)
  BY <1>1 DEF Added, directory, kernel, Works, health
<1>2. CASE Fault /\ sites' = {}
  BY <1>2, FaultCounts DEF Added, directory, kernel
<1> QED BY <1>1, <1>2 DEF Added

LEMMA TearDownKeeps == ASSUME IInv, TearDown PROVE IInv'
<1> USE DEF IInv, TypeOK, LoopInv, CleanInv, SteerInv, UpBut
<1>1. PICK s \in sites :
        /\ sites' = sites \ {s}
        /\ \/ Works /\ ifaces' = ifaces \ {s} /\ defaults' = defaults \ {s}
           \/ /\ Fault
              /\ UNCHANGED ifaces
              /\ defaults' \in {defaults, defaults \ {s}}
  BY DEF TearDown
<1>2. CASE Works /\ ifaces' = ifaces \ {s} /\ defaults' = defaults \ {s}
  BY <1>1, <1>2 DEF TearDown, directory, Works, health
<1>3. CASE Fault /\ UNCHANGED ifaces /\ defaults' \in {defaults, defaults \ {s}}
  BY <1>1, <1>3, FaultCounts DEF TearDown, directory
<1> QED BY <1>1, <1>2, <1>3

LEMMA FinishKeeps == ASSUME IInv, Finish PROVE IInv'
BY DEF IInv, TypeOK, LoopInv, CleanInv, SteerInv, UpBut, Finish, directory, kernel,
       health

LEMMA WorldKeeps ==
    ASSUME IInv, EditDirectory \/ Restart \/ Reboot
    PROVE  IInv'
<1> USE BoundsAssumption
    DEF IInv, TypeOK, LoopInv, CleanInv, SteerInv, UpBut
<1>1. CASE EditDirectory BY <1>1 DEF EditDirectory, pass, kernel, health
<1>2. CASE Restart BY <1>2 DEF Restart, Stopped, directory, kernel, health
<1>3. CASE Reboot
  <2>1. Exits(rules') = {} BY <1>3 DEF Reboot, Exits
  <2> QED BY <1>3, <2>1 DEF Reboot, Stopped, directory, health
<1> QED BY <1>1, <1>2, <1>3

\* Every reachable state satisfies the invariant above.
THEOREM ExitInvariant == Spec => []IInv
<1>1. Init => IInv
  BY BoundsAssumption
  DEF Init, IInv, TypeOK, LoopInv, CleanInv, SteerInv, Plans, Exits, Rules
<1>2. IInv /\ [Next]_vars => IInv'
  <2> SUFFICES ASSUME IInv, [Next]_vars PROVE IInv' OBVIOUS
  <2>1. CASE UNCHANGED vars
    BY <2>1 DEF vars, directory, pass, kernel, health, IInv, TypeOK, LoopInv,
                CleanInv, SteerInv, UpBut
  <2>2. CASE Next
    BY <2>2, StartKeeps, BringUpKeeps, ListedKeeps, DeleteRuleKeeps, DeletedKeeps,
       AddRuleKeeps, AddedKeeps, TearDownKeeps, FinishKeeps, WorldKeeps
    DEF Next, PassStep
  <2> QED BY <2>1, <2>2
<1> QED BY <1>1, <1>2, PTL DEF Spec

\* Every variable keeps its type, for any sites, devices, edits and faults.
THEOREM TypesKept == Spec => []TypeOK
BY ExitInvariant, PTL DEF IInv

\* While no command has failed, applyExits never has a rule in the kernel whose
\* table has no default route: no device leaks out of this site by default.
THEOREM NeverSteeredAstray == Spec => []SteeredIntoExits
<1>1. IInv => SteeredIntoExits BY DEF IInv, SteerInv, SteeredIntoExits
<1> QED BY <1>1, ExitInvariant, PTL

\* A pass of applyExits whose commands all worked leaves the rules and the exits of
\* its plan and no others, whatever happened before it.
THEOREM CleanPass == Spec => []CleanPassIsExact
<1>1. IInv => CleanPassIsExact
  BY DEF IInv, CleanInv, UpBut, CleanPassIsExact
<1> QED BY <1>1, ExitInvariant, PTL

(***************************************************************************)
(* The refinement                                                          *)
(***************************************************************************)

LEMMA RuleStep ==
    ASSUME IInv, [Next]_vars
    PROVE  [RulesTable!Next]_<<plan, rules>>
<1> USE DEF RulesTable!Next, RulesTable!Replan, RulesTable!Add, RulesTable!Remove,
            RulesTable!Reboot
<1>1. CASE StartPass
  BY <1>1, PlannedIsPlan DEF StartPass, kernel, Plans
<1>2. CASE DeleteRule
  BY <1>2 DEF DeleteRule, IInv, LoopInv
<1>3. CASE AddRule
  BY <1>3 DEF AddRule, IInv, LoopInv
<1>4. CASE Reboot BY <1>4 DEF Reboot, Stopped
<1>5. CASE UNCHANGED <<plan, rules>> BY <1>5
<1> QED
  BY <1>1, <1>2, <1>3, <1>4, <1>5
  DEF Next, PassStep, BringUp, Listed, Deleted, Added, TearDown, Finish, EditDirectory, Restart,
      Stopped, vars, pass, kernel

\* Whatever fails, restarts or is edited, the policy rules only gain rules that are
\* planned and only lose rules that are not: ExitRouter implements RuleTable.
THEOREM RulesImplementRuleTable == Spec => RulesFollowPlan
<1>1. Init => RulesTable!Init
  BY DEF Init, RulesTable!Init
<1>2. IInv /\ [Next]_vars => [RulesTable!Next]_<<plan, rules>>
  BY RuleStep
<1> QED
  BY <1>1, <1>2, ExitInvariant, PTL
  DEF Spec, RulesFollowPlan, RulesTable!Spec

=============================================================================
