CONSTANTS
    Devices = {d1, d2}
    Sites = {s1, s2}
    NoExit = NoExit
    MaxChanges = 2
    MaxFaults = 1
    MaxRestarts = 1
SPECIFICATION FairSpec
INVARIANTS SteeredIntoExits CleanPassIsExact
PROPERTIES RulesFollowPlan EventuallySteered
