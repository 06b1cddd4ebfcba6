CONSTANTS
    Keys = {k1, k2}
    Addresses = {a1, a2}
    Nobody = Nobody
    MaxChanges = 2
    MaxFaults = 2
SPECIFICATION FairSpec
INVARIANTS CleanPassIsExact
PROPERTIES TunnelsFollowPlan UsedRoutesStay EventuallyReachable
