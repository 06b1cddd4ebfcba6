CONSTANTS
    Slots <- ShadowSlots
    Lans = {lanA, lanB}
    MaxChanges = 2
    MaxFaults = 1
SPECIFICATION FairSpec
INVARIANTS AtRestExact ShadowBeforeMasquerade
PROPERTIES RewritesFollowPlan EventuallyMapped
