CONSTANTS
    Passes = {1, 2}
    Pages = {g1}
    None = None
    MaxEdits = 1
    MaxOutages = 2
    MaxRefused = 1
SPECIFICATION FairSpec
INVARIANTS OnePassAtATime OneIdentity
PROPERTIES OutageKeepsPeers NeverBackwards EventuallyCurrent
