CONSTANTS
    Conns = {c1, c2}
    MaxSessions = 1
    Refusing = {c2}
    UsePki = FALSE
SPECIFICATION FairSpec
INVARIANTS
    MetricsMatchAudit
PROPERTIES
    ChannelServed
    BridgeTornDown
    VerdictReached
    VerdictStands
CHECK_DEADLOCK FALSE
