CONSTANTS
    Resources <- MCResources
    MaxListed = 3
    Targets <- MCTargets
    IPs <- MCIPs
    Prefixed <- MCPrefixed
    Hostname <- MCHostname
    None = None
    MaxFilter = 2
SPECIFICATION TargetSpec
INVARIANTS EnterTakesHighlighted GrammarDialsBest SlugNamesPicked
CHECK_DEADLOCK FALSE
