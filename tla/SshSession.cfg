CONSTANTS
    Conns = {c1, c2}
    MaxSessions = 1
    Refusing = {c1, c2}
    UsePki = FALSE
SPECIFICATION Spec
INVARIANTS
    AuditedBeforeBridged
    UpstreamsAccountedFor
SYMMETRY Symmetry
CHECK_DEADLOCK FALSE
