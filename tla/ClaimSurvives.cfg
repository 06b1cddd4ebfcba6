CONSTANTS
    Conns = {c1, c2}
    MaxSessions = 1
    Refusing = {}
    UsePki = FALSE
SPECIFICATION Spec
INVARIANT ProcessSurvives
CHECK_DEADLOCK FALSE
