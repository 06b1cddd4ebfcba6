CONSTANTS
    Logins = {c1, c2, c3}
    MaxRemovals = 1
    MayFail = TRUE
SPECIFICATION InjectFairSpec
INVARIANTS InjectedBeforeDialed
PROPERTIES RetryPaysOff AttemptSettles
CHECK_DEADLOCK FALSE
