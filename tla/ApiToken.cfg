CONSTANTS
    Users = {u1, u2}
    Owner = u1
    None = None
    FeedLimit = 1
    MaxEvents = 2
    Tabs = {o1, o2}
    Requests = {q1}
    MaxSecrets = 2
SPECIFICATION Spec
INVARIANTS TypeOK RetiredStaysRetired GoodSecretAccepted FeedAgreesWithSocket
CONSTRAINT OneAtATime
SYMMETRY Symmetry
CHECK_DEADLOCK FALSE
