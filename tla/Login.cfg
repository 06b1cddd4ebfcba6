CONSTANTS
    Conns = {c1, c2}
    Users = {u1, u2}
    Targets = {t1}
    None = None
    PasswordAuth = "local"
    Local = {c1}
    Ttl = 2
    MaxLatency = 1
SPECIFICATION Spec
INVARIANTS AuthenticatedAs NotTooStale
