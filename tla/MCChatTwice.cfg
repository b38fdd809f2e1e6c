\* Two clients log in as one user.
CONSTANTS
    Conns = {c1, c2}
    Regulars = {}
    Accounts = {a1}
    NoAccount = NoAccount
    Listener = Listener
    Workers = {w1, w2}
    Ops = {"LOGIN"}
    Requests = 2
    MaxClock = 0
    SlowPeers = FALSE
SPECIFICATION Spec
INVARIANTS
    OneClientPerAccount
CHECK_DEADLOCK FALSE
