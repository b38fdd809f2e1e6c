\* One client logs in.
CONSTANTS
    Conns = {c1}
    Regulars = {}
    Accounts = {a1}
    NoAccount = NoAccount
    Listener = Listener
    Workers = {w1}
    Ops = {"LOGIN"}
    Requests = 1
    MaxClock = 0
    SlowPeers = FALSE
SPECIFICATION FairSpec
PROPERTIES
    LoginsAreAnswered
CHECK_DEADLOCK FALSE
