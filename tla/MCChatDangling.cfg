\* One of two users dies and the other sends a message.
CONSTANTS
    Conns = {c1, c2}
    Regulars = {c1, c2}
    Accounts = {a1, a2}
    NoAccount = NoAccount
    Listener = Listener
    Workers = {w1}
    Ops = {"SEND", "DROP"}
    Requests = 2
    MaxClock = 0
    SlowPeers = FALSE
SPECIFICATION SteadySpec
INVARIANTS
    BroadcastsToConnected
CHECK_DEADLOCK FALSE
