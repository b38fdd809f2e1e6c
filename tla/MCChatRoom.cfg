\* A user in the chat and a second client make any two requests of a client's
\* life, or die, while two workers serve them and a period of live_Time may pass.
CONSTANTS
    Conns = {c1, c2}
    Regulars = {c1}
    Accounts = {a1}
    NoAccount = NoAccount
    Listener = Listener
    Workers = {w1, w2}
    Ops = {"LOGIN", "REGISTER", "READ", "SEND", "LOGOUT", "RECONNECT", "ACK", "UNMATCHED", "DROP"}
    Requests = 2
    MaxClock = 1
    SlowPeers = TRUE
SPECIFICATION SteadySpec
SYMMETRY Symmetry
INVARIANTS
    TypeOK
    NeverOrphaned
    InOrder
PROPERTIES
    StayersHearAll
\* The server waits for clients that have nothing more to send.
CHECK_DEADLOCK FALSE
