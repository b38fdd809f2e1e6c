\* Two clients, each in the login, the register or the chat window, and two workers
\* that ask the database at the same time; connections break and processes end.
CONSTANTS
    Workers = {w1, w2}
    AccountTexts <- Texts
    PasswordTexts <- OnePassword
    Clients = {p, q}
    Conns = {k1, k2}
    None = None
    Tolerated = 1
    Interval = 0
    MaxRequests = 2
SPECIFICATION Spec
SYMMETRY Symmetry
INVARIANTS
    TypeOK
    ChatIsLetIn
    OnlineIsRegistered
    SuccessIsStored
    RefusedIsUnknown
    RegisteredOnce
\* Everyone may have left.
CHECK_DEADLOCK FALSE
