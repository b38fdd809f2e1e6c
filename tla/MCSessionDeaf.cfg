\* A client that reconnects once.
CONSTANTS
    Workers = {w1}
    AccountTexts <- OneText
    PasswordTexts <- OnePassword
    Clients = {p}
    Conns = {k1, k2}
    None = None
    Tolerated = 1
    Interval = 0
    MaxRequests = 2
SPECIFICATION FairSpec
PROPERTIES
    MessagesShown
CHECK_DEADLOCK FALSE
