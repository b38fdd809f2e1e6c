\* A client that may lose its connection and make two more.
CONSTANTS
    Workers = {w1}
    AccountTexts <- OneText
    PasswordTexts <- OnePassword
    Clients = {p}
    Conns = {k1, k2, k3}
    None = None
    Tolerated = 2
    Interval = 1
    MaxRequests = 3
SPECIFICATION FairSpec
PROPERTIES
    LostIsNoticed
    ArrivalsAreRead
\* Everyone may have left.
CHECK_DEADLOCK FALSE
