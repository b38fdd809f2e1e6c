\* Three messages in either direction, of eight and ten bytes, through vectors of
\* twelve: they wrap, grow and are compacted.  Reads end anywhere, and the client is
\* sometimes given more than the vector and extraBuf hold.
CONSTANTS
    InitSize = 12
    ExtraBuf = 8
    Requests <- SendAndAck
    Replies <- TwoSenders
    MaxMessages = 3
    MayTear = TRUE
SPECIFICATION Spec
INVARIANTS
    TypeOK
    OutBufferIsQueue
    RequestsIntact
    MessagesIntact
PROPERTIES
    GrowsOnlyWhenFull
\* Everything written may have been read, and a side may have stopped.
CHECK_DEADLOCK FALSE
