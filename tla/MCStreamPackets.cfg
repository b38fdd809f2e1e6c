\* Three messages; every read ends where a message ends.
CONSTANTS
    InitSize = 12
    ExtraBuf = 8
    Requests <- SendAndAck
    Replies <- TwoSenders
    MaxMessages = 3
    MayTear = FALSE
SPECIFICATION Spec
INVARIANTS
    PacketsSeparated
\* Everything written may have been read, and a side may have stopped.
CHECK_DEADLOCK FALSE
