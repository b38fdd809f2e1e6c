------------------------------- MODULE Stream -------------------------------
(***************************************************************************)
(* One connection as the bytes it carries.  The client writes requests;    *)
(* the server reads some of the bytes that have arrived and handles one    *)
(* request (Server::getRequestInfo).  The server appends messages to the   *)
(* connection's output buffer and writes a part of it at a time; the       *)
(* client reads what has arrived and takes messages from its buffer while  *)
(* something is in it (ChatClient::receiveData).                           *)
(*                                                                         *)
(* TCP keeps the bytes in order and says nothing of where one message      *)
(* ends.  What requests and messages do to the rest of the server is in    *)
(* ChatServer; here they are only taken apart.                             *)
(***************************************************************************)
EXTENDS Buffer, Heading, FiniteSets, SequencesExt

CONSTANTS
    Requests,       \* the requests that the client writes
    Replies,        \* the messages that the server sends it
    MaxMessages,    \* bound on the messages written in both directions
    MayTear         \* whether a read may end inside a message

\* UserManage::checkAccount.
MaxAccount == 65535

\* A message; its text is the bytes that follow the heading, whose length the heading
\* has four bytes for.
Messages ==
    {m \in [protocolId : 1 .. 10, account : 0 .. MaxAccount, text : Seq(Byte)] :
        Len(m.text) \div 16777216 < 256}

SEND == 2
TEXT == 1

\* The protocols whose text the server reads, and those that are a heading alone.
WithText == {1, SEND, 7, 10}        \* LOGIN, SEND, REGISTER, RECONNECT
Alone    == {3, 5, 6}               \* READ, ACK, LOGOUT

\* What the client writes: READ, ACK and LOGOUT come without a text.
ClientMessages ==
    {m \in Messages :
        \/ m.protocolId \in WithText
        \/ m.protocolId \in Alone /\ m.text = <<>>}

ASSUME StreamAssumption ==
    /\ Requests \subseteq ClientMessages
    /\ Replies \subseteq Messages
    /\ MaxMessages \in Nat
    /\ MayTear \in BOOLEAN

VARIABLES
    requests,       \* what the client has written: see Written below
    toServer,       \* bytes on their way
    inBuffer,       \* Connection::m_inBuffer
    handled,        \* the requests the server has handled
    messages,       \* what the server has appended to outBuffer
    outBuffer,      \* Connection::m_outBuffer
    toClient,       \* bytes on their way
    clientBuffer,   \* ChatClient::m_inBuffer
    client,         \* "idle", "reading" in the loop of receiveData, or "overrun"
    shown,          \* the messages the client has taken
    stopped         \* the sides that failed an assertion, or left their vector: see CanParse

serverVars == <<inBuffer, handled>>
clientVars == <<clientBuffer, client, shown>>
vars == <<requests, toServer, inBuffer, handled, messages, outBuffer, toClient,
          clientBuffer, client, shown, stopped>>

\* One direction: the messages, their bytes, the places where one ends, how many bytes
\* the reader has read, and whether one of its reads ended elsewhere.
Nothing == [msgs |-> <<>>, bytes |-> <<>>, ends |-> {0}, read |-> 0, torn |-> FALSE]

Init ==
    /\ requests = Nothing
    /\ messages = Nothing
    /\ toServer = <<>>
    /\ toClient = <<>>
    /\ inBuffer = NewBuffer
    /\ outBuffer = NewBuffer
    /\ clientBuffer = NewBuffer
    /\ handled = <<>>
    /\ client = "idle"
    /\ shown = <<>>
    /\ stopped = {}

-----------------------------------------------------------------------------

Message(p, a, t) == [protocolId |-> p, account |-> a, text |-> t]

Encoded(m) ==
    encode([protocolId |-> m.protocolId, account |-> m.account, dataType |-> TEXT,
            dataLength |-> Len(m.text)]) \o m.text

\* d, after message m was written to it.
Written(d, m) ==
    LET bytes == d.bytes \o Encoded(m)
    IN  [d EXCEPT !.msgs = Append(@, m), !.bytes = bytes, !.ends = @ \union {Len(bytes)}]

\* d, after its reader read n more bytes.
ReadFrom(d, n) ==
    [d EXCEPT !.read = @ + n, !.torn = @ \/ d.read + n \notin d.ends]

MayEndAfter(d, n) == MayTear \/ d.read + n \in d.ends

MayWrite == Len(requests.msgs) + Len(messages.msgs) < MaxMessages

\* The client's writeText and Heartbeat.
WriteText(m) ==
    /\ MayWrite
    /\ "client" \notin stopped
    /\ client # "overrun"
    /\ requests' = Written(requests, m)
    /\ toServer' = toServer \o Encoded(m)
    /\ UNCHANGED <<serverVars, messages, outBuffer, toClient, clientVars, stopped>>

\* sendTextToOneUser_, sendTextToAllUser and updateOnlineList on this connection.
AppendOutBuffer(m) ==
    /\ MayWrite
    /\ "server" \notin stopped
    /\ messages' = Written(messages, m)
    /\ outBuffer' = append(append(outBuffer, SubSeq(Encoded(m), 1, SIZE_BUFFER_HEAD)), m.text)
    /\ UNCHANGED <<requests, toServer, serverVars, toClient, clientVars, stopped>>

\* sendResponseInfo, when the socket takes n bytes.
SendResponseInfo(n) ==
    /\ "server" \notin stopped
    /\ toClient' = toClient \o Peek(outBuffer, n)
    /\ outBuffer' = writeFd(outBuffer, n)
    /\ UNCHANGED <<requests, toServer, serverVars, messages, clientVars, stopped>>

-----------------------------------------------------------------------------

\* The assertion of retrieveAsString, whose subtraction is unsigned: it cannot fail
\* once m_readIndex has passed m_writeIndex.
Asserted(b, len) == b.m_readIndex <= b.m_writeIndex => len <= readableBytes(b)

\* The len bytes are in the vector, written or not.
InVector(b, len) == b.m_readIndex + len <= b.m_size

\* What the server finds in its buffer: the heading, whether a text is read with it,
\* and the buffer behind the heading.
HeadOf(b)  == parseHead(Peek(b, SIZE_BUFFER_HEAD))
HasText(h) == h.protocolId \in WithText /\ (h.protocolId = SEND => h.dataType = TEXT)
Behind(b)  == Skip(b, SIZE_BUFFER_HEAD)

\* Whether getRequestInfo gets to its end in the vector.  parseInt and retrieveAsString
\* compare no index with the size of the vector: where InVector is false the program
\* reads on behind it, which is undefined.  The model stops there and says nothing of
\* what follows.
CanParse(b) ==
    /\ InVector(b, SIZE_BUFFER_HEAD)
    /\ HasText(HeadOf(b)) =>
          /\ Asserted(Behind(b), HeadOf(b).dataLength)
          /\ InVector(Behind(b), HeadOf(b).dataLength)

Request(b) ==
    LET h == HeadOf(b)
    IN  Message(h.protocolId, h.account,
                IF HasText(h) THEN Peek(Behind(b), h.dataLength) ELSE <<>>)

\* getRequestInfo, when readv returns n bytes: one heading is parsed, whether its eight
\* bytes have arrived or not, and one request handled.
GetRequestInfo(n) ==
    /\ "server" \notin stopped
    /\ HasRoom(inBuffer, n)
    /\ MayEndAfter(requests, n)
    /\ requests' = ReadFrom(requests, n)
    /\ toServer' = SubSeq(toServer, n + 1, Len(toServer))
    /\ LET b == readFd(inBuffer, SubSeq(toServer, 1, n)) IN
       IF CanParse(b)
       THEN /\ inBuffer' = IF HasText(HeadOf(b))
                           THEN retrieveAsString(Behind(b), HeadOf(b).dataLength)
                           ELSE Behind(b)
            /\ handled' = IF HeadOf(b).protocolId \in WithText \union Alone
                          THEN Append(handled, Request(b)) ELSE handled
            /\ UNCHANGED stopped
       ELSE /\ stopped' = stopped \union {"server"}
            /\ UNCHANGED serverVars
    /\ UNCHANGED <<messages, outBuffer, toClient, clientVars>>

\* receiveData: what has arrived, n bytes, goes to the buffer.
ReceiveData(n) ==
    /\ "client" \notin stopped
    /\ client = "idle"
    /\ HasRoom(clientBuffer, n)
    /\ MayEndAfter(messages, n)
    /\ messages' = ReadFrom(messages, n)
    /\ toClient' = SubSeq(toClient, n + 1, Len(toClient))
    /\ clientBuffer' = readSocket(clientBuffer, SubSeq(toClient, 1, n))
    /\ client' = "reading"
    /\ UNCHANGED <<requests, toServer, serverVars, outBuffer, shown, stopped>>

\* What has arrived is more than the vector and extraBuf hold: undefined, and the end of
\* the client in the model.
Overrun(n) ==
    /\ "client" \notin stopped
    /\ client = "idle"
    /\ ~HasRoom(clientBuffer, n)
    /\ MayEndAfter(messages, n)
    /\ client' = "overrun"
    /\ UNCHANGED <<requests, toServer, serverVars, messages, outBuffer, toClient,
                   clientBuffer, shown, stopped>>

\* readHeadData_ reads this and leaves that; readTextContent_ takes the text.
HeadRead(b)   == baseParse(Peek(b, SIZE_BUFFER_HEAD))
BehindHead(b) == retrieveAsString(b, SIZE_BUFFER_HEAD)

CanTake(b) ==
    /\ Asserted(b, SIZE_BUFFER_HEAD)
    /\ Asserted(BehindHead(b), HeadRead(b).dataLength)

\* Mutant: one message for each readyRead.
TakeOneMessage ==
    /\ "client" \notin stopped
    /\ client = "reading"
    /\ CanTake(clientBuffer)
    /\ LET h == HeadRead(clientBuffer)
           b == BehindHead(clientBuffer)
       IN  /\ clientBuffer' = retrieveAsString(b, h.dataLength)
           /\ shown' = Append(shown, Message(h.protocolId, h.account, Peek(b, h.dataLength)))
    /\ client' = "idle"
    /\ UNCHANGED <<requests, toServer, serverVars, messages, outBuffer, toClient, stopped>>

\* One turn of the loop of receiveData.  No message has another type than TEXT.
ReadData ==
    /\ "client" \notin stopped
    /\ client = "reading"
    /\ CanTake(clientBuffer)
    /\ LET h == HeadRead(clientBuffer)
           b == BehindHead(clientBuffer)
       IN  /\ clientBuffer' = retrieveAsString(b, h.dataLength)
           /\ shown' = Append(shown, Message(h.protocolId, h.account, Peek(b, h.dataLength)))
    /\ client' = IF readableBytes(clientBuffer') > 0 THEN "reading" ELSE "idle"
    /\ UNCHANGED <<requests, toServer, serverVars, messages, outBuffer, toClient, stopped>>

AssertionFails ==
    /\ "client" \notin stopped
    /\ client = "reading"
    /\ ~CanTake(clientBuffer)
    /\ stopped' = stopped \union {"client"}
    /\ UNCHANGED <<requests, toServer, serverVars, messages, outBuffer, toClient, clientVars>>

Next ==
    \/ \E m \in Requests : WriteText(m)
    \/ \E m \in Replies : AppendOutBuffer(m)
    \/ \E n \in 1 .. readableBytes(outBuffer) : SendResponseInfo(n)
    \/ \E n \in 1 .. Len(toServer) : GetRequestInfo(n)
    \/ \E n \in 1 .. Len(toClient) : ReceiveData(n) \/ Overrun(n)
    \/ ReadData
    \/ AssertionFails

Spec == Init /\ [][Next]_vars

-----------------------------------------------------------------------------

\* The types.  An index may have passed the other one, after a read that ended inside a
\* request, and is in the vector as long as the server has not stopped (CanParse).
TypeOK ==
    /\ IsBuffer(inBuffer) /\ IsBuffer(outBuffer) /\ IsBuffer(clientBuffer)
    /\ client \in {"idle", "reading", "overrun"}
    /\ stopped \subseteq {"server", "client"}

\* The output buffer is a queue of bytes: what is on its way to the client and what is
\* readable in the buffer are the bytes the client has not read, in order, none lost
\* and none twice, whatever was compacted, grown or written in part.
OutBufferIsQueue ==
    toClient \o Readable(outBuffer)
        = SubSeq(messages.bytes, messages.read + 1, Len(messages.bytes))

\* As long as every read of the server has ended where a request ends, it takes the
\* requests apart rightly, however many come at once: it handles them in order, and all
\* of them once nothing is left in its buffer (getRequestInfo, retrieveAsString).
RequestsIntact ==
    ~requests.torn =>
        /\ "server" \notin stopped
        /\ IsPrefix(handled, requests.msgs)
        /\ toServer \o Readable(inBuffer) = <<>> => handled = requests.msgs

\* The client never takes a message for another one: it fails an assertion instead, and
\* only when a read of its own has ended inside a message.  When it has done with what
\* it read, it has taken every message that ended there (receiveData).  Nothing is said
\* of what follows a read of more than extraBuf has room for.
MessagesIntact ==
    /\ IsPrefix(shown, messages.msgs)
    /\ "client" \in stopped => messages.torn
    /\ client = "idle" =>
          Len(shown) = Cardinality({e \in messages.ends : 0 < e /\ e <= messages.read})

\* b grew to c only because n more bytes were more than the whole vector has room for.
GrowsFor(b, c, n) == c.m_size # b.m_size => readableBytes(b) + n > b.m_size

\* Each of the three buffers grows only for more bytes than its vector has room for,
\* however they are spread over it: what was read makes room again (makeBufferSpace).
GrowsOnlyWhenFull ==
    [][/\ GrowsFor(inBuffer, inBuffer', requests'.read - requests.read)
       /\ GrowsFor(outBuffer, outBuffer', Len(messages'.bytes) - Len(messages.bytes))
       /\ GrowsFor(clientBuffer, clientBuffer', messages'.read - messages.read)]_vars

\* readme.md:10 says that the protocol keeps packets from sticking together.  The server
\* handles one request for each read, and those that came with it stay in its buffer
\* until more bytes come.
PacketsSeparated == ~requests.torn => Readable(inBuffer) = <<>>
=============================================================================
