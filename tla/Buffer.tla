------------------------------- MODULE Buffer -------------------------------
(***************************************************************************)
(* Buffer.h and Buffer.cpp of the server and of the client: a vector of    *)
(* bytes with an index to read from and one to write at.  The operators    *)
(* take a buffer and return the buffer that a call leaves.                 *)
(*                                                                         *)
(*   | prependable bytes | readable bytes | writable bytes |               *)
(*   0              m_readIndex     m_writeIndex         size              *)
(***************************************************************************)
EXTENDS Integers, Sequences

CONSTANTS
    InitSize,       \* INIT_SIZE
    ExtraBuf        \* size of the array extraBuf, on the stack of both readFd

ASSUME BufferAssumption == InitSize \in Nat /\ ExtraBuf \in Nat

Byte == 0 .. 255

\* The vector is m_buffer, its size m_size.
IsBuffer(b) ==
    b \in [m_buffer : [0 .. b.m_size - 1 -> Byte], m_size : Nat,
           m_readIndex : 0 .. b.m_size, m_writeIndex : 0 .. b.m_size]

NewBuffer ==
    [m_buffer |-> [i \in 0 .. InitSize - 1 |-> 0], m_size |-> InitSize,
     m_readIndex |-> 0, m_writeIndex |-> 0]

readableBytes(b)    == b.m_writeIndex - b.m_readIndex
writableBytes(b)    == b.m_size - b.m_writeIndex
prependableBytes(b) == b.m_readIndex

\* The len bytes from m_readIndex on, whether they were written or not.
Peek(b, len) == [i \in 1 .. len |-> b.m_buffer[b.m_readIndex + i - 1]]

Readable(b) == Peek(b, readableBytes(b))

\* parseInt leaves m_readIndex behind the field; retrieve does the same.
Skip(b, len) == [b EXCEPT !.m_readIndex = @ + len]

retrieveAll(b) ==
    [m_buffer |-> b.m_buffer, m_size |-> b.m_size, m_readIndex |-> 0, m_writeIndex |-> 0]

\* Mutant: the buffer is cleared with the first message.
RetrieveClears(b, len) == retrieveAll(b)

\* retrieveAsString(len): the indices return to 0 when nothing is left.
retrieveAsString(b, len) ==
    IF b.m_readIndex + len = b.m_writeIndex THEN retrieveAll(b) ELSE Skip(b, len)

\* resize, which fills up with zeros.
Resize(b, n) ==
    [m_buffer     |-> [i \in 0 .. n - 1 |-> IF i < b.m_size THEN b.m_buffer[i] ELSE 0],
     m_size       |-> n,
     m_readIndex  |-> b.m_readIndex,
     m_writeIndex |-> b.m_writeIndex]

\* The readable bytes move to the front; what they do not cover stays.
Compact(b) ==
    [m_buffer     |-> [i \in 0 .. b.m_size - 1 |->
                          IF i < readableBytes(b) THEN b.m_buffer[b.m_readIndex + i]
                                                  ELSE b.m_buffer[i]],
     m_size       |-> b.m_size,
     m_readIndex  |-> 0,
     m_writeIndex |-> readableBytes(b)]

\* Mutant: the space in front of the readable bytes is never used again.
MakeSpaceByGrowing(b, len) == Resize(b, b.m_writeIndex + len)

makeBufferSpace(b, len) ==
    IF writableBytes(b) + prependableBytes(b) < len THEN Resize(b, b.m_writeIndex + len)
                                                    ELSE Compact(b)

\* Mutant: the space is taken for granted.
EnsureNothing(b, len) == b

ensureWriteableSpace(b, len) ==
    IF writableBytes(b) < len THEN makeBufferSpace(b, len) ELSE b

\* data copied to beginWrite(), and hasWritten.
Store(b, data) ==
    [m_buffer     |-> [i \in 0 .. b.m_size - 1 |->
                          IF i \in b.m_writeIndex .. b.m_writeIndex + Len(data) - 1
                          THEN data[i - b.m_writeIndex + 1]
                          ELSE b.m_buffer[i]],
     m_size       |-> b.m_size,
     m_readIndex  |-> b.m_readIndex,
     m_writeIndex |-> b.m_writeIndex + Len(data)]

append(b, data) == Store(ensureWriteableSpace(b, Len(data)), data)

\* The first part of data, which fits, and the rest, which readv or the client's
\* second read puts in extraBuf.
Fits(b, data) == SubSeq(data, 1, writableBytes(b))
Rest(b, data) == SubSeq(data, writableBytes(b) + 1, Len(data))

\* n bytes have room in the vector and extraBuf.  The server's readv is told the size of
\* both and reads no more; the client's second read is told bytesAvailable only, and
\* writes past the end of extraBuf when there is more.
HasRoom(b, n) == n <= writableBytes(b) + ExtraBuf

\* The server's readFd, when readv returns data.
readFd(b, data) ==
    IF Len(data) < writableBytes(b) THEN Store(b, data)
                                    ELSE append(Store(b, Fits(b, data)), Rest(b, data))

\* The client's, when data is what bytesAvailable counts and has room.
readSocket(b, data) ==
    IF Len(data) <= writableBytes(b) THEN Store(b, data)
                                     ELSE append(Store(b, Fits(b, data)), Rest(b, data))

\* Mutant: a write in part starts over.
WriteFromStart(b, n) == IF n < readableBytes(b) THEN b ELSE Skip(b, n)

\* writeFd, when write takes n bytes: the indices do not return to 0.
writeFd(b, n) == Skip(b, n)
=============================================================================
