---------------------------- MODULE StreamProofs ----------------------------
(***************************************************************************)
(* One connection, for every size of the vectors and for all messages.     *)
(* First the Buffer: whatever it compacts, grows or leaves behind, it is a *)
(* queue of bytes.  Then the headings; then the connection, whose bytes    *)
(* reach the other side in order and are taken apart as they were written. *)
(***************************************************************************)
EXTENDS Stream, SequenceTheorems, FiniteSetTheorems, TLAPS

USE BufferAssumption

\* The reader has not passed the writer.
IsQueue(b) == IsBuffer(b) /\ b.m_readIndex <= b.m_writeIndex

LEMMA NewBufferIsEmpty == IsQueue(NewBuffer) /\ Readable(NewBuffer) = <<>>
<1>1. IsQueue(NewBuffer)
    BY DEF NewBuffer, IsQueue, IsBuffer, Byte
<1>2. Readable(NewBuffer) = <<>>
    BY DEF NewBuffer, Readable, Peek, readableBytes
<1> QED
    BY <1>1, <1>2

\* The bytes behind m_readIndex are bytes as long as they are in the vector.
LEMMA PeekType ==
    ASSUME NEW b, IsBuffer(b), NEW n \in Nat, b.m_readIndex + n <= b.m_size
    PROVE  /\ Peek(b, n) \in Seq(Byte)
           /\ Len(Peek(b, n)) = n
           /\ \A i \in 1 .. n : Peek(b, n)[i] = b.m_buffer[b.m_readIndex + i - 1]
<1>1. \A i \in 1 .. n : b.m_buffer[b.m_readIndex + i - 1] \in Byte
    BY DEF IsBuffer
<1>2. Peek(b, n) \in [1 .. n -> Byte]
    BY <1>1 DEF Peek
<1>3. Peek(b, n) \in Seq(Byte) /\ Len(Peek(b, n)) = n
    BY <1>2, IsASeq, SeqDef, LenProperties
<1> QED
    BY <1>3 DEF Peek

LEMMA ReadableType ==
    ASSUME NEW b, IsQueue(b)
    PROVE  /\ Readable(b) \in Seq(Byte)
           /\ readableBytes(b) \in Nat
           /\ Len(Readable(b)) = readableBytes(b)
           /\ \A i \in 1 .. readableBytes(b) :
                 Readable(b)[i] = b.m_buffer[b.m_readIndex + i - 1]
<1>1. readableBytes(b) \in Nat /\ b.m_readIndex + readableBytes(b) <= b.m_size
    BY DEF IsQueue, IsBuffer, readableBytes
<1> QED
    BY <1>1, PeekType DEF IsQueue, Readable

\* What has to be shown for a buffer to hold s.
LEMMA ReadableIs ==
    ASSUME NEW b, IsQueue(b), NEW s \in Seq(Byte), Len(s) = readableBytes(b),
           \A i \in 1 .. readableBytes(b) : b.m_buffer[b.m_readIndex + i - 1] = s[i]
    PROVE  Readable(b) = s
<1>1. \A i \in 1 .. Len(Readable(b)) : Readable(b)[i] = s[i]
    BY ReadableType
<1> QED
    BY <1>1, ReadableType, SeqEqual

-----------------------------------------------------------------------------

\* What fits behind m_writeIndex is written there.
LEMMA StoreType ==
    ASSUME NEW b, IsBuffer(b), NEW data \in Seq(Byte), Len(data) <= writableBytes(b)
    PROVE  /\ IsBuffer(Store(b, data))
           /\ Store(b, data).m_size = b.m_size
           /\ Store(b, data).m_readIndex = b.m_readIndex
           /\ Store(b, data).m_writeIndex = b.m_writeIndex + Len(data)
           /\ Store(b, data).m_buffer =
                 [i \in 0 .. b.m_size - 1 |->
                     IF i \in b.m_writeIndex .. b.m_writeIndex + Len(data) - 1
                     THEN data[i - b.m_writeIndex + 1] ELSE b.m_buffer[i]]
<1> DEFINE c == Store(b, data)
<1>1. Len(data) \in Nat /\ \A i \in 1 .. Len(data) : data[i] \in Byte
    BY ElementOfSeq
<1>2. /\ c.m_size = b.m_size /\ c.m_readIndex = b.m_readIndex
      /\ c.m_writeIndex = b.m_writeIndex + Len(data)
      /\ c.m_buffer = [i \in 0 .. b.m_size - 1 |->
                          IF i \in b.m_writeIndex .. b.m_writeIndex + Len(data) - 1
                          THEN data[i - b.m_writeIndex + 1] ELSE b.m_buffer[i]]
    BY DEF Store
<1>3. c.m_buffer \in [0 .. c.m_size - 1 -> Byte]
    <2>1. \A i \in 0 .. b.m_size - 1 : c.m_buffer[i] \in Byte
        BY <1>1, <1>2 DEF IsBuffer
    <2> QED
        BY <1>2, <2>1
<1>4. IsBuffer(c)
    <2>1. c.m_readIndex \in 0 .. c.m_size /\ c.m_writeIndex \in 0 .. c.m_size
          /\ c.m_size \in Nat
        BY <1>1, <1>2 DEF IsBuffer, writableBytes
    <2> QED
        BY <1>3, <2>1 DEF IsBuffer, Store
<1> QED
    BY <1>2, <1>4

\* It is readable after what was.
LEMMA StoreAtEnd ==
    ASSUME NEW b, IsQueue(b), NEW data \in Seq(Byte), Len(data) <= writableBytes(b)
    PROVE  /\ IsQueue(Store(b, data))
           /\ Readable(Store(b, data)) = Readable(b) \o data
           /\ Store(b, data).m_size = b.m_size
<1> DEFINE c == Store(b, data)
<1>1. Len(data) \in Nat
    BY LenProperties
<1>2. /\ IsBuffer(c)
      /\ c.m_size = b.m_size /\ c.m_readIndex = b.m_readIndex
      /\ c.m_writeIndex = b.m_writeIndex + Len(data)
      /\ c.m_buffer = [i \in 0 .. b.m_size - 1 |->
                          IF i \in b.m_writeIndex .. b.m_writeIndex + Len(data) - 1
                          THEN data[i - b.m_writeIndex + 1] ELSE b.m_buffer[i]]
    BY StoreType DEF IsQueue
<1>4. IsQueue(c)
    <2>1. c.m_readIndex <= c.m_writeIndex
        BY <1>1, <1>2 DEF IsQueue, IsBuffer
    <2> QED
        BY <1>2, <2>1 DEF IsQueue
<1>5. Readable(c) = Readable(b) \o data
    <2>1. readableBytes(c) = readableBytes(b) + Len(data)
        BY <1>1, <1>2 DEF readableBytes, IsQueue, IsBuffer
    <2>2. Readable(b) \in Seq(Byte) /\ Len(Readable(b)) = readableBytes(b)
          /\ readableBytes(b) \in Nat
        BY ReadableType
    <2>3. /\ Readable(b) \o data \in Seq(Byte)
          /\ Len(Readable(b) \o data) = readableBytes(b) + Len(data)
          /\ \A i \in 1 .. readableBytes(b) + Len(data) :
                (Readable(b) \o data)[i] = IF i <= readableBytes(b) THEN Readable(b)[i]
                                           ELSE data[i - readableBytes(b)]
        <3>1. \A s \in Seq(Byte) :
                 /\ s \o data \in Seq(Byte)
                 /\ Len(s \o data) = Len(s) + Len(data)
                 /\ \A i \in 1 .. Len(s) + Len(data) :
                       (s \o data)[i] = IF i <= Len(s) THEN s[i] ELSE data[i - Len(s)]
            BY ConcatProperties
        <3> QED
            BY <2>2, <3>1
    <2>4. ASSUME NEW i \in 1 .. readableBytes(b) + Len(data)
          PROVE  c.m_buffer[b.m_readIndex + i - 1] = (Readable(b) \o data)[i]
        <3> DEFINE j == b.m_readIndex + i - 1
        <3>1. j \in 0 .. b.m_size - 1
            BY <1>1 DEF IsQueue, IsBuffer, readableBytes, writableBytes
        <3>2. CASE i <= readableBytes(b)
            <4>1. j \notin b.m_writeIndex .. b.m_writeIndex + Len(data) - 1
                BY <1>1, <3>2 DEF IsQueue, IsBuffer, readableBytes
            <4>2. c.m_buffer[j] = b.m_buffer[j]
                BY <1>2, <3>1, <4>1
            <4>3. Readable(b)[i] = b.m_buffer[j]
                BY <2>2, <3>2, ReadableType
            <4> QED
                BY <2>3, <3>2, <4>2, <4>3
        <3>3. CASE i > readableBytes(b)
            <4>1. j \in b.m_writeIndex .. b.m_writeIndex + Len(data) - 1
                  /\ j - b.m_writeIndex + 1 = i - readableBytes(b)
                BY <1>1, <3>3 DEF IsQueue, IsBuffer, readableBytes
            <4>2. c.m_buffer[j] = data[j - b.m_writeIndex + 1]
                BY <1>2, <3>1, <4>1
            <4> QED
                BY <2>2, <2>3, <3>3, <4>1, <4>2
        <3> QED
            BY <2>2, <3>2, <3>3
    <2> HIDE DEF c
    <2> QED
        BY <1>2, <1>4, <2>1, <2>3, <2>4, ReadableIs
<1> QED
    BY <1>2, <1>4, <1>5

\* Growing and compacting keep what is readable.
LEMMA SpaceKeepsReadable ==
    ASSUME NEW b, IsQueue(b), NEW len \in Nat
    PROVE  LET c == ensureWriteableSpace(b, len)
           IN  /\ IsQueue(c)
               /\ Readable(c) = Readable(b)
               /\ writableBytes(c) >= len
<1> DEFINE c == ensureWriteableSpace(b, len)
<1> USE DEF IsQueue, IsBuffer
<1>0. Readable(b) \in Seq(Byte) /\ Len(Readable(b)) = readableBytes(b)
      /\ readableBytes(b) \in Nat
      /\ \A i \in 1 .. readableBytes(b) :
            Readable(b)[i] = b.m_buffer[b.m_readIndex + i - 1]
    BY ReadableType
<1>1. CASE writableBytes(b) >= len
    <2>1. c = b
        BY <1>1 DEF ensureWriteableSpace, writableBytes
    <2> QED
        BY <1>1, <2>1
<1>2. CASE writableBytes(b) < len /\ writableBytes(b) + prependableBytes(b) < len
    <2> DEFINE n == b.m_writeIndex + len
    <2>1. c = Resize(b, n)
        BY <1>2 DEF ensureWriteableSpace, makeBufferSpace
    <2>2. n \in Nat /\ n > b.m_size
        BY <1>2 DEF writableBytes
    <2>3. /\ c.m_size = n /\ c.m_readIndex = b.m_readIndex
          /\ c.m_writeIndex = b.m_writeIndex
          /\ c.m_buffer = [i \in 0 .. n - 1 |-> IF i < b.m_size THEN b.m_buffer[i] ELSE 0]
        BY <2>1 DEF Resize
    <2>4. c.m_buffer \in [0 .. c.m_size - 1 -> Byte]
        <3>0. 0 \in Byte
            BY DEF Byte
        <3>1. \A i \in 0 .. b.m_size - 1 : b.m_buffer[i] \in Byte
            OBVIOUS
        <3>2. ASSUME NEW i \in 0 .. n - 1
              PROVE  (IF i < b.m_size THEN b.m_buffer[i] ELSE 0) \in Byte
            <4>1. CASE i < b.m_size
                BY <3>1, <4>1
            <4>2. CASE ~(i < b.m_size)
                BY <3>0, <4>2
            <4> QED
                BY <4>1, <4>2
        <3> QED
            BY <2>3, <3>2
    <2>5. IsQueue(c)
        BY <2>1, <2>2, <2>3, <2>4 DEF Resize
    <2>6. readableBytes(c) = readableBytes(b) /\ writableBytes(c) = len
        BY <2>2, <2>3 DEF readableBytes, writableBytes
    <2>7. \A i \in 1 .. readableBytes(b) :
             c.m_buffer[c.m_readIndex + i - 1] = b.m_buffer[b.m_readIndex + i - 1]
        BY <2>2, <2>3 DEF readableBytes
    <2>8. Readable(c) = Readable(b)
        <3> HIDE DEF c
        <3> QED
            BY <1>0, <2>5, <2>6, <2>7, ReadableIs
    <2> QED
        BY <2>5, <2>6, <2>8
<1>3. CASE writableBytes(b) < len /\ ~(writableBytes(b) + prependableBytes(b) < len)
    <2>1. c = Compact(b)
        BY <1>3 DEF ensureWriteableSpace, makeBufferSpace
    <2>2. readableBytes(b) \in 0 .. b.m_size
        BY DEF readableBytes
    <2>3. /\ c.m_size = b.m_size /\ c.m_readIndex = 0
          /\ c.m_writeIndex = readableBytes(b)
          /\ c.m_buffer = [i \in 0 .. b.m_size - 1 |->
                              IF i < readableBytes(b) THEN b.m_buffer[b.m_readIndex + i]
                                                      ELSE b.m_buffer[i]]
        BY <2>1 DEF Compact
    <2>4. c.m_buffer \in [0 .. c.m_size - 1 -> Byte]
        <3>1. \A i \in 0 .. b.m_size - 1 : b.m_buffer[i] \in Byte
            OBVIOUS
        <3>2. ASSUME NEW i \in 0 .. b.m_size - 1
              PROVE  (IF i < readableBytes(b) THEN b.m_buffer[b.m_readIndex + i]
                                              ELSE b.m_buffer[i]) \in Byte
            <4>1. CASE i < readableBytes(b)
                <5>1. b.m_readIndex + i \in 0 .. b.m_size - 1
                    BY <4>1 DEF readableBytes
                <5> QED
                    BY <3>1, <4>1, <5>1
            <4>2. CASE ~(i < readableBytes(b))
                BY <3>1, <4>2
            <4> QED
                BY <4>1, <4>2
        <3> QED
            BY <2>3, <3>2
    <2>5. IsQueue(c)
        BY <2>1, <2>2, <2>3, <2>4 DEF Compact
    <2>6. readableBytes(c) = readableBytes(b) /\ writableBytes(c) >= len
        BY <1>3, <2>2, <2>3 DEF readableBytes, writableBytes, prependableBytes
    <2>7. \A i \in 1 .. readableBytes(b) :
             c.m_buffer[c.m_readIndex + i - 1] = b.m_buffer[b.m_readIndex + i - 1]
        BY <2>2, <2>3 DEF readableBytes
    <2>8. Readable(c) = Readable(b)
        <3> HIDE DEF c
        <3> QED
            BY <1>0, <2>5, <2>6, <2>7, ReadableIs
    <2> QED
        BY <2>5, <2>6, <2>8
<1> QED
    BY <1>1, <1>2, <1>3 DEF writableBytes, prependableBytes

\* append puts its bytes at the end of the queue, whatever room it has to make.
THEOREM BytesAppendedAtEnd ==
    ASSUME NEW b, IsQueue(b), NEW data \in Seq(Byte)
    PROVE  /\ IsQueue(append(b, data))
           /\ Readable(append(b, data)) = Readable(b) \o data
<1>1. Len(data) \in Nat
    BY LenProperties
<1>2. PICK c : c = ensureWriteableSpace(b, Len(data))
    OBVIOUS
<1>3. IsQueue(c) /\ Readable(c) = Readable(b) /\ writableBytes(c) >= Len(data)
    BY <1>1, <1>2, SpaceKeepsReadable
<1>4. Len(data) <= writableBytes(c)
    BY <1>1, <1>3 DEF IsQueue, IsBuffer, writableBytes
<1>5. IsQueue(Store(c, data)) /\ Readable(Store(c, data)) = Readable(c) \o data
    BY <1>3, <1>4, StoreAtEnd
<1>6. append(b, data) = Store(c, data)
    BY <1>2 DEF append
<1> QED
    BY <1>3, <1>5, <1>6

\* The two parts of data that does not fit.
LEMMA PartsType ==
    ASSUME NEW b, IsBuffer(b), NEW data \in Seq(Byte), writableBytes(b) <= Len(data)
    PROVE  /\ Len(data) \in Nat /\ writableBytes(b) \in 0 .. Len(data)
           /\ Fits(b, data) \in Seq(Byte) /\ Len(Fits(b, data)) = writableBytes(b)
           /\ Rest(b, data) \in Seq(Byte)
<1>0. Len(data) \in Nat /\ (\A i \in 1 .. Len(data) : data[i] \in Byte)
      /\ writableBytes(b) \in 0 .. Len(data)
    BY ElementOfSeq DEF IsBuffer, writableBytes
<1>1. Fits(b, data) \in Seq(Byte) /\ Len(Fits(b, data)) = writableBytes(b)
    <2>1. \A i \in 1 .. writableBytes(b) : data[i] \in Byte
        BY <1>0
    <2>2. /\ SubSeq(data, 1, writableBytes(b)) \in Seq(Byte)
          /\ Len(SubSeq(data, 1, writableBytes(b)))
                = IF 1 <= writableBytes(b) THEN writableBytes(b) - 1 + 1 ELSE 0
        BY <1>0, <2>1, SubSeqProperties
    <2> QED
        BY <1>0, <2>2 DEF Fits
<1>2. Rest(b, data) \in Seq(Byte)
    <2>1. \A i \in writableBytes(b) + 1 .. Len(data) : data[i] \in Byte
        BY <1>0
    <2>2. SubSeq(data, writableBytes(b) + 1, Len(data)) \in Seq(Byte)
        BY <1>0, <2>1, SubSeqProperties
    <2> QED
        BY <2>2 DEF Rest
<1> QED
    BY <1>0, <1>1, <1>2

\* readFd and the client's, which fill the vector before they append the rest.
LEMMA FitsAndRest ==
    ASSUME NEW b, IsQueue(b), NEW data \in Seq(Byte), writableBytes(b) <= Len(data)
    PROVE  /\ IsQueue(append(Store(b, Fits(b, data)), Rest(b, data)))
           /\ Readable(append(Store(b, Fits(b, data)), Rest(b, data))) = Readable(b) \o data
<1>0. Len(data) \in Nat /\ writableBytes(b) \in 0 .. Len(data)
    BY PartsType DEF IsQueue
<1>1. Fits(b, data) \in Seq(Byte) /\ Len(Fits(b, data)) = writableBytes(b)
    BY PartsType DEF IsQueue
<1>2. Rest(b, data) \in Seq(Byte)
    BY PartsType DEF IsQueue
<1>3. Fits(b, data) \o Rest(b, data) = data
    <2>1. /\ 1 \in 1 .. Len(data) + 1
          /\ writableBytes(b) \in 1 - 1 .. Len(data)
          /\ Len(data) \in writableBytes(b) .. Len(data)
        BY <1>0
    <2>2. SubSeq(data, 1, writableBytes(b)) \o SubSeq(data, writableBytes(b) + 1, Len(data))
             = SubSeq(data, 1, Len(data))
        BY <2>1, ConcatAdjacentSubSeq
    <2> QED
        BY <2>2, SubSeqFull DEF Fits, Rest
<1>4. /\ IsQueue(Store(b, Fits(b, data)))
      /\ Readable(Store(b, Fits(b, data))) = Readable(b) \o Fits(b, data)
    BY <1>0, <1>1, StoreAtEnd
<1>5. /\ IsQueue(append(Store(b, Fits(b, data)), Rest(b, data)))
      /\ Readable(append(Store(b, Fits(b, data)), Rest(b, data)))
            = (Readable(b) \o Fits(b, data)) \o Rest(b, data)
    BY <1>2, <1>4, BytesAppendedAtEnd
<1>6. (Readable(b) \o Fits(b, data)) \o Rest(b, data) = Readable(b) \o data
    <2>1. Readable(b) \in Seq(Byte)
        BY ReadableType
    <2>2. (Readable(b) \o Fits(b, data)) \o Rest(b, data)
             = Readable(b) \o (Fits(b, data) \o Rest(b, data))
        <3>1. \A s, t, u \in Seq(Byte) : (s \o t) \o u = s \o (t \o u)
            BY ConcatAssociative
        <3> QED
            BY <1>1, <1>2, <2>1, <3>1
    <2> QED
        BY <1>3, <2>2
<1> QED
    BY <1>5, <1>6

\* Both read everything into the queue, in order, whether it fits in the vector or not
\* (the server's readFd and the client's), as long as the vector and extraBuf together
\* have room for it: what the client's does with more is undefined.
THEOREM BytesReadAtEnd ==
    ASSUME NEW b, IsQueue(b), NEW data \in Seq(Byte), HasRoom(b, Len(data))
    PROVE  /\ IsQueue(readFd(b, data))
           /\ Readable(readFd(b, data)) = Readable(b) \o data
           /\ IsQueue(readSocket(b, data))
           /\ Readable(readSocket(b, data)) = Readable(b) \o data
<1>1. Len(data) \in Nat /\ writableBytes(b) \in Int
    BY LenProperties DEF IsQueue, IsBuffer, writableBytes
<1>2. /\ IsQueue(readFd(b, data))
      /\ Readable(readFd(b, data)) = Readable(b) \o data
    <2>1. CASE Len(data) < writableBytes(b)
        BY <1>1, <2>1, StoreAtEnd DEF readFd
    <2>2. CASE ~(Len(data) < writableBytes(b))
        BY <1>1, <2>2, FitsAndRest DEF readFd
    <2> QED
        BY <2>1, <2>2
<1>3. /\ IsQueue(readSocket(b, data))
      /\ Readable(readSocket(b, data)) = Readable(b) \o data
    <2>1. CASE Len(data) <= writableBytes(b)
        BY <1>1, <2>1, StoreAtEnd DEF readSocket
    <2>2. CASE ~(Len(data) <= writableBytes(b))
        BY <1>1, <2>2, FitsAndRest DEF readSocket
    <2> QED
        BY <2>1, <2>2
<1> QED
    BY <1>2, <1>3

\* readFd leaves a vector and its indices even when the reader had passed the writer:
\* m_writeIndex is at the end of the vector before anything is compacted.
LEMMA ReadFdType ==
    ASSUME NEW b, IsBuffer(b), NEW data \in Seq(Byte)
    PROVE  IsBuffer(readFd(b, data))
<1>1. Len(data) \in Nat /\ writableBytes(b) \in Int
    BY LenProperties DEF IsBuffer, writableBytes
<1>2. CASE Len(data) < writableBytes(b)
    <2>1. Len(data) <= writableBytes(b)
        BY <1>1, <1>2
    <2>2. IsBuffer(Store(b, data))
        BY <2>1, StoreType
    <2> QED
        BY <1>2, <2>2 DEF readFd
<1>3. CASE ~(Len(data) < writableBytes(b))
    <2>1. Fits(b, data) \in Seq(Byte) /\ Len(Fits(b, data)) = writableBytes(b)
          /\ Rest(b, data) \in Seq(Byte)
        BY <1>1, <1>3, PartsType
    <2>2. PICK c : c = Store(b, Fits(b, data))
        OBVIOUS
    <2>3. /\ IsBuffer(c) /\ c.m_readIndex = b.m_readIndex
          /\ c.m_writeIndex = b.m_writeIndex + writableBytes(b)
        <3>1. PICK d : d = Fits(b, data)
            OBVIOUS
        <3>2. d \in Seq(Byte) /\ Len(d) = writableBytes(b) /\ Len(d) <= writableBytes(b)
            BY <1>1, <2>1, <3>1
        <3>3. /\ IsBuffer(Store(b, d)) /\ Store(b, d).m_readIndex = b.m_readIndex
              /\ Store(b, d).m_writeIndex = b.m_writeIndex + Len(d)
            BY <3>2, StoreType
        <3> QED
            BY <2>2, <3>1, <3>2, <3>3
    <2>4. IsQueue(c)
        <3>1. c.m_readIndex <= c.m_writeIndex
            BY <2>3 DEF IsBuffer, writableBytes
        <3> QED
            BY <2>3, <3>1 DEF IsQueue
    <2>5. IsQueue(append(c, Rest(b, data)))
        BY <2>1, <2>4, BytesAppendedAtEnd
    <2> QED
        BY <1>3, <2>2, <2>5 DEF readFd, IsQueue
<1> QED
    BY <1>2, <1>3

-----------------------------------------------------------------------------

\* What writeFd writes and what retrieveAsString(n) returns, Peek(b, n), is the front
\* of the queue; the rest stays.
LEMMA SkippedFromFront ==
    ASSUME NEW b, IsQueue(b), NEW n \in 0 .. readableBytes(b)
    PROVE  /\ IsQueue(Skip(b, n))
           /\ Peek(b, n) \in Seq(Byte)
           /\ Peek(b, n) \o Readable(Skip(b, n)) = Readable(b)
<1> DEFINE c == Skip(b, n)
<1>0. readableBytes(b) \in Nat /\ n \in Nat /\ b.m_readIndex + n <= b.m_size
    BY DEF IsQueue, IsBuffer, readableBytes
<1>1. /\ c.m_buffer = b.m_buffer /\ c.m_size = b.m_size
      /\ c.m_writeIndex = b.m_writeIndex /\ c.m_readIndex = b.m_readIndex + n
    BY DEF Skip, IsQueue, IsBuffer
<1>2. IsQueue(c)
    <2>1. c.m_readIndex \in 0 .. b.m_size /\ c.m_readIndex <= b.m_writeIndex
        BY <1>0, <1>1 DEF IsQueue, IsBuffer, readableBytes
    <2> QED
        BY <1>1, <2>1 DEF IsQueue, IsBuffer, Skip
<1>3. /\ Peek(b, n) \in Seq(Byte)
      /\ Len(Peek(b, n)) = n
      /\ \A i \in 1 .. n : Peek(b, n)[i] = b.m_buffer[b.m_readIndex + i - 1]
    BY <1>0, PeekType DEF IsQueue
<1>4. /\ Readable(c) \in Seq(Byte)
      /\ Len(Readable(c)) = readableBytes(b) - n
      /\ \A i \in 1 .. readableBytes(b) - n :
            Readable(c)[i] = b.m_buffer[b.m_readIndex + n + i - 1]
    <2>1. /\ Readable(c) \in Seq(Byte)
          /\ Len(Readable(c)) = readableBytes(c)
          /\ \A i \in 1 .. readableBytes(c) :
                Readable(c)[i] = c.m_buffer[c.m_readIndex + i - 1]
        <3> HIDE DEF c
        <3> QED
            BY <1>2, ReadableType
    <2>2. readableBytes(c) = readableBytes(b) - n
        BY <1>1 DEF readableBytes, IsQueue, IsBuffer
    <2> HIDE DEF c
    <2> QED
        BY <1>0, <1>1, <2>1, <2>2
<1> HIDE DEF c
<1>5. Peek(b, n) \o Readable(c) = Readable(b)
    <2>1. /\ Peek(b, n) \o Readable(c) \in Seq(Byte)
          /\ Len(Peek(b, n) \o Readable(c)) = readableBytes(b)
          /\ \A i \in 1 .. readableBytes(b) :
                (Peek(b, n) \o Readable(c))[i]
                    = IF i <= n THEN Peek(b, n)[i] ELSE Readable(c)[i - n]
        <3>1. n + (readableBytes(b) - n) = readableBytes(b)
            BY <1>0
        <3>2. /\ Peek(b, n) \o Readable(c) \in Seq(Byte)
              /\ Len(Peek(b, n) \o Readable(c)) = Len(Peek(b, n)) + Len(Readable(c))
              /\ \A i \in 1 .. Len(Peek(b, n)) + Len(Readable(c)) :
                    (Peek(b, n) \o Readable(c))[i]
                        = IF i <= Len(Peek(b, n)) THEN Peek(b, n)[i]
                          ELSE Readable(c)[i - Len(Peek(b, n))]
            BY <1>3, <1>4, ConcatProperties
        <3> QED
            BY <1>3, <1>4, <3>1, <3>2
    <2>2. ASSUME NEW i \in 1 .. readableBytes(b)
          PROVE  b.m_buffer[b.m_readIndex + i - 1] = (Peek(b, n) \o Readable(c))[i]
        <3>1. CASE i <= n
            BY <1>0, <1>3, <2>1, <3>1
        <3>2. CASE ~(i <= n)
            <4>1. i - n \in 1 .. readableBytes(b) - n
                BY <1>0, <3>2
            <4>2. b.m_readIndex + n + (i - n) - 1 = b.m_readIndex + i - 1
                BY <1>0 DEF IsQueue, IsBuffer
            <4> QED
                BY <1>4, <2>1, <3>2, <4>1, <4>2
        <3> QED
            BY <3>1, <3>2
    <2> QED
        BY <2>1, <2>2, ReadableIs
<1> QED
    BY <1>2, <1>3, <1>5 DEF c

\* A reader that has passed the writer is still in the vector.
LEMMA SkipType ==
    ASSUME NEW b, IsBuffer(b), NEW n \in Nat, b.m_readIndex + n <= b.m_size
    PROVE  /\ IsBuffer(Skip(b, n))
           /\ IsBuffer(retrieveAsString(b, n))
           /\ Skip(b, n).m_size = b.m_size
           /\ Skip(b, n).m_readIndex = b.m_readIndex + n
           /\ Skip(b, n).m_writeIndex = b.m_writeIndex
<1>1. /\ Skip(b, n).m_size = b.m_size
      /\ Skip(b, n).m_readIndex = b.m_readIndex + n
      /\ Skip(b, n).m_writeIndex = b.m_writeIndex
    BY DEF Skip, IsBuffer
<1>2. IsBuffer(Skip(b, n))
    <2>1. b.m_readIndex + n \in 0 .. b.m_size
        BY DEF IsBuffer
    <2> QED
        BY <1>1, <2>1 DEF IsBuffer, Skip
<1>3. IsBuffer(retrieveAll(b))
    <2>1. 0 \in 0 .. b.m_size
        BY DEF IsBuffer
    <2> QED
        BY <2>1 DEF retrieveAll, IsBuffer
<1> QED
    BY <1>1, <1>2, <1>3 DEF retrieveAsString

\* retrieveAsString returns the front of the queue and leaves the rest, whether the
\* indices return to 0 or not.
THEOREM BytesRetrievedFromFront ==
    ASSUME NEW b, IsQueue(b), NEW n \in 0 .. readableBytes(b)
    PROVE  /\ IsQueue(retrieveAsString(b, n))
           /\ Peek(b, n) \o Readable(retrieveAsString(b, n)) = Readable(b)
<1>1. CASE b.m_readIndex + n # b.m_writeIndex
    BY <1>1, SkippedFromFront DEF retrieveAsString
<1>2. CASE b.m_readIndex + n = b.m_writeIndex
    <2>1. retrieveAsString(b, n) = retrieveAll(b)
        BY <1>2 DEF retrieveAsString
    <2>2. IsQueue(retrieveAll(b))
        <3>1. 0 \in 0 .. b.m_size
            BY DEF IsQueue, IsBuffer
        <3> QED
            BY <3>1 DEF retrieveAll, IsQueue, IsBuffer
    <2>3. Readable(retrieveAll(b)) = Readable(Skip(b, n))
        <3>1. readableBytes(Skip(b, n)) = 0
            BY <1>2 DEF Skip, readableBytes, IsQueue, IsBuffer
        <3>2. readableBytes(retrieveAll(b)) = 0
            BY DEF retrieveAll, readableBytes, IsQueue, IsBuffer
        <3> QED
            BY <3>1, <3>2 DEF Readable, Peek
    <2> QED
        BY <2>1, <2>2, <2>3, SkippedFromFront
<1> QED
    BY <1>1, <1>2

-----------------------------------------------------------------------------

\* The bytes of one direction.
Direction ==
    [msgs : Seq(Messages), bytes : Seq(Byte), ends : SUBSET Nat, read : Nat,
     torn : BOOLEAN]

BytesOK ==
    /\ messages \in Direction
    /\ messages.read <= Len(messages.bytes)
    /\ toServer \in Seq(Byte)
    /\ toClient \in Seq(Byte)

\* The two buffers that only assertions and what is readable move on in.
QueuesOK == IsQueue(outBuffer) /\ IsQueue(clientBuffer)

Inv == TypeOK /\ BytesOK /\ QueuesOK /\ OutBufferIsQueue

-----------------------------------------------------------------------------

LEMMA BytesAssociative == \A s, t, u \in Seq(Byte) : (s \o t) \o u = s \o (t \o u)
    BY ConcatAssociative

\* A heading is eight bytes.
LEMMA EncodeType ==
    ASSUME NEW h, h.protocolId \in Nat, h.account \in Nat, h.dataType \in Nat,
           h.dataLength \in Nat
    PROVE  encode(h) \in Seq(Byte) /\ Len(encode(h)) = 8
<1>1. \A d \in Nat : /\ ByteAt(d, 1) \in Byte /\ ByteAt(d, 256) \in Byte
                     /\ ByteAt(d, 65536) \in Byte /\ ByteAt(d, 16777216) \in Byte
    BY DEF ByteAt, Byte
<1> QED
    BY <1>1 DEF encode

\* What either side reads of eight bytes.
LEMMA HeadType ==
    ASSUME NEW s, \A i \in 1 .. 8 : s[i] \in Byte
    PROVE  parseHead(s).dataLength \in Nat /\ baseParse(s).dataLength \in Nat
<1>1. s[5] \in Nat /\ s[6] \in Nat /\ s[7] \in Nat /\ s[8] \in Nat
    <2>1. s[5] \in Byte /\ s[6] \in Byte /\ s[7] \in Byte /\ s[8] \in Byte
        OBVIOUS
    <2>2. \A x \in Byte : x \in Nat
        BY DEF Byte
    <2> QED
        BY <2>1, <2>2
<1> QED
    BY <1>1 DEF parseHead, baseParse, Long

\* The reader of a heading finds what its writer meant as long as each number fits its
\* bytes: an account above MaxAccount would come out as another one.
THEOREM HeadingRoundTrip ==
    ASSUME NEW h, h.protocolId \in 0 .. 255, h.account \in Nat, h.account <= MaxAccount,
           h.dataType \in 0 .. 255, h.dataLength \in Nat, h.dataLength < 4294967296
    PROVE  /\ parseHead(encode(h)) =
                 [protocolId |-> h.protocolId, account |-> h.account,
                  dataType |-> h.dataType, dataLength |-> h.dataLength]
           /\ baseParse(encode(h)) = parseHead(encode(h))
<1>1. \A d \in 0 .. 255 : ByteAt(d, 1) = d
    BY DEF ByteAt
<1>2. 256 * ByteAt(h.account, 256) + ByteAt(h.account, 1) = h.account
    BY DEF ByteAt, MaxAccount
<1>3. 16777216 * ByteAt(h.dataLength, 16777216) + 65536 * ByteAt(h.dataLength, 65536)
         + 256 * ByteAt(h.dataLength, 256) + ByteAt(h.dataLength, 1) = h.dataLength
    <2>1. PICK x \in Nat : x = h.dataLength /\ x < 4294967296
        BY SMT
    <2>2. 256 * (x \div 256) + ByteAt(x, 1) = x
        BY SMT DEF ByteAt
    <2>3. 256 * (x \div 65536) + ByteAt(x, 256) = x \div 256
        BY SMT DEF ByteAt
    <2>4. 256 * (x \div 16777216) + ByteAt(x, 65536) = x \div 65536
        BY SMT DEF ByteAt
    <2>5. ByteAt(x, 16777216) = x \div 16777216
        BY <2>1, SMT DEF ByteAt
    <2>6. /\ x \div 256 \in Nat /\ x \div 65536 \in Nat /\ x \div 16777216 \in Nat
          /\ ByteAt(x, 1) \in Nat /\ ByteAt(x, 256) \in Nat /\ ByteAt(x, 65536) \in Nat
        BY SMT DEF ByteAt
    <2> QED
        BY <2>1, <2>2, <2>3, <2>4, <2>5, <2>6, SMT
<1> QED
    BY <1>1, <1>2, <1>3 DEF parseHead, baseParse, Short, Long, encode

\* A message is its heading and its text.
LEMMA EncodedType ==
    ASSUME NEW m \in Messages
    PROVE  /\ Encoded(m) \in Seq(Byte)
           /\ SubSeq(Encoded(m), 1, SIZE_BUFFER_HEAD) \in Seq(Byte)
           /\ m.text \in Seq(Byte)
           /\ SubSeq(Encoded(m), 1, SIZE_BUFFER_HEAD) \o m.text = Encoded(m)
<1> DEFINE f == [protocolId |-> m.protocolId, account |-> m.account,
                 dataType |-> TEXT, dataLength |-> Len(m.text)]
           h == encode(f)
<1>1. m.text \in Seq(Byte) /\ Len(m.text) \in Nat
    <2> HIDE DEF f
    <2>1. m.text \in Seq(Byte)
        BY DEF Messages
    <2>2. \A s \in Seq(Byte) : Len(s) \in Nat
        BY LenProperties
    <2> QED
        BY <2>1, <2>2
<1>2. h \in Seq(Byte) /\ Len(h) = 8
    <2>1. /\ f.protocolId \in Nat /\ f.account \in Nat
          /\ f.dataType \in Nat /\ f.dataLength \in Nat
        <3>1. MaxAccount \in Nat /\ TEXT \in Nat
            BY DEF MaxAccount, TEXT
        <3> QED
            BY <1>1, <3>1 DEF Messages
    <2> HIDE DEF f
    <2> QED
        BY <2>1, EncodeType
<1>3. Encoded(m) = h \o m.text
    BY DEF Encoded
<1> HIDE DEF h
<1>4. h \o m.text \in Seq(Byte)
    BY <1>1, <1>2, ConcatProperties
<1>5. SubSeq(h \o m.text, 1, 8) = h
    <2>1. SubSeq(h \o m.text, 1, 8) = SubSeq(h, 1, 8)
        <3>1. 1 \in 1 .. Len(h) /\ 8 \in 1 .. Len(h)
            BY <1>2
        <3> QED
            BY <1>1, <1>2, <3>1, SubSeqOfConcat1
    <2> QED
        BY <1>2, <2>1, SubSeqFull
<1> QED
    BY <1>1, <1>2, <1>3, <1>4, <1>5 DEF SIZE_BUFFER_HEAD

\* What is left of s behind its first r bytes.
LEMMA LastBytes ==
    ASSUME NEW s \in Seq(Byte), NEW r \in 0 .. Len(s)
    PROVE  /\ SubSeq(s, r + 1, Len(s)) \in Seq(Byte)
           /\ Len(SubSeq(s, r + 1, Len(s))) = Len(s) - r
           /\ \A i \in 1 .. Len(s) - r : SubSeq(s, r + 1, Len(s))[i] = s[r + i]
<1>1. Len(s) \in Nat /\ \A i \in 1 .. Len(s) : s[i] \in Byte
    BY ElementOfSeq
<1>2. \A i \in r + 1 .. Len(s) : s[i] \in Byte
    BY <1>1
<1>3. r + 1 \in Int /\ Len(s) \in Int
    BY <1>1
<1>4. /\ SubSeq(s, r + 1, Len(s)) \in Seq(Byte)
      /\ Len(SubSeq(s, r + 1, Len(s))) = IF r + 1 <= Len(s) THEN Len(s) - (r + 1) + 1 ELSE 0
      /\ \A i \in 1 .. Len(s) - (r + 1) + 1 : SubSeq(s, r + 1, Len(s))[i] = s[r + 1 + i - 1]
    BY <1>2, <1>3, SubSeqProperties
<1> QED
    BY <1>1, <1>4

\* What is written comes behind what has not been read.
LEMMA UnreadGrows ==
    ASSUME NEW s \in Seq(Byte), NEW t \in Seq(Byte), NEW r \in 0 .. Len(s)
    PROVE  SubSeq(s \o t, r + 1, Len(s \o t)) = SubSeq(s, r + 1, Len(s)) \o t
<1> DEFINE u == SubSeq(s \o t, r + 1, Len(s \o t))
           v == SubSeq(s, r + 1, Len(s))
<1>0. Len(s) \in Nat /\ Len(t) \in Nat
    BY LenProperties
<1>1. /\ s \o t \in Seq(Byte) /\ Len(s \o t) = Len(s) + Len(t)
      /\ \A i \in 1 .. Len(s) + Len(t) :
            (s \o t)[i] = IF i <= Len(s) THEN s[i] ELSE t[i - Len(s)]
    BY ConcatProperties
<1>2. /\ u \in Seq(Byte) /\ Len(u) = Len(s) + Len(t) - r
      /\ \A i \in 1 .. Len(s) + Len(t) - r : u[i] = (s \o t)[r + i]
    <2>1. r \in 0 .. Len(s \o t)
        BY <1>0, <1>1
    <2>2. /\ u \in Seq(Byte) /\ Len(u) = Len(s \o t) - r
          /\ \A i \in 1 .. Len(s \o t) - r : u[i] = (s \o t)[r + i]
        BY <1>1, <2>1, LastBytes
    <2> HIDE DEF u
    <2> QED
        BY <1>1, <2>2
<1>3. /\ v \in Seq(Byte) /\ Len(v) = Len(s) - r
      /\ \A i \in 1 .. Len(s) - r : v[i] = s[r + i]
    BY LastBytes
<1> HIDE DEF u, v
<1>4. /\ v \o t \in Seq(Byte) /\ Len(v \o t) = Len(v) + Len(t)
      /\ \A i \in 1 .. Len(v) + Len(t) :
            (v \o t)[i] = IF i <= Len(v) THEN v[i] ELSE t[i - Len(v)]
    BY <1>3, ConcatProperties
<1>5. ASSUME NEW i \in 1 .. Len(s) + Len(t) - r
      PROVE  u[i] = (v \o t)[i]
    <2>1. u[i] = (s \o t)[r + i] /\ r + i \in 1 .. Len(s) + Len(t)
        BY <1>0, <1>2
    <2>2. CASE i <= Len(s) - r
        BY <1>0, <1>1, <1>3, <1>4, <2>1, <2>2
    <2>3. CASE ~(i <= Len(s) - r)
        <3>1. r + i - Len(s) = i - (Len(s) - r) /\ ~(r + i <= Len(s))
            BY <1>0, <2>3
        <3>2. (s \o t)[r + i] = t[r + i - Len(s)]
            BY <1>1, <2>1, <3>1
        <3>3. i \in 1 .. Len(v) + Len(t) /\ ~(i <= Len(v)) /\ Len(v) = Len(s) - r
            BY <1>0, <1>3, <2>3
        <3>4. (v \o t)[i] = t[i - (Len(s) - r)]
            BY <1>4, <3>3
        <3> QED
            BY <2>1, <3>1, <3>2, <3>4
    <2> QED
        BY <2>2, <2>3
<1>6. Len(u) = Len(v \o t)
    BY <1>0, <1>2, <1>3, <1>4
<1>7. u = v \o t
    BY <1>2, <1>4, <1>5, <1>6, SeqEqual
<1> QED
    BY <1>7 DEF u, v

\* What is read is no longer unread.
LEMMA UnreadShrinks ==
    \A q, z, s \in Seq(Byte) : \A r \in 0 .. Len(s), n \in 0 .. Len(q) :
        q \o z = SubSeq(s, r + 1, Len(s)) =>
            /\ SubSeq(q, n + 1, Len(q)) \in Seq(Byte)
            /\ r + n \in 0 .. Len(s)
            /\ SubSeq(q, n + 1, Len(q)) \o z = SubSeq(s, r + n + 1, Len(s))
<1> SUFFICES ASSUME NEW q \in Seq(Byte), NEW z \in Seq(Byte), NEW s \in Seq(Byte),
                    NEW r \in 0 .. Len(s), NEW n \in 0 .. Len(q),
                    q \o z = SubSeq(s, r + 1, Len(s))
             PROVE  /\ SubSeq(q, n + 1, Len(q)) \in Seq(Byte)
                    /\ r + n \in 0 .. Len(s)
                    /\ SubSeq(q, n + 1, Len(q)) \o z = SubSeq(s, r + n + 1, Len(s))
    OBVIOUS
<1> DEFINE p == SubSeq(q, n + 1, Len(q))
           u == SubSeq(s, r + 1, Len(s))
           v == SubSeq(s, r + n + 1, Len(s))
<1>0. Len(q) \in Nat /\ Len(z) \in Nat /\ Len(s) \in Nat
    BY LenProperties
<1>1. /\ q \o z \in Seq(Byte) /\ Len(q \o z) = Len(q) + Len(z)
      /\ \A i \in 1 .. Len(q) + Len(z) :
            (q \o z)[i] = IF i <= Len(q) THEN q[i] ELSE z[i - Len(q)]
    BY ConcatProperties
<1>2. u \in Seq(Byte) /\ Len(u) = Len(s) - r /\ \A i \in 1 .. Len(s) - r : u[i] = s[r + i]
    BY LastBytes
<1>3. Len(q) + Len(z) = Len(s) - r /\ q \o z = u
    BY <1>1, <1>2
<1>4. r + n \in 0 .. Len(s)
    BY <1>0, <1>3
<1>5. /\ v \in Seq(Byte) /\ Len(v) = Len(s) - (r + n)
      /\ \A i \in 1 .. Len(s) - (r + n) : v[i] = s[r + n + i]
    BY <1>4, LastBytes
<1>6. p \in Seq(Byte) /\ Len(p) = Len(q) - n /\ \A i \in 1 .. Len(q) - n : p[i] = q[n + i]
    BY LastBytes
<1> HIDE DEF p, u, v
<1>7. /\ p \o z \in Seq(Byte) /\ Len(p \o z) = Len(p) + Len(z)
      /\ \A i \in 1 .. Len(p) + Len(z) :
            (p \o z)[i] = IF i <= Len(p) THEN p[i] ELSE z[i - Len(p)]
    BY <1>6, ConcatProperties
<1>8. ASSUME NEW i \in 1 .. Len(s) - (r + n)
      PROVE  v[i] = (p \o z)[i]
    <2>0. PICK k \in Int : k = n + i
        BY <1>0
    <2>1. Len(p) = Len(q) - n
        BY <1>6
    <2>2. /\ v[i] = s[r + k] /\ k \in 1 .. Len(s) - r
          /\ k \in 1 .. Len(q) + Len(z) /\ i \in 1 .. Len(p) + Len(z)
        <3>1. v[i] = s[r + n + i]
            BY <1>5
        <3>2. r + n + i = r + k
            BY <1>0, <2>0
        <3>3. /\ k \in 1 .. Len(s) - r
              /\ k \in 1 .. Len(q) + Len(z) /\ i \in 1 .. Len(p) + Len(z)
            BY <1>0, <1>3, <2>0, <2>1
        <3> QED
            BY <3>1, <3>2, <3>3
    <2>3. s[r + k] = (q \o z)[k]
        BY <1>2, <1>3, <2>2
    <2>4. CASE i <= Len(q) - n
        <3>1. k <= Len(q) /\ i \in 1 .. Len(q) - n
            BY <1>0, <2>0, <2>4
        <3>2. (q \o z)[k] = q[k]
            BY <1>1, <2>2, <3>1
        <3>3. p[i] = q[k]
            BY <1>6, <2>0, <3>1
        <3>4. (p \o z)[i] = p[i]
            BY <1>7, <2>1, <2>2, <2>4
        <3> QED
            BY <2>2, <2>3, <3>2, <3>3, <3>4
    <2>5. CASE ~(i <= Len(q) - n)
        <3>1. k - Len(q) = i - Len(p) /\ ~(k <= Len(q)) /\ ~(i <= Len(p))
            BY <1>0, <2>0, <2>1, <2>5
        <3>2. (q \o z)[k] = z[k - Len(q)]
            BY <1>1, <2>2, <3>1
        <3>3. (p \o z)[i] = z[i - Len(p)]
            BY <1>7, <2>2, <3>1
        <3> QED
            BY <2>2, <2>3, <3>1, <3>2, <3>3
    <2> QED
        BY <2>4, <2>5
<1>9. Len(v) = Len(p \o z)
    <2>1. Len(v) = Len(s) - (r + n) /\ Len(p) = Len(q) - n /\ Len(p \o z) = Len(p) + Len(z)
        BY <1>5, <1>6, <1>7
    <2> QED
        BY <1>0, <1>3, <2>1
<1>10. p \o z = v
    BY <1>5, <1>7, <1>8, <1>9, SeqEqual
<1> QED
    BY <1>4, <1>6, <1>10 DEF p, v

-----------------------------------------------------------------------------

LEMMA InitInv == Init => Inv
<1> SUFFICES ASSUME Init PROVE Inv
    OBVIOUS
<1>1. IsQueue(NewBuffer) /\ Readable(NewBuffer) = <<>>
    BY NewBufferIsEmpty
<1>2. TypeOK
    BY <1>1 DEF Init, TypeOK, IsQueue
<1>3. /\ messages.bytes = <<>> /\ messages.read = 0 /\ messages \in Direction
    <2>1. <<>> \in Seq(Messages) /\ <<>> \in Seq(Byte) /\ {0} \in SUBSET Nat
        OBVIOUS
    <2> QED
        BY <2>1 DEF Init, Nothing, Direction
<1>4. Len(<<>>) = 0 /\ <<>> \in Seq(Byte)
    OBVIOUS
<1>5. BytesOK
    BY <1>3, <1>4 DEF Init, BytesOK
<1>6. QueuesOK
    BY <1>1 DEF Init, QueuesOK
<1>7. OutBufferIsQueue
    <2>1. SubSeq(messages.bytes, messages.read + 1, Len(messages.bytes)) = <<>>
        <3>1. SubSeq(<<>>, 1, 0) = <<>>
            BY SubSeqEmpty
        <3> QED
            BY <1>3, <1>4, <3>1
    <2>2. toClient \o Readable(outBuffer) = <<>>
        BY <1>1, <1>4, ConcatEmptySeq DEF Init
    <2> QED
        BY <2>1, <2>2 DEF OutBufferIsQueue
<1> QED
    BY <1>2, <1>5, <1>6, <1>7 DEF Inv

\* The client writes a request: nothing but its bytes on their way change.
LEMMA WriteTextInv ==
    ASSUME Inv, NEW m \in Requests, WriteText(m)
    PROVE  Inv'
<1>1. UNCHANGED <<inBuffer, outBuffer, clientBuffer, client, stopped, messages, toClient>>
    BY DEF WriteText, serverVars, clientVars
<1>2. toServer' \in Seq(Byte)
    <2>1. Encoded(m) \in Seq(Byte)
        BY EncodedType, StreamAssumption DEF StreamAssumption, ClientMessages
    <2>2. \A s, t \in Seq(Byte) : s \o t \in Seq(Byte)
        BY ConcatProperties
    <2> QED
        BY <2>1, <2>2 DEF WriteText, Inv, BytesOK
<1>3. TypeOK' /\ QueuesOK' /\ OutBufferIsQueue'
    BY <1>1 DEF Inv, TypeOK, QueuesOK, OutBufferIsQueue
<1>4. BytesOK'
    BY <1>1, <1>2 DEF Inv, BytesOK
<1> QED
    BY <1>3, <1>4 DEF Inv

\* The server appends a message, its heading and its text apart.
LEMMA AppendOutBufferInv ==
    ASSUME Inv, NEW m \in Replies, AppendOutBuffer(m)
    PROVE  Inv'
<1> DEFINE head == SubSeq(Encoded(m), 1, SIZE_BUFFER_HEAD)
<1>1. UNCHANGED <<inBuffer, clientBuffer, client, stopped, toServer, toClient>>
    BY DEF AppendOutBuffer, serverVars, clientVars
<1>2. m \in Messages
    BY StreamAssumption DEF StreamAssumption
<1>3. /\ Encoded(m) \in Seq(Byte) /\ head \in Seq(Byte) /\ m.text \in Seq(Byte)
      /\ head \o m.text = Encoded(m)
    BY <1>2, EncodedType
<1>4. /\ messages.bytes \in Seq(Byte) /\ messages.read \in 0 .. Len(messages.bytes)
      /\ messages \in Direction /\ Len(messages.bytes) \in Nat
    <2>1. /\ messages.bytes \in Seq(Byte) /\ messages.read \in Nat
          /\ messages \in Direction
        BY DEF Inv, BytesOK, Direction
    <2>2. Len(messages.bytes) \in Nat
        BY <2>1, LenProperties
    <2> QED
        BY <2>1, <2>2 DEF Inv, BytesOK
<1>5. /\ messages'.bytes = messages.bytes \o Encoded(m)
      /\ messages'.read = messages.read
      /\ messages' \in Direction
      /\ messages'.read <= Len(messages'.bytes)
    <2> DEFINE bytes == messages.bytes \o Encoded(m)
    <2>1. bytes \in Seq(Byte) /\ Len(bytes) = Len(messages.bytes) + Len(Encoded(m))
        BY <1>3, <1>4, ConcatProperties
    <2>2. Len(Encoded(m)) \in Nat
        BY <1>3, LenProperties
    <2>3. messages' = [messages EXCEPT !.msgs = Append(@, m), !.bytes = bytes,
                                       !.ends = @ \union {Len(bytes)}]
        BY DEF AppendOutBuffer, Written
    <2>4. Append(messages.msgs, m) \in Seq(Messages)
        BY <1>2, <1>4, AppendProperties DEF Direction
    <2>5. messages.ends \union {Len(bytes)} \in SUBSET Nat
        BY <1>4, <2>1, <2>2 DEF Direction
    <2> HIDE DEF bytes
    <2>6. messages'.bytes = bytes /\ messages'.read = messages.read
        BY <1>4, <2>3 DEF Direction
    <2>7. messages' \in Direction
        BY <1>4, <2>1, <2>3, <2>4, <2>5 DEF Direction
    <2> QED
        BY <1>4, <2>1, <2>2, <2>6, <2>7 DEF bytes
<1>6. /\ IsQueue(outBuffer')
      /\ Readable(outBuffer') = Readable(outBuffer) \o Encoded(m)
    <2>0. Readable(outBuffer) \in Seq(Byte) /\ IsQueue(outBuffer)
        BY ReadableType DEF Inv, QueuesOK
    <2>1. PICK b : b = append(outBuffer, head)
        OBVIOUS
    <2>2. IsQueue(b) /\ Readable(b) = Readable(outBuffer) \o head
        BY <1>3, <2>0, <2>1, BytesAppendedAtEnd
    <2>3. outBuffer' = append(b, m.text)
        BY <2>1 DEF AppendOutBuffer
    <2>4. IsQueue(outBuffer') /\ Readable(outBuffer') = Readable(b) \o m.text
        BY <1>3, <2>2, <2>3, BytesAppendedAtEnd
    <2>5. (Readable(outBuffer) \o head) \o m.text = Readable(outBuffer) \o (head \o m.text)
        BY <1>3, <2>0, BytesAssociative
    <2> QED
        BY <1>3, <2>2, <2>4, <2>5
<1>7. OutBufferIsQueue'
    <2>0. Readable(outBuffer) \in Seq(Byte) /\ toClient \in Seq(Byte)
        BY ReadableType DEF Inv, QueuesOK, BytesOK
    <2>1. toClient \o (Readable(outBuffer) \o Encoded(m))
             = (toClient \o Readable(outBuffer)) \o Encoded(m)
        BY <1>3, <2>0, BytesAssociative
    <2>2. toClient \o Readable(outBuffer)
             = SubSeq(messages.bytes, messages.read + 1, Len(messages.bytes))
        BY DEF Inv, OutBufferIsQueue
    <2>3. SubSeq(messages.bytes \o Encoded(m), messages.read + 1,
                 Len(messages.bytes \o Encoded(m)))
             = SubSeq(messages.bytes, messages.read + 1, Len(messages.bytes)) \o Encoded(m)
        BY <1>3, <1>4, UnreadGrows
    <2>4. toClient' \o Readable(outBuffer')
             = SubSeq(messages'.bytes, messages'.read + 1, Len(messages'.bytes))
        BY <1>1, <1>5, <1>6, <2>1, <2>2, <2>3
    <2> QED
        BY <2>4 DEF OutBufferIsQueue
<1>8. TypeOK' /\ QueuesOK'
    BY <1>1, <1>6 DEF Inv, TypeOK, QueuesOK, IsQueue
<1>9. BytesOK'
    BY <1>1, <1>5 DEF Inv, BytesOK
<1> QED
    BY <1>7, <1>8, <1>9 DEF Inv

\* The socket takes a part of the output buffer.
LEMMA SendResponseInfoInv ==
    ASSUME Inv, NEW n \in 1 .. readableBytes(outBuffer), SendResponseInfo(n)
    PROVE  Inv'
<1>1. UNCHANGED <<inBuffer, clientBuffer, client, stopped, toServer, messages>>
    BY DEF SendResponseInfo, serverVars, clientVars
<1>2. /\ IsQueue(outBuffer) /\ toClient \in Seq(Byte)
      /\ n \in 0 .. readableBytes(outBuffer)
    BY DEF Inv, QueuesOK, BytesOK
<1>3. /\ IsQueue(outBuffer')
      /\ Peek(outBuffer, n) \in Seq(Byte)
      /\ Peek(outBuffer, n) \o Readable(outBuffer') = Readable(outBuffer)
    BY <1>2, SkippedFromFront DEF SendResponseInfo, writeFd
<1>4. Readable(outBuffer') \in Seq(Byte)
    BY <1>3, ReadableType
<1>5. toClient' \in Seq(Byte) /\ toClient' = toClient \o Peek(outBuffer, n)
    <2>1. \A s, t \in Seq(Byte) : s \o t \in Seq(Byte)
        BY ConcatProperties
    <2> QED
        BY <1>2, <1>3, <2>1 DEF SendResponseInfo
<1>6. toClient' \o Readable(outBuffer') = toClient \o Readable(outBuffer)
    <2>1. PICK p, r : p = Peek(outBuffer, n) /\ r = Readable(outBuffer')
        OBVIOUS
    <2>2. (toClient \o p) \o r = toClient \o (p \o r)
        BY <1>2, <1>3, <1>4, <2>1, BytesAssociative
    <2> QED
        BY <1>3, <1>5, <2>1, <2>2
<1>7. OutBufferIsQueue'
    BY <1>1, <1>6 DEF Inv, OutBufferIsQueue
<1>8. TypeOK' /\ QueuesOK' /\ BytesOK'
    BY <1>1, <1>3, <1>5 DEF Inv, TypeOK, QueuesOK, BytesOK, IsQueue
<1> QED
    BY <1>7, <1>8 DEF Inv

\* The server reads: its indices stay in the vector, even where the reader passes the
\* writer.
LEMMA GetRequestInfoInv ==
    ASSUME Inv, NEW n \in 1 .. Len(toServer), GetRequestInfo(n)
    PROVE  Inv'
<1>1. UNCHANGED <<outBuffer, clientBuffer, client, messages, toClient>>
    BY DEF GetRequestInfo, clientVars
<1>2. toServer \in Seq(Byte) /\ IsBuffer(inBuffer) /\ Len(toServer) \in Nat
    <2>1. toServer \in Seq(Byte) /\ IsBuffer(inBuffer)
        BY DEF Inv, BytesOK, TypeOK
    <2> QED
        BY <2>1, LenProperties
<1>3. /\ SubSeq(toServer, 1, n) \in Seq(Byte)
      /\ SubSeq(toServer, n + 1, Len(toServer)) \in Seq(Byte)
    <2>1. \A i \in 1 .. Len(toServer) : toServer[i] \in Byte
        BY <1>2, ElementOfSeq
    <2>2. \A i \in 1 .. n : toServer[i] \in Byte
        BY <1>2, <2>1
    <2>3. SubSeq(toServer, 1, n) \in Seq(Byte)
        BY <1>2, <2>2, SubSeqProperties
    <2>4. n \in 0 .. Len(toServer)
        BY <1>2
    <2> QED
        BY <1>2, <2>3, <2>4, LastBytes
<1>4. toServer' \in Seq(Byte)
    BY <1>3 DEF GetRequestInfo
<1>5. PICK b : b = readFd(inBuffer, SubSeq(toServer, 1, n))
    OBVIOUS
<1>6. IsBuffer(b)
    BY <1>2, <1>3, <1>5, ReadFdType
<1>7. IsBuffer(inBuffer') /\ stopped' \subseteq {"server", "client"}
    <2>0. stopped \subseteq {"server", "client"}
        BY DEF Inv, TypeOK
    <2>1. CASE ~CanParse(b)
        <3>1. inBuffer' = inBuffer /\ stopped' = stopped \union {"server"}
            BY <1>5, <2>1 DEF GetRequestInfo, serverVars
        <3> QED
            BY <1>2, <2>0, <3>1
    <2>2. CASE CanParse(b)
        <3> DEFINE h == HeadOf(b)
        <3>1. /\ inBuffer' = IF HasText(h) THEN retrieveAsString(Behind(b), h.dataLength)
                              ELSE Behind(b)
              /\ stopped' = stopped
            BY <1>5, <2>2 DEF GetRequestInfo
        <3>2. b.m_readIndex + 8 <= b.m_size
            BY <2>2 DEF CanParse, InVector, SIZE_BUFFER_HEAD
        <3>3. IsBuffer(Behind(b)) /\ h.dataLength \in Nat
            <4>1. \A i \in 1 .. 8 : Peek(b, 8)[i] \in Byte
                BY <1>6, <3>2, PeekType, ElementOfSeq
            <4>2. h.dataLength \in Nat
                BY <4>1, HeadType DEF HeadOf, SIZE_BUFFER_HEAD
            <4>3. IsBuffer(Behind(b))
                BY <1>6, <3>2, SkipType DEF Behind, SIZE_BUFFER_HEAD
            <4> QED
                BY <4>2, <4>3
        <3>4. HasText(h) => Behind(b).m_readIndex + h.dataLength <= Behind(b).m_size
            BY <2>2 DEF CanParse, InVector
        <3> HIDE DEF h
        <3>5. IsBuffer(inBuffer')
            <4>1. CASE HasText(h)
                BY <3>1, <3>3, <3>4, <4>1, SkipType
            <4>2. CASE ~HasText(h)
                BY <3>1, <3>3, <4>2
            <4> QED
                BY <4>1, <4>2
        <3> QED
            BY <2>0, <3>1, <3>5
    <2> QED
        BY <2>1, <2>2
<1>8. TypeOK'
    BY <1>1, <1>7 DEF Inv, TypeOK
<1>9. QueuesOK' /\ BytesOK' /\ OutBufferIsQueue'
    BY <1>1, <1>4 DEF Inv, QueuesOK, BytesOK, OutBufferIsQueue
<1> QED
    BY <1>8, <1>9 DEF Inv

\* The client reads what has arrived.
LEMMA ReceiveDataInv ==
    ASSUME Inv, NEW n \in 1 .. Len(toClient), ReceiveData(n)
    PROVE  Inv'
<1>1. UNCHANGED <<inBuffer, outBuffer, stopped, toServer>>
    BY DEF ReceiveData, serverVars
<1>2. /\ toClient \in Seq(Byte) /\ Len(toClient) \in Nat
      /\ IsQueue(clientBuffer) /\ IsQueue(outBuffer)
      /\ messages \in Direction /\ messages.bytes \in Seq(Byte)
      /\ messages.read \in 0 .. Len(messages.bytes)
    <2>1. /\ toClient \in Seq(Byte) /\ messages \in Direction
          /\ messages.bytes \in Seq(Byte) /\ messages.read \in Nat
        BY DEF Inv, BytesOK, Direction
    <2>2. Len(toClient) \in Nat /\ Len(messages.bytes) \in Nat
        BY <2>1, LenProperties
    <2> QED
        BY <2>1, <2>2 DEF Inv, BytesOK, QueuesOK
<1>3. n \in 0 .. Len(toClient) /\ n \in Nat
    BY <1>2
<1>4. /\ messages'.bytes = messages.bytes
      /\ messages'.read = messages.read + n
      /\ messages' \in Direction
    <2> DEFINE torn == messages.torn \/ messages.read + n \notin messages.ends
    <2>1. messages' = [messages EXCEPT !.read = messages.read + n,
                                       !.torn = messages.torn
                                                  \/ messages.read + n \notin messages.ends]
        BY DEF ReceiveData, ReadFrom
    <2>2. messages' = [messages EXCEPT !.read = messages.read + n, !.torn = torn]
        BY <2>1
    <2>3. torn \in BOOLEAN
        OBVIOUS
    <2>4. messages.read + n \in Nat
        BY <1>2, <1>3
    <2> HIDE DEF torn
    <2> QED
        BY <1>2, <2>2, <2>3, <2>4 DEF Direction
<1>5. /\ toClient' \in Seq(Byte)
      /\ messages.read + n \in 0 .. Len(messages.bytes)
      /\ toClient' \o Readable(outBuffer)
            = SubSeq(messages.bytes, messages.read + n + 1, Len(messages.bytes))
    <2>1. Readable(outBuffer) \in Seq(Byte)
        BY <1>2, ReadableType
    <2>2. toClient \o Readable(outBuffer)
             = SubSeq(messages.bytes, messages.read + 1, Len(messages.bytes))
        BY DEF Inv, OutBufferIsQueue
    <2>3. toClient' = SubSeq(toClient, n + 1, Len(toClient))
        BY DEF ReceiveData
    <2>4. PICK q, z, s, r : /\ q = toClient /\ z = Readable(outBuffer)
                            /\ s = messages.bytes /\ r = messages.read
        OBVIOUS
    <2>5. q \in Seq(Byte) /\ z \in Seq(Byte) /\ s \in Seq(Byte)
        BY <1>2, <2>1, <2>4
    <2>6. r \in 0 .. Len(s) /\ n \in 0 .. Len(q)
        BY <1>2, <1>3, <2>4
    <2>7. q \o z = SubSeq(s, r + 1, Len(s))
        BY <2>2, <2>4
    <2>8. \A j \in 0 .. Len(s), k \in 0 .. Len(q) :
             q \o z = SubSeq(s, j + 1, Len(s)) =>
                 /\ SubSeq(q, k + 1, Len(q)) \in Seq(Byte)
                 /\ j + k \in 0 .. Len(s)
                 /\ SubSeq(q, k + 1, Len(q)) \o z = SubSeq(s, j + k + 1, Len(s))
        BY <2>5, UnreadShrinks
    <2>9. /\ SubSeq(q, n + 1, Len(q)) \in Seq(Byte)
          /\ r + n \in 0 .. Len(s)
          /\ SubSeq(q, n + 1, Len(q)) \o z = SubSeq(s, r + n + 1, Len(s))
        BY <2>6, <2>7, <2>8
    <2> QED
        BY <2>3, <2>4, <2>9
<1>6. IsQueue(clientBuffer') /\ client' \in {"idle", "reading"}
    <2>1. SubSeq(toClient, 1, n) \in Seq(Byte) /\ Len(SubSeq(toClient, 1, n)) = n
        <3>1. \A i \in 1 .. Len(toClient) : toClient[i] \in Byte
            BY <1>2, ElementOfSeq
        <3>2. \A i \in 1 .. n : toClient[i] \in Byte
            BY <1>3, <3>1
        <3> QED
            BY <1>3, <3>2, SubSeqProperties
    <2>2. PICK data \in Seq(Byte) : data = SubSeq(toClient, 1, n) /\ Len(data) = n
        BY <2>1
    <2>3. HasRoom(clientBuffer, Len(data))
        BY <2>2 DEF ReceiveData
    <2>4. IsQueue(readSocket(clientBuffer, data))
        BY <1>2, <2>3, BytesReadAtEnd
    <2> QED
        BY <2>2, <2>4 DEF ReceiveData
<1>7. OutBufferIsQueue'
    BY <1>1, <1>4, <1>5 DEF OutBufferIsQueue
<1>8. BytesOK'
    BY <1>1, <1>2, <1>4, <1>5 DEF Inv, BytesOK
<1>9. TypeOK' /\ QueuesOK'
    BY <1>1, <1>6 DEF Inv, TypeOK, QueuesOK, IsQueue
<1> QED
    BY <1>7, <1>8, <1>9 DEF Inv

\* The client takes a message from its buffer: its assertions keep the reader behind the
\* writer.
LEMMA ReadDataInv ==
    ASSUME Inv, ReadData
    PROVE  Inv'
<1>1. UNCHANGED <<inBuffer, outBuffer, stopped, toServer, messages, toClient>>
    BY DEF ReadData, serverVars
<1>2. IsQueue(clientBuffer) /\ CanTake(clientBuffer)
    BY DEF Inv, QueuesOK, ReadData
<1>3. 8 \in 0 .. readableBytes(clientBuffer)
    BY <1>2 DEF CanTake, Asserted, IsQueue, IsBuffer, readableBytes, SIZE_BUFFER_HEAD
<1>4. PICK b : b = BehindHead(clientBuffer)
    OBVIOUS
<1>5. IsQueue(b)
    BY <1>2, <1>3, <1>4, BytesRetrievedFromFront DEF BehindHead, SIZE_BUFFER_HEAD
<1>6. PICK len : len = HeadRead(clientBuffer).dataLength
    OBVIOUS
<1>7. len \in 0 .. readableBytes(b)
    <2>1. len \in Nat
        <3>1. clientBuffer.m_readIndex + 8 <= clientBuffer.m_size
            BY <1>2, <1>3 DEF IsQueue, IsBuffer, readableBytes
        <3>2. \A i \in 1 .. 8 : Peek(clientBuffer, 8)[i] \in Byte
            BY <1>2, <3>1, PeekType, ElementOfSeq DEF IsQueue
        <3> QED
            BY <1>6, <3>2, HeadType DEF HeadRead, SIZE_BUFFER_HEAD
    <2>2. len <= readableBytes(b)
        BY <1>2, <1>4, <1>5, <1>6 DEF CanTake, Asserted, IsQueue
    <2>3. readableBytes(b) \in Nat
        BY <1>5, ReadableType
    <2> QED
        BY <2>1, <2>2, <2>3
<1>8. IsQueue(clientBuffer')
    <2>1. clientBuffer' = retrieveAsString(b, len)
        BY <1>4, <1>6 DEF ReadData
    <2> QED
        BY <1>5, <1>7, <2>1, BytesRetrievedFromFront
<1>9. client' \in {"idle", "reading"}
    BY DEF ReadData
<1>10. TypeOK' /\ QueuesOK' /\ BytesOK' /\ OutBufferIsQueue'
    BY <1>1, <1>8, <1>9 DEF Inv, TypeOK, QueuesOK, BytesOK, OutBufferIsQueue, IsQueue
<1> QED
    BY <1>10 DEF Inv

LEMMA NextInv == Inv /\ [Next]_vars => Inv'
<1> SUFFICES ASSUME Inv, [Next]_vars PROVE Inv'
    OBVIOUS
<1>1. CASE \E m \in Requests : WriteText(m)
    BY <1>1, WriteTextInv
<1>2. CASE \E m \in Replies : AppendOutBuffer(m)
    BY <1>2, AppendOutBufferInv
<1>3. CASE \E n \in 1 .. readableBytes(outBuffer) : SendResponseInfo(n)
    BY <1>3, SendResponseInfoInv
<1>4. CASE \E n \in 1 .. Len(toServer) : GetRequestInfo(n)
    BY <1>4, GetRequestInfoInv
<1>5. CASE \E n \in 1 .. Len(toClient) : ReceiveData(n)
    BY <1>5, ReceiveDataInv
<1>9. CASE \E n \in 1 .. Len(toClient) : Overrun(n)
    <2>1. /\ UNCHANGED <<inBuffer, outBuffer, clientBuffer, stopped, toServer, messages, toClient>>
          /\ client' = "overrun"
        BY <1>9 DEF Overrun, serverVars
    <2> QED
        BY <2>1 DEF Inv, TypeOK, QueuesOK, BytesOK, OutBufferIsQueue
<1>6. CASE ReadData
    BY <1>6, ReadDataInv
<1>7. CASE AssertionFails
    <2>1. /\ UNCHANGED <<inBuffer, outBuffer, clientBuffer, client, toServer, messages, toClient>>
          /\ stopped' = stopped \union {"client"}
        BY <1>7 DEF AssertionFails, serverVars, clientVars
    <2> QED
        BY <2>1 DEF Inv, TypeOK, QueuesOK, BytesOK, OutBufferIsQueue
<1>8. CASE UNCHANGED vars
    BY <1>8 DEF vars, Inv, TypeOK, QueuesOK, BytesOK, OutBufferIsQueue
<1> QED
    BY <1>1, <1>2, <1>3, <1>4, <1>5, <1>6, <1>7, <1>8, <1>9 DEF Next

\* The types, for every size of the vectors and all messages.  That an index is inside its
\* vector is shown of the output buffer, of the client's, and of the server's as long as
\* getRequestInfo does not leave it: where parseInt or retrieveAsString would (InVector),
\* the model has stopped and the code, which compares nothing, has not.
THEOREM StreamTypeCorrect == Spec => []TypeOK
<1>1. Inv => TypeOK
    BY DEF Inv
<1> QED
    BY InitInv, NextInv, <1>1, PTL DEF Spec

\* The bytes on their way to the client and those in the output buffer are those that it
\* has not read, in order, for every size of the vector and all messages.
THEOREM OutputIsQueue == Spec => []OutBufferIsQueue
<1>1. Inv => OutBufferIsQueue
    BY DEF Inv
<1> QED
    BY InitInv, NextInv, <1>1, PTL DEF Spec
-----------------------------------------------------------------------------
(***************************************************************************)
(* One direction: its bytes are those of its messages, one after another.  *)
(***************************************************************************)

\* Where the messages ms end in the bytes bs: off[k] is the end of the first k.
Cuts(ms, bs, off) ==
    /\ off \in [0 .. Len(ms) -> 0 .. Len(bs)]
    /\ off[0] = 0 /\ off[Len(ms)] = Len(bs)
    /\ \A j, k \in 0 .. Len(ms) : j < k => off[j] < off[k]
    /\ \A k \in 1 .. Len(ms) : SubSeq(bs, off[k - 1] + 1, off[k]) = Encoded(ms[k])

\* The reader of d has taken the messages taken; left has been read and not taken.
TakenApart(d, taken, left) ==
    \E off :
        /\ Cuts(d.msgs, d.bytes, off)
        /\ d.ends = {off[k] : k \in 0 .. Len(d.msgs)}
        /\ taken \in Seq(Messages) /\ Len(taken) <= Len(d.msgs)
        /\ \A i \in 1 .. Len(taken) : taken[i] = d.msgs[i]
        /\ off[Len(taken)] <= d.read
        /\ left = SubSeq(d.bytes, off[Len(taken)] + 1, d.read)

DirectionOK(d) == d \in Direction /\ d.read <= Len(d.bytes)

LEMMA DirectionHas ==
    ASSUME NEW d, DirectionOK(d)
    PROVE  /\ d.msgs \in Seq(Messages) /\ Len(d.msgs) \in Nat
           /\ d.bytes \in Seq(Byte) /\ Len(d.bytes) \in Nat
           /\ d.ends \in SUBSET Nat /\ d.torn \in BOOLEAN
           /\ d.read \in 0 .. Len(d.bytes)
<1>1. /\ d.msgs \in Seq(Messages) /\ d.bytes \in Seq(Byte) /\ d.read \in Nat
      /\ d.ends \in SUBSET Nat /\ d.torn \in BOOLEAN
    BY DEF DirectionOK, Direction
<1>2. Len(d.msgs) \in Nat /\ Len(d.bytes) \in Nat
    BY <1>1, LenProperties
<1> QED
    BY <1>1, <1>2 DEF DirectionOK

\* The part of s from behind a to b.
LEMMA PartOf ==
    ASSUME NEW S, NEW s \in Seq(S), NEW a \in 0 .. Len(s), NEW b \in a .. Len(s)
    PROVE  /\ SubSeq(s, a + 1, b) \in Seq(S)
           /\ Len(SubSeq(s, a + 1, b)) = b - a
           /\ \A i \in 1 .. b - a : SubSeq(s, a + 1, b)[i] = s[a + i]
<1>0. Len(s) \in Nat
    BY LenProperties
<1>1. \A i \in a + 1 .. b : s[i] \in S
    <2> TAKE i \in a + 1 .. b
    <2>1. i \in 1 .. Len(s)
        BY <1>0
    <2> QED  BY <2>1, ElementOfSeq
<1>2. a + 1 \in Int /\ b \in Int
    BY <1>0
<1>3. /\ SubSeq(s, a + 1, b) \in Seq(S)
      /\ Len(SubSeq(s, a + 1, b)) = IF a + 1 <= b THEN b - (a + 1) + 1 ELSE 0
      /\ \A i \in 1 .. b - (a + 1) + 1 : SubSeq(s, a + 1, b)[i] = s[a + 1 + i - 1]
    BY <1>1, <1>2, SubSeqProperties
<1> QED
    BY <1>0, <1>3

\* What is written behind s leaves its parts.
LEMMA PartKept ==
    ASSUME NEW s \in Seq(Byte), NEW t \in Seq(Byte), NEW a \in 0 .. Len(s),
           NEW b \in a .. Len(s)
    PROVE  SubSeq(s \o t, a + 1, b) = SubSeq(s, a + 1, b)
<1> DEFINE u == SubSeq(s \o t, a + 1, b)
           v == SubSeq(s, a + 1, b)
<1>0. Len(s) \in Nat /\ Len(t) \in Nat
    BY LenProperties
<1>1. /\ s \o t \in Seq(Byte) /\ Len(s \o t) = Len(s) + Len(t)
      /\ \A i \in 1 .. Len(s) + Len(t) :
            (s \o t)[i] = IF i <= Len(s) THEN s[i] ELSE t[i - Len(s)]
    BY ConcatProperties
<1>2. a \in 0 .. Len(s \o t) /\ b \in a .. Len(s \o t)
    BY <1>0, <1>1
<1>3. u \in Seq(Byte) /\ Len(u) = b - a /\ \A i \in 1 .. b - a : u[i] = (s \o t)[a + i]
    BY <1>1, <1>2, PartOf
<1>4. v \in Seq(Byte) /\ Len(v) = b - a /\ \A i \in 1 .. b - a : v[i] = s[a + i]
    BY PartOf
<1>5. \A i \in 1 .. b - a : a + i \in 1 .. Len(s) + Len(t) /\ a + i <= Len(s)
    BY <1>0
<1> HIDE DEF u, v
<1>6. \A i \in 1 .. b - a : u[i] = v[i]
    BY <1>1, <1>3, <1>4, <1>5
<1>7. u = v
    BY <1>3, <1>4, <1>6, SeqEqual
<1> QED
    BY <1>7 DEF u, v

\* What was written behind s.
LEMMA PartWritten ==
    ASSUME NEW s \in Seq(Byte), NEW t \in Seq(Byte)
    PROVE  SubSeq(s \o t, Len(s) + 1, Len(s) + Len(t)) = t
<1> DEFINE u == SubSeq(s \o t, Len(s) + 1, Len(s) + Len(t))
<1>0. Len(s) \in Nat /\ Len(t) \in Nat
    BY LenProperties
<1>1. /\ s \o t \in Seq(Byte) /\ Len(s \o t) = Len(s) + Len(t)
      /\ \A i \in 1 .. Len(s) + Len(t) :
            (s \o t)[i] = IF i <= Len(s) THEN s[i] ELSE t[i - Len(s)]
    BY ConcatProperties
<1>2. Len(s) \in 0 .. Len(s \o t) /\ Len(s) + Len(t) \in Len(s) .. Len(s \o t)
    BY <1>0, <1>1
<1>3. /\ u \in Seq(Byte) /\ Len(u) = Len(s) + Len(t) - Len(s)
      /\ \A i \in 1 .. Len(s) + Len(t) - Len(s) : u[i] = (s \o t)[Len(s) + i]
    BY <1>1, <1>2, PartOf
<1> HIDE DEF u
<1>4. Len(s) + Len(t) - Len(s) = Len(t)
    BY <1>0
<1>5. \A i \in 1 .. Len(t) : u[i] = t[i]
    <2> TAKE i \in 1 .. Len(t)
    <2>1. Len(s) + i \in 1 .. Len(s) + Len(t) /\ ~(Len(s) + i <= Len(s))
          /\ Len(s) + i - Len(s) = i
        BY <1>0
    <2>2. (s \o t)[Len(s) + i] = t[Len(s) + i - Len(s)]
        BY <1>1, <2>1
    <2> QED
        BY <1>3, <1>4, <2>1, <2>2
<1>6. u = t
    BY <1>3, <1>4, <1>5, SeqEqual
<1> QED
    BY <1>6 DEF u

\* A part of s in two pieces.
LEMMA PartInTwo ==
    \A s, p, q \in Seq(Byte) : \A a \in 0 .. Len(s) : \A b \in a .. Len(s) :
        p \o q = SubSeq(s, a + 1, b) =>
            /\ a + Len(p) \in a .. b /\ b = a + Len(p) + Len(q)
            /\ p = SubSeq(s, a + 1, a + Len(p))
            /\ q = SubSeq(s, a + Len(p) + 1, b)
<1> SUFFICES ASSUME NEW s \in Seq(Byte), NEW p \in Seq(Byte), NEW q \in Seq(Byte),
                    NEW a \in 0 .. Len(s), NEW b \in a .. Len(s),
                    p \o q = SubSeq(s, a + 1, b)
             PROVE  /\ a + Len(p) \in a .. b /\ b = a + Len(p) + Len(q)
                    /\ p = SubSeq(s, a + 1, a + Len(p))
                    /\ q = SubSeq(s, a + Len(p) + 1, b)
    OBVIOUS
<1>0. Len(s) \in Nat /\ Len(p) \in Nat /\ Len(q) \in Nat
    BY LenProperties
<1>1. /\ Len(p \o q) = Len(p) + Len(q)
      /\ \A i \in 1 .. Len(p) + Len(q) :
            (p \o q)[i] = IF i <= Len(p) THEN p[i] ELSE q[i - Len(p)]
    BY ConcatProperties
<1>2. /\ Len(p \o q) = b - a
      /\ \A i \in 1 .. b - a : (p \o q)[i] = s[a + i]
    BY PartOf
<1>3. b = a + Len(p) + Len(q)
    <2>1. Len(p) + Len(q) = b - a
        BY <1>1, <1>2
    <2>2. a \in Int /\ b \in Int
        BY <1>0
    <2> QED
        BY <1>0, <2>1, <2>2
<1>4. PICK c : c = a + Len(p)
    OBVIOUS
<1>5. c \in a .. Len(s) /\ c \in 0 .. Len(s) /\ b \in c .. Len(s) /\ c \in a .. b
    BY <1>0, <1>3, <1>4
<1> DEFINE u == SubSeq(s, a + 1, c)
           v == SubSeq(s, c + 1, b)
<1>6. u \in Seq(Byte) /\ Len(u) = c - a /\ \A i \in 1 .. c - a : u[i] = s[a + i]
    BY <1>5, PartOf
<1>7. v \in Seq(Byte) /\ Len(v) = b - c /\ \A i \in 1 .. b - c : v[i] = s[c + i]
    BY <1>5, PartOf
<1> HIDE DEF u, v
<1>8. p = u
    <2>1. Len(p) = Len(u)
        BY <1>0, <1>4, <1>6
    <2>2. ASSUME NEW i \in 1 .. Len(p) PROVE p[i] = u[i]
        <3>1. i \in 1 .. Len(p) + Len(q) /\ i <= Len(p) /\ i \in 1 .. b - a /\ i \in 1 .. c - a
            BY <1>0, <1>3, <1>4
        <3> QED
            BY <1>1, <1>2, <1>6, <3>1
    <2> QED
        BY <1>6, <2>1, <2>2, SeqEqual
<1>9. q = v
    <2>1. Len(q) = Len(v)
        BY <1>0, <1>3, <1>4, <1>7
    <2>2. ASSUME NEW i \in 1 .. Len(q) PROVE q[i] = v[i]
        <3>1. PICK j \in Int : j = Len(p) + i
            BY <1>0
        <3>2. /\ j \in 1 .. Len(p) + Len(q) /\ ~(j <= Len(p)) /\ j \in 1 .. b - a
              /\ i \in 1 .. b - c /\ j - Len(p) = i /\ a + j = c + i
            BY <1>0, <1>3, <1>4, <3>1
        <3>3. (p \o q)[j] = q[i] /\ (p \o q)[j] = s[c + i]
            BY <1>1, <1>2, <3>2
        <3> QED
            BY <1>7, <3>2, <3>3
    <2> QED
        BY <1>7, <2>1, <2>2, SeqEqual
<1> QED
    BY <1>3, <1>4, <1>5, <1>8, <1>9 DEF u, v

-----------------------------------------------------------------------------

HeadBytes(m) ==
    encode([protocolId |-> m.protocolId, account |-> m.account, dataType |-> TEXT,
            dataLength |-> Len(m.text)])

\* A message in bytes: its heading, from which either side reads what it says, and its
\* text.
LEMMA EncodedParts ==
    ASSUME NEW m \in Messages
    PROVE  /\ HeadBytes(m) \in Seq(Byte) /\ Len(HeadBytes(m)) = 8
           /\ m.text \in Seq(Byte) /\ Len(m.text) \in Nat
           /\ Encoded(m) \in Seq(Byte)
           /\ Encoded(m) = HeadBytes(m) \o m.text
           /\ Len(Encoded(m)) = 8 + Len(m.text)
           /\ parseHead(HeadBytes(m)) =
                 [protocolId |-> m.protocolId, account |-> m.account,
                  dataType |-> TEXT, dataLength |-> Len(m.text)]
           /\ baseParse(HeadBytes(m)) = parseHead(HeadBytes(m))
<1>0. /\ m \in [protocolId : 1 .. 10, account : 0 .. MaxAccount, text : Seq(Byte)]
      /\ Len(m.text) \div 16777216 < 256
    BY SMT DEF Messages
<1>1. /\ m.text \in Seq(Byte) /\ m.protocolId \in 1 .. 10 /\ m.account \in 0 .. MaxAccount
    BY <1>0, SMT
<1>2. Len(m.text) \in Nat
    BY <1>1, LenProperties
<1>3. PICK x \in Nat : x = Len(m.text)
    BY <1>2
<1>4. x < 4294967296
    <2>1. x \div 16777216 < 256
        BY <1>0, <1>3, SMT
    <2> QED
        BY <2>1, SMT
<1>5. PICK a \in Nat : a = m.account /\ a <= MaxAccount
    <2>1. PICK b \in 0 .. MaxAccount : b = m.account
        BY <1>1
    <2>2. b \in Nat /\ b <= MaxAccount
        BY SMT DEF MaxAccount
    <2> QED
        BY <2>1, <2>2
<1>6. PICK f : f = [protocolId |-> m.protocolId, account |-> a, dataType |-> TEXT,
                    dataLength |-> x]
    OBVIOUS
<1>7. HeadBytes(m) = encode(f)
    BY <1>3, <1>5, <1>6 DEF HeadBytes
<1>8. /\ f.protocolId \in 0 .. 255 /\ f.protocolId \in Nat /\ f.account = a
      /\ f.dataType = 1 /\ f.dataLength = x /\ f.protocolId = m.protocolId
    BY <1>1, <1>6 DEF TEXT
<1>9. encode(f) \in Seq(Byte) /\ Len(encode(f)) = 8
    BY <1>8, EncodeType
<1>10. /\ parseHead(encode(f)) = [protocolId |-> f.protocolId, account |-> f.account,
                                  dataType |-> f.dataType, dataLength |-> f.dataLength]
       /\ baseParse(encode(f)) = parseHead(encode(f))
    BY <1>4, <1>5, <1>8, HeadingRoundTrip, SMT
<1>11. Encoded(m) = HeadBytes(m) \o m.text
    BY DEF Encoded, HeadBytes
<1>12. Encoded(m) \in Seq(Byte) /\ Len(Encoded(m)) = 8 + Len(m.text)
    <2>1. HeadBytes(m) \in Seq(Byte) /\ Len(HeadBytes(m)) = 8
        BY <1>7, <1>9
    <2>2. /\ HeadBytes(m) \o m.text \in Seq(Byte)
          /\ Len(HeadBytes(m) \o m.text) = Len(HeadBytes(m)) + Len(m.text)
        BY <1>1, <2>1, ConcatProperties
    <2> QED
        BY <1>11, <2>1, <2>2
<1> QED
    BY <1>1, <1>2, <1>3, <1>5, <1>6, <1>7, <1>8, <1>9, <1>10, <1>11, <1>12

LEMMA CutsHave ==
    ASSUME NEW d, DirectionOK(d), NEW off, Cuts(d.msgs, d.bytes, off)
    PROVE  /\ \A k \in 0 .. Len(d.msgs) : off[k] \in 0 .. Len(d.bytes) /\ off[k] \in Nat
           /\ \A j, k \in 0 .. Len(d.msgs) : j <= k => off[j] <= off[k]
           /\ \A j, k \in 0 .. Len(d.msgs) : off[j] < off[k] => j < k
           /\ \A j, k \in 0 .. Len(d.msgs) : off[j] = off[k] => j = k
           /\ \A k \in 0 .. Len(d.msgs) - 1 :
                 /\ d.msgs[k + 1] \in Messages
                 /\ k \in 0 .. Len(d.msgs) /\ k + 1 \in 0 .. Len(d.msgs)
                 /\ SubSeq(d.bytes, off[k] + 1, off[k + 1]) = Encoded(d.msgs[k + 1])
<1>0. /\ d.msgs \in Seq(Messages) /\ Len(d.msgs) \in Nat /\ Len(d.bytes) \in Nat
    BY DirectionHas
<1>1. \A k \in 0 .. Len(d.msgs) : off[k] \in 0 .. Len(d.bytes) /\ off[k] \in Nat
    <2>1. off \in [0 .. Len(d.msgs) -> 0 .. Len(d.bytes)]
        BY DEF Cuts
    <2>2. \A k \in 0 .. Len(d.msgs) : off[k] \in 0 .. Len(d.bytes)
        BY <2>1
    <2>3. \A x \in 0 .. Len(d.bytes) : x \in Nat
        BY <1>0
    <2> QED
        BY <2>2, <2>3
<1>2. \A j, k \in 0 .. Len(d.msgs) : j < k => off[j] < off[k]
    BY DEF Cuts
<1>3. ASSUME NEW j \in 0 .. Len(d.msgs), NEW k \in 0 .. Len(d.msgs)
      PROVE  (j <= k => off[j] <= off[k]) /\ (off[j] < off[k] => j < k)
             /\ (off[j] = off[k] => j = k)
    <2>1. off[j] \in Nat /\ off[k] \in Nat
        BY <1>1
    <2>2. (j < k => off[j] < off[k]) /\ (k < j => off[k] < off[j])
        BY <1>2
    <2>3. j < k \/ j = k \/ k < j
        BY <1>0
    <2> QED
        BY <1>0, <2>1, <2>2, <2>3
<1>4. \A k \in 0 .. Len(d.msgs) - 1 :
          /\ d.msgs[k + 1] \in Messages
          /\ k \in 0 .. Len(d.msgs) /\ k + 1 \in 0 .. Len(d.msgs)
          /\ SubSeq(d.bytes, off[k] + 1, off[k + 1]) = Encoded(d.msgs[k + 1])
    <2> TAKE k \in 0 .. Len(d.msgs) - 1
    <2>1. k + 1 \in 1 .. Len(d.msgs) /\ (k + 1) - 1 = k
        BY <1>0
    <2>2. d.msgs[k + 1] \in Messages
        BY <1>0, <2>1, ElementOfSeq
    <2>3. SubSeq(d.bytes, off[(k + 1) - 1] + 1, off[k + 1]) = Encoded(d.msgs[k + 1])
        BY <2>1 DEF Cuts
    <2> QED
        BY <1>0, <2>1, <2>2, <2>3
<1>5. /\ \A j, k \in 0 .. Len(d.msgs) : j <= k => off[j] <= off[k]
      /\ \A j, k \in 0 .. Len(d.msgs) : off[j] < off[k] => j < k
      /\ \A j, k \in 0 .. Len(d.msgs) : off[j] = off[k] => j = k
    BY <1>3
<1> QED
    BY <1>1, <1>4, <1>5

\* A message written behind the others leaves the places where they end.
LEMMA WrittenTakenApart ==
    ASSUME NEW d, DirectionOK(d), NEW m \in Messages, NEW taken, NEW left,
           TakenApart(d, taken, left)
    PROVE  TakenApart(Written(d, m), taken, left)
<1> DEFINE n == Len(d.msgs)
           e == Written(d, m)
<1>0. /\ d.msgs \in Seq(Messages) /\ n \in Nat /\ d.bytes \in Seq(Byte) /\ Len(d.bytes) \in Nat
      /\ d.ends \in SUBSET Nat /\ d.read \in 0 .. Len(d.bytes)
    BY DirectionHas
<1>1. PICK off :
        /\ Cuts(d.msgs, d.bytes, off)
        /\ d.ends = {off[k] : k \in 0 .. n}
        /\ taken \in Seq(Messages) /\ Len(taken) <= n
        /\ \A i \in 1 .. Len(taken) : taken[i] = d.msgs[i]
        /\ off[Len(taken)] <= d.read
        /\ left = SubSeq(d.bytes, off[Len(taken)] + 1, d.read)
    BY DEF TakenApart
<1>2. /\ off \in [0 .. n -> 0 .. Len(d.bytes)]
      /\ off[0] = 0 /\ off[n] = Len(d.bytes)
      /\ \A j, k \in 0 .. n : j < k => off[j] < off[k]
      /\ \A k \in 1 .. n : SubSeq(d.bytes, off[k - 1] + 1, off[k]) = Encoded(d.msgs[k])
    BY <1>1 DEF Cuts
<1>3. \A k \in 0 .. n : off[k] \in 0 .. Len(d.bytes)
    BY <1>2
<1>4. PICK x \in Nat : x = Len(Encoded(m)) /\ x > 0
    <2>1. Len(Encoded(m)) = 8 + Len(m.text) /\ Len(m.text) \in Nat
        BY EncodedParts
    <2> QED
        BY <2>1
<1>5. PICK bs : bs = d.bytes \o Encoded(m)
    OBVIOUS
<1>6. bs \in Seq(Byte) /\ Len(bs) = Len(d.bytes) + x
    <2>1. Encoded(m) \in Seq(Byte)
        BY EncodedParts
    <2> QED
        BY <1>0, <1>4, <1>5, <2>1, ConcatProperties
<1>7. /\ e.msgs = Append(d.msgs, m) /\ e.bytes = bs /\ e.read = d.read
      /\ e.ends = d.ends \union {Len(bs)}
    BY <1>5 DEF Written, DirectionOK, Direction
<1>8. /\ Append(d.msgs, m) \in Seq(Messages) /\ Len(Append(d.msgs, m)) = n + 1
      /\ \A i \in 1 .. n : Append(d.msgs, m)[i] = d.msgs[i]
      /\ Append(d.msgs, m)[n + 1] = m
    BY <1>0, AppendProperties
<1>9. PICK off2 : off2 = [k \in 0 .. n + 1 |-> IF k <= n THEN off[k] ELSE Len(bs)]
    OBVIOUS
<1>10. /\ \A k \in 0 .. n : k \in 0 .. n + 1 /\ off2[k] = off[k]
       /\ off2[n + 1] = Len(bs)
    <2>1. ASSUME NEW k \in 0 .. n PROVE k \in 0 .. n + 1 /\ k <= n
        BY <1>0
    <2>2. n + 1 \in 0 .. n + 1 /\ ~(n + 1 <= n)
        BY <1>0
    <2> QED
        BY <1>9, <2>1, <2>2
<1> HIDE DEF n, e
<1>11. \A k \in 0 .. n + 1 : k \in 0 .. n \/ k = n + 1
    BY <1>0
<1>12. off2 \in [0 .. n + 1 -> 0 .. Len(bs)]
    <2>1. Len(bs) \in 0 .. Len(bs) /\ \A y \in 0 .. Len(d.bytes) : y \in 0 .. Len(bs)
        BY <1>0, <1>6
    <2>2. \A k \in 0 .. n + 1 : (IF k <= n THEN off[k] ELSE Len(bs)) \in 0 .. Len(bs)
        <3> TAKE k \in 0 .. n + 1
        <3>1. CASE k <= n
            <4>1. k \in 0 .. n
                BY <1>0, <3>1
            <4> QED
                BY <1>3, <2>1, <3>1, <4>1
        <3>2. CASE ~(k <= n)
            BY <2>1, <3>2
        <3> QED
            BY <3>1, <3>2
    <2> QED
        BY <1>9, <2>2
<1>13. \A j, k \in 0 .. n + 1 : j < k => off2[j] < off2[k]
    <2> SUFFICES ASSUME NEW j \in 0 .. n + 1, NEW k \in 0 .. n + 1, j < k
                 PROVE  off2[j] < off2[k]
        OBVIOUS
    <2>1. j \in 0 .. n
        BY <1>0
    <2>2. CASE k \in 0 .. n
        BY <1>2, <1>10, <2>1, <2>2
    <2>3. CASE k = n + 1
        <3>1. off2[j] \in 0 .. Len(d.bytes) /\ off2[k] = Len(d.bytes) + x
            BY <1>3, <1>6, <1>10, <2>1, <2>3
        <3> QED
            BY <1>0, <1>4, <3>1
    <2> QED
        BY <1>11, <2>2, <2>3
<1>14. \A k \in 1 .. n + 1 :
           SubSeq(bs, off2[k - 1] + 1, off2[k]) = Encoded(Append(d.msgs, m)[k])
    <2> TAKE k \in 1 .. n + 1
    <2>1. CASE k \in 1 .. n
        <3>1. PICK j : j = k - 1
            OBVIOUS
        <3>2. j \in 0 .. n /\ k \in 0 .. n /\ j < k
            BY <1>0, <2>1, <3>1
        <3>3. off2[j] = off[j] /\ off2[k] = off[k] /\ off[j] < off[k]
              /\ off[j] \in 0 .. Len(d.bytes) /\ off[k] \in 0 .. Len(d.bytes)
            BY <1>2, <1>3, <1>10, <3>2
        <3>4. off[k] \in off[j] .. Len(d.bytes)
            BY <1>0, <3>3
        <3>5. SubSeq(bs, off[j] + 1, off[k]) = SubSeq(d.bytes, off[j] + 1, off[k])
            <4>1. Encoded(m) \in Seq(Byte)
                BY EncodedParts
            <4> QED
                BY <1>0, <1>5, <3>3, <3>4, <4>1, PartKept
        <3>6. SubSeq(d.bytes, off[j] + 1, off[k]) = Encoded(d.msgs[k])
            BY <1>2, <2>1, <3>1
        <3> QED
            BY <1>8, <2>1, <3>1, <3>3, <3>5, <3>6
    <2>2. CASE k = n + 1
        <3>1. k - 1 = n /\ n \in 0 .. n
            BY <1>0, <2>2
        <3>2. off2[k - 1] = Len(d.bytes) /\ off2[k] = Len(d.bytes) + Len(Encoded(m))
            BY <1>2, <1>4, <1>6, <1>10, <2>2, <3>1
        <3>3. SubSeq(bs, Len(d.bytes) + 1, Len(d.bytes) + Len(Encoded(m))) = Encoded(m)
            <4>1. Encoded(m) \in Seq(Byte)
                BY EncodedParts
            <4> QED
                BY <1>0, <1>5, <4>1, PartWritten
        <3> QED
            BY <1>8, <2>2, <3>2, <3>3
    <2>3. k \in 1 .. n \/ k = n + 1
        BY <1>0
    <2> QED
        BY <2>1, <2>2, <2>3
<1>15. Cuts(e.msgs, e.bytes, off2)
    <2>1. off2[0] = 0
        <3>1. 0 \in 0 .. n
            BY <1>0
        <3> QED
            BY <1>2, <1>10, <3>1
    <2> QED
        BY <1>7, <1>8, <1>10, <1>12, <1>13, <1>14, <2>1 DEF Cuts
<1>16. e.ends = {off2[k] : k \in 0 .. Len(e.msgs)}
    <2>1. Len(e.msgs) = n + 1 /\ n + 1 \in 0 .. n + 1
        BY <1>0, <1>7, <1>8
    <2>2. \A y \in e.ends : \E k \in 0 .. n + 1 : y = off2[k]
        BY <1>1, <1>7, <1>10, <2>1 DEF n
    <2>3. \A k \in 0 .. n + 1 : off2[k] \in e.ends
        BY <1>1, <1>7, <1>10, <1>11 DEF n
    <2> QED
        BY <2>1, <2>2, <2>3
<1>17. Len(taken) \in Nat
    BY <1>1, LenProperties
<1>18. Len(taken) \in 0 .. n
    BY <1>0, <1>1, <1>17 DEF n
<1>19. off2[Len(taken)] = off[Len(taken)] /\ off[Len(taken)] \in 0 .. Len(d.bytes)
    BY <1>3, <1>10, <1>18
<1>20. Len(taken) <= Len(e.msgs) /\ \A i \in 1 .. Len(taken) : taken[i] = e.msgs[i]
    <2>1. Len(taken) <= n + 1 /\ \A i \in 1 .. Len(taken) : i \in 1 .. n
        BY <1>0, <1>18
    <2> QED
        BY <1>1, <1>7, <1>8, <2>1
<1>21. left = SubSeq(e.bytes, off2[Len(taken)] + 1, e.read)
    <2>1. d.read \in off[Len(taken)] .. Len(d.bytes)
        BY <1>0, <1>1, <1>19
    <2>2. Encoded(m) \in Seq(Byte)
        BY EncodedParts
    <2>3. SubSeq(bs, off[Len(taken)] + 1, d.read) = SubSeq(d.bytes, off[Len(taken)] + 1, d.read)
        BY <1>0, <1>5, <1>19, <2>1, <2>2, PartKept
    <2> QED
        BY <1>1, <1>7, <1>19, <2>3
<1> QED
    BY <1>1, <1>7, <1>15, <1>16, <1>19, <1>20, <1>21 DEF TakenApart, e

\* A part of s and the part behind it.
LEMMA PartsJoin ==
    ASSUME NEW s \in Seq(Byte), NEW a \in 0 .. Len(s), NEW b \in a .. Len(s),
           NEW c \in b .. Len(s)
    PROVE  SubSeq(s, a + 1, c) = SubSeq(s, a + 1, b) \o SubSeq(s, b + 1, c)
<1>0. Len(s) \in Nat
    BY LenProperties
<1>1. a + 1 \in 1 .. Len(s) + 1 /\ b \in (a + 1) - 1 .. Len(s) /\ c \in b .. Len(s)
    BY <1>0
<1> QED
    BY <1>1, ConcatAdjacentSubSeq

LEMMA ReadTakenApart ==
    ASSUME NEW d, DirectionOK(d), NEW taken, NEW left, TakenApart(d, taken, left),
           NEW n \in Nat, d.read + n <= Len(d.bytes)
    PROVE  /\ TakenApart(ReadFrom(d, n), taken,
                         left \o SubSeq(d.bytes, d.read + 1, d.read + n))
           /\ DirectionOK(ReadFrom(d, n))
<1> DEFINE e == ReadFrom(d, n)
<1>0. /\ d.msgs \in Seq(Messages) /\ Len(d.msgs) \in Nat /\ d.bytes \in Seq(Byte)
      /\ Len(d.bytes) \in Nat /\ d.ends \in SUBSET Nat /\ d.read \in 0 .. Len(d.bytes)
      /\ d.torn \in BOOLEAN
    BY DirectionHas
<1>1. PICK off :
        /\ Cuts(d.msgs, d.bytes, off)
        /\ d.ends = {off[k] : k \in 0 .. Len(d.msgs)}
        /\ taken \in Seq(Messages) /\ Len(taken) <= Len(d.msgs)
        /\ \A i \in 1 .. Len(taken) : taken[i] = d.msgs[i]
        /\ off[Len(taken)] <= d.read
        /\ left = SubSeq(d.bytes, off[Len(taken)] + 1, d.read)
    BY DEF TakenApart
<1>2. /\ e.msgs = d.msgs /\ e.bytes = d.bytes /\ e.ends = d.ends
      /\ e.read = d.read + n /\ e.torn = (d.torn \/ d.read + n \notin d.ends)
    BY DEF ReadFrom, DirectionOK, Direction
<1>3. PICK a : a = off[Len(taken)]
    OBVIOUS
<1>4. a \in 0 .. Len(d.bytes)
    <2>1. Len(taken) \in Nat
        BY <1>1, LenProperties
    <2>2. Len(taken) \in 0 .. Len(d.msgs)
        BY <1>0, <1>1, <2>1
    <2> QED
        BY <1>1, <1>3, <2>2 DEF Cuts
<1>5. d.read \in a .. Len(d.bytes) /\ d.read + n \in d.read .. Len(d.bytes)
      /\ a <= d.read + n
    BY <1>0, <1>1, <1>3, <1>4
<1>6. left \o SubSeq(d.bytes, d.read + 1, d.read + n)
         = SubSeq(d.bytes, a + 1, d.read + n)
    BY <1>0, <1>1, <1>3, <1>4, <1>5, PartsJoin
<1>7. DirectionOK(e)
    <2>1. PICK r \in Nat : r = d.read + n /\ r <= Len(d.bytes)
        BY <1>0
    <2>2. PICK x \in BOOLEAN : x = (d.torn \/ d.read + n \notin d.ends)
        BY <1>0
    <2>3. e = [d EXCEPT !.read = r, !.torn = x]
        BY <2>1, <2>2 DEF ReadFrom, DirectionOK, Direction
    <2>4. e \in Direction
        BY <2>3 DEF DirectionOK, Direction
    <2> QED
        BY <1>2, <2>1, <2>4 DEF DirectionOK
<1> HIDE DEF e
<1>8. TakenApart(e, taken, left \o SubSeq(d.bytes, d.read + 1, d.read + n))
    BY <1>1, <1>2, <1>3, <1>5, <1>6 DEF TakenApart
<1> QED
    BY <1>7, <1>8 DEF e

LEMMA WrittenDirection ==
    ASSUME NEW d, DirectionOK(d), NEW m \in Messages
    PROVE  /\ DirectionOK(Written(d, m))
           /\ Written(d, m).bytes = d.bytes \o Encoded(m)
           /\ Written(d, m).read = d.read /\ Written(d, m).torn = d.torn
           /\ d.read \in d.ends => Written(d, m).read \in Written(d, m).ends
<1>0. /\ d.msgs \in Seq(Messages) /\ d.bytes \in Seq(Byte) /\ Len(d.bytes) \in Nat
      /\ d.ends \in SUBSET Nat /\ d.read \in 0 .. Len(d.bytes)
    BY DirectionHas
<1>1. PICK bs : bs = d.bytes \o Encoded(m)
    OBVIOUS
<1>2. bs \in Seq(Byte) /\ Len(bs) \in Nat /\ Len(bs) >= Len(d.bytes)
    <2>1. Encoded(m) \in Seq(Byte) /\ Len(Encoded(m)) \in Nat
        BY EncodedParts
    <2>2. bs \in Seq(Byte) /\ Len(bs) = Len(d.bytes) + Len(Encoded(m))
        BY <1>0, <1>1, <2>1, ConcatProperties
    <2> QED
        BY <1>0, <2>1, <2>2
<1>3. PICK ms \in Seq(Messages) : ms = Append(d.msgs, m)
    BY <1>0, AppendProperties
<1>4. PICK es \in SUBSET Nat : es = d.ends \union {Len(bs)}
    BY <1>0, <1>2
<1>5. Written(d, m) = [d EXCEPT !.msgs = ms, !.bytes = bs, !.ends = es]
    BY <1>1, <1>3, <1>4 DEF Written, DirectionOK, Direction
<1>6. d \in Direction
    BY DEF DirectionOK
<1>7. /\ Written(d, m) \in Direction /\ Written(d, m).read = d.read
      /\ Written(d, m).torn = d.torn /\ Written(d, m).bytes = bs
      /\ Written(d, m).ends = es
    BY <1>2, <1>5, <1>6 DEF Direction
<1>8. d.read <= Len(bs)
    BY <1>0, <1>2
<1> QED
    BY <1>1, <1>4, <1>7, <1>8 DEF DirectionOK

\* The bytes of s from behind a to b, and two pieces of them as one.
Part(s, a, b) == SubSeq(s, a + 1, b)
Joined(p, q)  == p \o q

LEMMA PartSplits ==
    \A s, p, q \in Seq(Byte) : \A a \in 0 .. Len(s) : \A b \in a .. Len(s) :
        Joined(p, q) = Part(s, a, b) =>
            /\ a + Len(p) \in a .. b /\ b = a + Len(p) + Len(q)
            /\ p = Part(s, a, a + Len(p))
            /\ q = Part(s, a + Len(p), b)
    BY PartInTwo DEF Part, Joined

\* Where the next message begins, and where it ends.
IsNext(m, d, taken, left) ==
    /\ \A h, r \in Seq(Byte) : left = h \o r /\ Len(h) = 8 => h = HeadBytes(m)
    /\ \A h, t, r \in Seq(Byte) :
          left = h \o (t \o r) /\ Len(h) = 8 /\ Len(t) = Len(m.text) =>
              t = m.text /\ TakenApart(d, Append(taken, m), r)
    /\ d.read \in d.ends => Len(left) >= 8 + Len(m.text)
    /\ \E k \in 1 .. Len(d.msgs) : m = d.msgs[k]

LEMMA NextMessage ==
    ASSUME NEW d, DirectionOK(d), NEW taken, NEW left, TakenApart(d, taken, left),
           left # <<>>
    PROVE  \E m \in Messages : IsNext(m, d, taken, left)
<1>0. /\ d.msgs \in Seq(Messages) /\ Len(d.msgs) \in Nat /\ d.bytes \in Seq(Byte)
      /\ Len(d.bytes) \in Nat /\ d.read \in 0 .. Len(d.bytes)
    BY DirectionHas
<1>1. PICK off :
        /\ Cuts(d.msgs, d.bytes, off)
        /\ d.ends = {off[k] : k \in 0 .. Len(d.msgs)}
        /\ taken \in Seq(Messages) /\ Len(taken) <= Len(d.msgs)
        /\ \A i \in 1 .. Len(taken) : taken[i] = d.msgs[i]
        /\ off[Len(taken)] <= d.read
        /\ left = SubSeq(d.bytes, off[Len(taken)] + 1, d.read)
    BY DEF TakenApart
<1>2. PICK n \in Nat : n = Len(taken)
    BY <1>1, LenProperties
<1>3. PICK a : a = off[n]
    OBVIOUS
<1>4. n \in 0 .. Len(d.msgs) /\ a \in 0 .. Len(d.bytes) /\ a <= d.read
      /\ d.read \in a .. Len(d.bytes) /\ left = Part(d.bytes, a, d.read)
    <2>1. n \in 0 .. Len(d.msgs)
        BY <1>0, <1>1, <1>2
    <2>2. a \in 0 .. Len(d.bytes)
        BY <1>1, <1>3, <2>1, CutsHave
    <2> QED
        BY <1>0, <1>1, <1>2, <1>3, <2>1, <2>2 DEF Part
<1>5. left \in Seq(Byte) /\ Len(left) \in Nat /\ Len(left) = d.read - a
    <2>1. left \in Seq(Byte) /\ Len(left) = d.read - a
        BY <1>0, <1>4, PartOf DEF Part
    <2> QED
        BY <2>1, LenProperties
<1>6. a < d.read
    <2>1. Len(left) # 0
        BY <1>5, EmptySeq
    <2> QED
        BY <1>0, <1>4, <1>5, <2>1
<1>7. n < Len(d.msgs)
    <2>1. off[Len(d.msgs)] = Len(d.bytes)
        BY <1>1 DEF Cuts
    <2>2. n # Len(d.msgs)
        BY <1>0, <1>3, <1>4, <1>6, <2>1
    <2> QED
        BY <1>0, <1>4, <2>2
<1>8. PICK m : m = d.msgs[n + 1]
    OBVIOUS
<1>9. PICK c : c = off[n + 1]
    OBVIOUS
<1>10. /\ n + 1 \in 0 .. Len(d.msgs) /\ m \in Messages
       /\ Part(d.bytes, a, c) = Encoded(m)
       /\ c \in 0 .. Len(d.bytes) /\ a <= c
    <2>1. n \in 0 .. Len(d.msgs) - 1 /\ n + 1 \in 0 .. Len(d.msgs) /\ n <= n + 1
        BY <1>0, <1>7
    <2>2. Cuts(d.msgs, d.bytes, off)
        BY <1>1
    <2>3. /\ d.msgs[n + 1] \in Messages
          /\ SubSeq(d.bytes, off[n] + 1, off[n + 1]) = Encoded(d.msgs[n + 1])
        BY <2>1, <2>2, CutsHave
    <2>4. off[n + 1] \in 0 .. Len(d.bytes)
        BY <2>1, <2>2, CutsHave
    <2>5. off[n] <= off[n + 1]
        BY <1>4, <2>1, <2>2, CutsHave
    <2>6. Part(d.bytes, a, c) = Encoded(m)
        BY <1>3, <1>8, <1>9, <2>3 DEF Part
    <2> QED
        BY <1>3, <1>8, <1>9, <2>1, <2>3, <2>4, <2>5, <2>6
<1>11. c \in a .. Len(d.bytes)
    BY <1>0, <1>4, <1>10
<1>12. PICK l \in Nat : l = Len(m.text)
    BY <1>10, EncodedParts
<1>13. /\ HeadBytes(m) \in Seq(Byte) /\ Len(HeadBytes(m)) = 8 /\ m.text \in Seq(Byte)
       /\ HeadBytes(m) \o m.text = Part(d.bytes, a, c)
    BY <1>10, EncodedParts
<1>14. /\ c = a + 8 + l
       /\ HeadBytes(m) = Part(d.bytes, a, a + 8)
       /\ m.text = Part(d.bytes, a + 8, a + 8 + l)
    <2>1. /\ c = a + Len(HeadBytes(m)) + Len(m.text)
          /\ HeadBytes(m) = Part(d.bytes, a, a + Len(HeadBytes(m)))
          /\ m.text = Part(d.bytes, a + Len(HeadBytes(m)), c)
        <3>1. d.bytes \in Seq(Byte) /\ a \in 0 .. Len(d.bytes)
              /\ Joined(HeadBytes(m), m.text) = Part(d.bytes, a, c)
            BY <1>0, <1>4, <1>13 DEF Joined
        <3>2. PICK h \in Seq(Byte), t \in Seq(Byte) : h = HeadBytes(m) /\ t = m.text
            BY <1>13
        <3>3. /\ c = a + Len(h) + Len(t)
              /\ h = Part(d.bytes, a, a + Len(h))
              /\ t = Part(d.bytes, a + Len(h), c)
            <4>1. Joined(h, t) = Part(d.bytes, a, c)
                BY <3>1, <3>2
            <4> QED
                BY <1>11, <3>1, <4>1, PartSplits
        <3> QED
            BY <3>2, <3>3
    <2> QED
        BY <1>12, <1>13, <2>1
<1>15. ASSUME NEW h \in Seq(Byte), NEW r \in Seq(Byte), left = h \o r, Len(h) = 8
       PROVE  /\ h = HeadBytes(m) /\ r = Part(d.bytes, a + 8, d.read)
              /\ a + 8 \in 0 .. Len(d.bytes) /\ d.read \in a + 8 .. Len(d.bytes)
    <2>1. /\ a + Len(h) \in a .. d.read
          /\ h = Part(d.bytes, a, a + Len(h))
          /\ r = Part(d.bytes, a + Len(h), d.read)
        <3>1. d.bytes \in Seq(Byte) /\ a \in 0 .. Len(d.bytes)
              /\ d.read \in a .. Len(d.bytes) /\ Joined(h, r) = Part(d.bytes, a, d.read)
            BY <1>0, <1>4, <1>15 DEF Joined
        <3> QED
            BY <3>1, PartSplits
    <2>2. a + 8 \in a .. d.read
        BY <1>15, <2>1
    <2>3. a + 8 \in 0 .. Len(d.bytes) /\ d.read \in a + 8 .. Len(d.bytes)
        BY <1>0, <1>4, <2>2
    <2> QED
        BY <1>14, <1>15, <2>1, <2>3
<1>16. ASSUME NEW h \in Seq(Byte), NEW t \in Seq(Byte), NEW r \in Seq(Byte),
              left = h \o (t \o r), Len(h) = 8, Len(t) = Len(m.text)
       PROVE  t = m.text /\ TakenApart(d, Append(taken, m), r)
    <2>1. t \o r \in Seq(Byte)
        BY ConcatProperties
    <2>2. PICK b : b = a + 8
        OBVIOUS
    <2>3. /\ t \o r = Part(d.bytes, b, d.read)
          /\ b \in 0 .. Len(d.bytes) /\ d.read \in b .. Len(d.bytes)
        BY <1>15, <1>16, <2>1, <2>2
    <2>4. /\ b + Len(t) \in b .. d.read
          /\ t = Part(d.bytes, b, b + Len(t))
          /\ r = Part(d.bytes, b + Len(t), d.read)
        <3>1. d.bytes \in Seq(Byte) /\ Joined(t, r) = Part(d.bytes, b, d.read)
            BY <1>0, <2>3 DEF Joined
        <3> QED
            BY <2>3, <3>1, PartSplits
    <2>5. t = m.text
        BY <1>12, <1>14, <1>16, <2>2, <2>4
    <2>6. r = Part(d.bytes, c, d.read) /\ c <= d.read
        <3>1. b + Len(t) = c
            BY <1>12, <1>14, <1>16, <2>2
        <3> QED
            BY <2>4, <3>1
    <2>7. /\ Append(taken, m) \in Seq(Messages) /\ Len(Append(taken, m)) = n + 1
          /\ \A i \in 1 .. n : Append(taken, m)[i] = taken[i]
          /\ Append(taken, m)[n + 1] = m
        BY <1>1, <1>2, <1>10, AppendProperties
    <2>8. \A i \in 1 .. n + 1 : Append(taken, m)[i] = d.msgs[i]
        <3>1. \A i \in 1 .. n + 1 : i \in 1 .. n \/ i = n + 1
            BY <1>2
        <3> QED
            BY <1>1, <1>2, <1>8, <2>7, <3>1
    <2>9. n + 1 <= Len(d.msgs)
        BY <1>0, <1>7
    <2>10. TakenApart(d, Append(taken, m), r)
        BY <1>1, <1>9, <2>6, <2>7, <2>8, <2>9 DEF TakenApart, Part
    <2> QED
        BY <2>5, <2>10
<1>17. ASSUME d.read \in d.ends
       PROVE  Len(left) >= 8 + Len(m.text)
    <2>1. PICK k \in 0 .. Len(d.msgs) : d.read = off[k]
        BY <1>1, <1>17
    <2>2. n < k
        BY <1>1, <1>3, <1>4, <1>6, <2>1, CutsHave
    <2>3. n + 1 <= k
        BY <1>0, <2>2
    <2>4. c <= d.read
        BY <1>1, <1>9, <1>10, <2>1, <2>3, CutsHave
    <2>5. PICK x \in Nat, y \in Nat : x = a /\ y = d.read
        <3>1. a \in Nat /\ d.read \in Nat
            BY <1>0, <1>4
        <3> QED
            BY <3>1
    <2>6. c = x + 8 + l /\ c <= y /\ Len(left) = y - x
        BY <1>5, <1>14, <2>4, <2>5
    <2>7. y - x >= 8 + l
        BY <2>5, <2>6
    <2> QED
        BY <1>12, <2>6, <2>7
<1>18. \E k \in 1 .. Len(d.msgs) : m = d.msgs[k]
    <2>1. n + 1 \in 1 .. Len(d.msgs)
        BY <1>0, <1>7
    <2> QED
        BY <1>8, <2>1
<1> QED
    BY <1>5, <1>10, <1>15, <1>16, <1>17, <1>18 DEF IsNext

\* With nothing left, all the messages that end in what was read have been taken.
LEMMA AllTaken ==
    ASSUME NEW d, DirectionOK(d), NEW taken, TakenApart(d, taken, <<>>)
    PROVE  /\ Len(taken) = Cardinality({e \in d.ends : 0 < e /\ e <= d.read})
           /\ d.read = Len(d.bytes) => taken = d.msgs
<1> DEFINE T == {e \in d.ends : 0 < e /\ e <= d.read}
<1>0. /\ d.msgs \in Seq(Messages) /\ Len(d.msgs) \in Nat /\ d.bytes \in Seq(Byte)
      /\ Len(d.bytes) \in Nat /\ d.read \in 0 .. Len(d.bytes)
    BY DirectionHas
<1>1. PICK off :
        /\ Cuts(d.msgs, d.bytes, off)
        /\ d.ends = {off[k] : k \in 0 .. Len(d.msgs)}
        /\ taken \in Seq(Messages) /\ Len(taken) <= Len(d.msgs)
        /\ \A i \in 1 .. Len(taken) : taken[i] = d.msgs[i]
        /\ off[Len(taken)] <= d.read
        /\ <<>> = SubSeq(d.bytes, off[Len(taken)] + 1, d.read)
    BY DEF TakenApart
<1>2. PICK n \in Nat : n = Len(taken)
    BY <1>1, LenProperties
<1>3. n \in 0 .. Len(d.msgs) /\ 0 \in 0 .. Len(d.msgs) /\ Len(d.msgs) \in 0 .. Len(d.msgs)
    BY <1>0, <1>1, <1>2
<1>4. off[n] \in 0 .. Len(d.bytes) /\ d.read \in off[n] .. Len(d.bytes)
    <2>1. off[n] \in 0 .. Len(d.bytes)
        BY <1>1, <1>3, CutsHave
    <2> QED
        BY <1>0, <1>1, <1>2, <2>1
<1>5. d.read = off[n]
    <2>1. Len(SubSeq(d.bytes, off[n] + 1, d.read)) = d.read - off[n]
        BY <1>0, <1>4, PartOf
    <2>2. Len(<<>>) = 0
        OBVIOUS
    <2>3. PICK x \in Nat, y \in Nat : x = off[n] /\ y = d.read
        BY <1>0, <1>4
    <2>4. y - x = 0
        BY <1>1, <1>2, <2>1, <2>2, <2>3
    <2> QED
        BY <2>3, <2>4
<1>6. off[0] = 0 /\ off[Len(d.msgs)] = Len(d.bytes)
    BY <1>1 DEF Cuts
<1>7. ASSUME d.read = Len(d.bytes)
      PROVE  taken = d.msgs
    <2>1. n = Len(d.msgs)
        <3>1. off[n] = off[Len(d.msgs)]
            BY <1>5, <1>6, <1>7
        <3>2. \A j, k \in 0 .. Len(d.msgs) : off[j] = off[k] => j = k
            BY <1>1, CutsHave
        <3> QED
            BY <1>3, <3>1, <3>2
    <2> QED
        BY <1>0, <1>1, <1>2, <2>1, SeqEqual
<1>8. T = {off[k] : k \in 1 .. n}
    <2>1. \A k \in 1 .. n : k \in 0 .. Len(d.msgs) /\ 0 < off[k] /\ off[k] <= off[n]
        <3> TAKE k \in 1 .. n
        <3>1. k \in 0 .. Len(d.msgs) /\ k <= n /\ 0 < k
            BY <1>0, <1>3
        <3>2. off[0] < off[k]
            BY <1>1, <1>3, <3>1 DEF Cuts
        <3>3. off[k] <= off[n]
            BY <1>1, <1>3, <3>1, CutsHave
        <3> QED
            BY <1>6, <3>1, <3>2, <3>3
    <2>2. \A k \in 0 .. Len(d.msgs) : 0 < off[k] /\ off[k] <= off[n] => k \in 1 .. n
        <3> SUFFICES ASSUME NEW k \in 0 .. Len(d.msgs), 0 < off[k], off[k] <= off[n]
                     PROVE  k \in 1 .. n
            OBVIOUS
        <3>1. off[k] \in Nat /\ off[n] \in Nat
            BY <1>1, <1>3, CutsHave
        <3>2. ~(off[n] < off[k])
            BY <3>1
        <3>3. ~(n < k)
            BY <1>1, <1>3, <3>2 DEF Cuts
        <3>4. 0 < k
            BY <1>1, <1>3, <1>6, CutsHave
        <3> QED
            BY <1>0, <1>3, <3>3, <3>4
    <2> QED
        BY <1>1, <1>5, <2>1, <2>2
<1>9. Cardinality(T) = n
    <2> DEFINE f == [k \in 1 .. n |-> off[k]]
    <2>1. f \in Bijection(1 .. n, T)
        <3>1. f \in [1 .. n -> T]
            BY <1>8
        <3>2. \A j, k \in 1 .. n : f[j] = f[k] => j = k
            <4>1. \A k \in 1 .. n : k \in 0 .. Len(d.msgs)
                BY <1>0, <1>3
            <4> QED
                BY <1>1, <4>1, CutsHave
        <3>3. \A e \in T : \E k \in 1 .. n : f[k] = e
            BY <1>8
        <3> HIDE DEF f, T
        <3>4. f \in Injection(1 .. n, T)
            BY <3>1, <3>2 DEF Injection, IsInjective
        <3>5. f \in Surjection(1 .. n, T)
            BY <3>1, <3>3 DEF Surjection
        <3> QED
            BY <3>4, <3>5 DEF Bijection
    <2>2. ExistsBijection(1 .. n, T)
        BY <2>1 DEF ExistsBijection
    <2> HIDE DEF T
    <2>3. IsFiniteSet(1 .. n) /\ Cardinality(1 .. n) = n
        <3>1. 1 \in Int /\ n \in Int
            OBVIOUS
        <3>2. /\ IsFiniteSet(1 .. n)
              /\ Cardinality(1 .. n) = IF 1 <= n THEN n - 1 + 1 ELSE 0
            BY <3>1, FS_Interval
        <3> QED
            BY <3>2
    <2> QED
        BY <2>2, <2>3, FS_Bijection
<1> QED
    BY <1>2, <1>7, <1>9

\* What is read first of the bytes on their way.
LEMMA FirstPart ==
    \A q, z, s \in Seq(Byte) : \A r \in 0 .. Len(s), n \in 0 .. Len(q) :
        Joined(q, z) = Part(s, r, Len(s)) =>
            /\ Part(q, 0, n) \in Seq(Byte) /\ Len(Part(q, 0, n)) = n
            /\ r + n <= Len(s)
            /\ Part(q, 0, n) = Part(s, r, r + n)
<1> SUFFICES ASSUME NEW q \in Seq(Byte), NEW z \in Seq(Byte), NEW s \in Seq(Byte),
                    NEW r \in 0 .. Len(s), NEW n \in 0 .. Len(q),
                    Joined(q, z) = Part(s, r, Len(s))
             PROVE  /\ Part(q, 0, n) \in Seq(Byte) /\ Len(Part(q, 0, n)) = n
                    /\ r + n <= Len(s)
                    /\ Part(q, 0, n) = Part(s, r, r + n)
    OBVIOUS
<1>0. Len(q) \in Nat /\ Len(s) \in Nat
    BY LenProperties
<1>1. Len(s) \in r .. Len(s)
    BY <1>0
<1>2. r + Len(q) \in r .. Len(s) /\ q = Part(s, r, r + Len(q))
    BY <1>1, PartSplits
<1>3. r + n \in r .. Len(s) /\ r + Len(q) \in r .. Len(s) /\ r + n <= Len(s)
    BY <1>0, <1>2
<1>4. \A i \in 1 .. Len(q) : q[i] = s[r + i]
    <2>1. PICK b : b = r + Len(q)
        OBVIOUS
    <2>2. b \in r .. Len(s) /\ b - r = Len(q)
        BY <1>0, <1>3, <2>1
    <2>3. \A i \in 1 .. b - r : SubSeq(s, r + 1, b)[i] = s[r + i]
        BY <2>2, PartOf
    <2>4. q = SubSeq(s, r + 1, b)
        BY <1>2, <2>1 DEF Part
    <2> QED
        BY <2>2, <2>3, <2>4
<1> DEFINE u == SubSeq(q, 0 + 1, n)
           v == SubSeq(s, r + 1, r + n)
<1>5. u \in Seq(Byte) /\ Len(u) = n /\ \A i \in 1 .. n : u[i] = q[i]
    <2>1. 0 \in 0 .. Len(q) /\ n \in 0 .. Len(q)
        BY <1>0
    <2>2. u \in Seq(Byte) /\ Len(u) = n - 0 /\ \A i \in 1 .. n - 0 : u[i] = q[0 + i]
        BY <2>1, PartOf
    <2> QED
        BY <1>0, <2>2
<1>6. v \in Seq(Byte) /\ Len(v) = n /\ \A i \in 1 .. n : v[i] = s[r + i]
    <2>1. r + n - r = n
        BY <1>0
    <2>2. /\ v \in Seq(Byte) /\ Len(v) = r + n - r
          /\ \A i \in 1 .. r + n - r : v[i] = s[r + i]
        BY <1>3, PartOf
    <2> QED
        BY <2>1, <2>2
<1>7. \A i \in 1 .. n : i \in 1 .. Len(q)
    BY <1>0
<1> HIDE DEF u, v
<1>8. u = v
    BY <1>4, <1>5, <1>6, <1>7, SeqEqual
<1> QED
    BY <1>3, <1>5, <1>8 DEF u, v, Part

-----------------------------------------------------------------------------
(***************************************************************************)
(* The client.                                                             *)
(***************************************************************************)

\* What is readable in its buffer is the next bytes of the server's messages that it has
\* not taken.
ClientInv ==
    /\ TakenApart(messages, shown, Readable(clientBuffer))
    /\ client = "idle" => readableBytes(clientBuffer) = 0
    /\ client = "reading" => readableBytes(clientBuffer) # 0
    /\ "client" \in stopped => messages.torn
    /\ ~messages.torn => messages.read \in messages.ends

LEMMA NothingTakenApart == DirectionOK(Nothing) /\ TakenApart(Nothing, <<>>, <<>>)
<1>1. <<>> \in Seq(Messages) /\ <<>> \in Seq(Byte) /\ Len(<<>>) = 0
    OBVIOUS
<1>2. Nothing \in Direction
    BY <1>1 DEF Nothing, Direction
<1>3. /\ Nothing.msgs = <<>> /\ Nothing.bytes = <<>> /\ Nothing.ends = {0}
      /\ Nothing.read = 0
    BY DEF Nothing
<1>4. PICK off : off = [k \in 0 .. 0 |-> 0]
    OBVIOUS
<1>5. off \in [0 .. 0 -> 0 .. 0] /\ off[0] = 0
    BY <1>4
<1>6. Cuts(<<>>, <<>>, off)
    BY <1>1, <1>5 DEF Cuts
<1>7. SubSeq(<<>>, off[0] + 1, 0) = <<>>
    BY <1>5
<1> QED
    BY <1>1, <1>2, <1>3, <1>5, <1>6, <1>7 DEF DirectionOK, TakenApart

LEMMA InitClient == Init => ClientInv
<1> SUFFICES ASSUME Init PROVE ClientInv
    OBVIOUS
<1>1. Readable(NewBuffer) = <<>> /\ IsQueue(NewBuffer)
    BY NewBufferIsEmpty
<1>2. readableBytes(NewBuffer) = 0
    BY BufferAssumption DEF NewBuffer, readableBytes
<1>3. messages.read \in messages.ends
    BY DEF Init, Nothing
<1> QED
    BY <1>1, <1>2, <1>3, NothingTakenApart DEF Init, ClientInv

LEMMA DirectionsOK ==
    ASSUME Inv
    PROVE  DirectionOK(messages)
    BY DEF Inv, BytesOK, DirectionOK

LEMMA AppendOutBufferClient ==
    ASSUME Inv, ClientInv, NEW m \in Replies, AppendOutBuffer(m)
    PROVE  ClientInv'
<1>1. m \in Messages
    BY StreamAssumption DEF StreamAssumption
<1>2. /\ UNCHANGED <<shown, clientBuffer, client, stopped>>
      /\ messages' = Written(messages, m)
    BY DEF AppendOutBuffer, clientVars
<1>3. DirectionOK(messages)
    BY DirectionsOK
<1>4. TakenApart(messages', shown, Readable(clientBuffer))
    BY <1>1, <1>2, <1>3, WrittenTakenApart DEF ClientInv
<1>5. messages'.torn = messages.torn
      /\ (messages.read \in messages.ends => messages'.read \in messages'.ends)
    BY <1>1, <1>2, <1>3, WrittenDirection
<1> QED
    BY <1>2, <1>4, <1>5 DEF ClientInv

LEMMA ReceiveDataClient ==
    ASSUME Inv, ClientInv, NEW n \in 1 .. Len(toClient), ReceiveData(n)
    PROVE  ClientInv'
<1>1. /\ UNCHANGED <<shown, stopped>> /\ client' = "reading"
      /\ messages' = ReadFrom(messages, n)
      /\ clientBuffer' = readSocket(clientBuffer, SubSeq(toClient, 1, n))
      /\ "client" \notin stopped /\ client = "idle"
    BY DEF ReceiveData
<1>2. /\ DirectionOK(messages) /\ toClient \in Seq(Byte) /\ Len(toClient) \in Nat
      /\ IsQueue(clientBuffer) /\ Readable(outBuffer) \in Seq(Byte)
      /\ messages.bytes \in Seq(Byte) /\ messages.read \in 0 .. Len(messages.bytes)
      /\ Len(messages.bytes) \in Nat
    BY DirectionsOK, DirectionHas, LenProperties, ReadableType DEF Inv, BytesOK, QueuesOK
<1>3. PICK p : p = SubSeq(toClient, 1, n)
    OBVIOUS
<1>4. /\ p \in Seq(Byte) /\ Len(p) = n /\ messages.read + n <= Len(messages.bytes)
      /\ p = SubSeq(messages.bytes, messages.read + 1, messages.read + n)
    <2>1. PICK q \in Seq(Byte), z \in Seq(Byte), s \in Seq(Byte), r \in 0 .. Len(messages.bytes) :
              /\ q = toClient /\ z = Readable(outBuffer)
              /\ s = messages.bytes /\ r = messages.read
        BY <1>2
    <2>2. Joined(q, z) = Part(s, r, Len(s))
        BY <2>1 DEF Inv, OutBufferIsQueue, Joined, Part
    <2>3. n \in 0 .. Len(q) /\ r \in 0 .. Len(s)
        BY <1>2, <2>1
    <2>4. /\ Part(q, 0, n) \in Seq(Byte) /\ Len(Part(q, 0, n)) = n
          /\ r + n <= Len(s) /\ Part(q, 0, n) = Part(s, r, r + n)
        BY <2>2, <2>3, FirstPart
    <2>5. Part(q, 0, n) = p
        BY <1>3, <2>1 DEF Part
    <2>6. p = SubSeq(s, r + 1, r + n)
        BY <2>4, <2>5 DEF Part
    <2> QED
        BY <2>1, <2>4, <2>5, <2>6
<1>5. IsQueue(clientBuffer') /\ Readable(clientBuffer') = Readable(clientBuffer) \o p
    <2>1. HasRoom(clientBuffer, Len(p))
        BY <1>4 DEF ReceiveData
    <2> QED
        BY <1>1, <1>2, <1>3, <1>4, <2>1, BytesReadAtEnd
<1>6. n \in Nat /\ n > 0
    BY <1>2
<1>7. TakenApart(messages', shown, Readable(clientBuffer'))
    <2>1. TakenApart(messages, shown, Readable(clientBuffer))
        BY DEF ClientInv
    <2>2. TakenApart(ReadFrom(messages, n), shown,
              Readable(clientBuffer)
                  \o SubSeq(messages.bytes, messages.read + 1, messages.read + n))
        BY <1>2, <1>4, <1>6, <2>1, ReadTakenApart
    <2> QED
        BY <1>1, <1>4, <1>5, <2>2
<1>8. readableBytes(clientBuffer') # 0
    <2>1. Readable(clientBuffer) \in Seq(Byte) /\ Len(Readable(clientBuffer)) \in Nat
        BY <1>2, ReadableType
    <2>2. Len(Readable(clientBuffer) \o p) = Len(Readable(clientBuffer)) + n
        BY <1>4, <2>1, ConcatProperties
    <2>3. readableBytes(clientBuffer') = Len(Readable(clientBuffer'))
        BY <1>5, ReadableType
    <2> QED
        BY <1>5, <1>6, <2>1, <2>2, <2>3
<1>9. ~messages'.torn => messages'.read \in messages'.ends
    BY <1>1, <1>2 DEF ReadFrom, DirectionOK, Direction
<1> QED
    BY <1>1, <1>7, <1>8, <1>9 DEF ClientInv

\* What the client finds in a buffer that is not empty: the heading of the next message,
\* if its bytes are there, and then its text, if those are.
LEMMA ClientFinds ==
    ASSUME Inv, ClientInv, client = "reading"
    PROVE  \E m \in Messages :
        /\ 8 <= readableBytes(clientBuffer) =>
              /\ HeadRead(clientBuffer) = [protocolId |-> m.protocolId, account |-> m.account,
                                           dataType |-> TEXT, dataLength |-> Len(m.text)]
              /\ IsQueue(BehindHead(clientBuffer))
              /\ readableBytes(BehindHead(clientBuffer)) = readableBytes(clientBuffer) - 8
              /\ Len(m.text) <= readableBytes(BehindHead(clientBuffer)) =>
                    /\ Peek(BehindHead(clientBuffer), Len(m.text)) = m.text
                    /\ TakenApart(messages, Append(shown, m),
                           Readable(retrieveAsString(BehindHead(clientBuffer), Len(m.text))))
                    /\ IsQueue(retrieveAsString(BehindHead(clientBuffer), Len(m.text)))
        /\ Len(m.text) \in Nat
        /\ messages.read \in messages.ends => readableBytes(clientBuffer) >= 8 + Len(m.text)
<1>1. PICK b, left : b = clientBuffer /\ left = Readable(clientBuffer)
    OBVIOUS
<1>2. /\ IsQueue(b) /\ left \in Seq(Byte) /\ Len(left) = readableBytes(b)
      /\ readableBytes(b) \in Nat /\ readableBytes(b) # 0
    <2>1. IsQueue(b)
        BY <1>1 DEF Inv, QueuesOK
    <2>2. readableBytes(b) # 0
        BY <1>1 DEF ClientInv
    <2> QED
        BY <1>1, <2>1, <2>2, ReadableType
<1>3. left # <<>>
    BY <1>2, EmptySeq
<1>4. TakenApart(messages, shown, left)
    BY <1>1 DEF ClientInv
<1>5. PICK m \in Messages :
        /\ \A h, r \in Seq(Byte) : left = h \o r /\ Len(h) = 8 => h = HeadBytes(m)
        /\ \A h, t, r \in Seq(Byte) :
              left = h \o (t \o r) /\ Len(h) = 8 /\ Len(t) = Len(m.text) =>
                  t = m.text /\ TakenApart(messages, Append(shown, m), r)
        /\ messages.read \in messages.ends => Len(left) >= 8 + Len(m.text)
    <2>1. PICK m \in Messages : IsNext(m, messages, shown, left)
        BY <1>3, <1>4, DirectionsOK, NextMessage
    <2> QED
        BY <2>1 DEF IsNext
<1>6. PICK n \in Nat : n = Len(m.text)
    BY EncodedParts
<1>7. ASSUME 8 <= readableBytes(b)
      PROVE  /\ HeadRead(b) = [protocolId |-> m.protocolId, account |-> m.account,
                               dataType |-> TEXT, dataLength |-> n]
             /\ IsQueue(BehindHead(b))
             /\ readableBytes(BehindHead(b)) = readableBytes(b) - 8
             /\ n <= readableBytes(BehindHead(b)) =>
                    /\ Peek(BehindHead(b), n) = m.text
                    /\ TakenApart(messages, Append(shown, m),
                                  Readable(retrieveAsString(BehindHead(b), n)))
                    /\ IsQueue(retrieveAsString(BehindHead(b), n))
    <2>1. PICK c : c = BehindHead(b)
        OBVIOUS
    <2>2. PICK h : h = Peek(b, 8)
        OBVIOUS
    <2>3. 8 \in 0 .. readableBytes(b) /\ b.m_readIndex + 8 <= b.m_size
        BY <1>2, <1>7 DEF IsQueue, IsBuffer, readableBytes
    <2>4. IsQueue(c) /\ h \o Readable(c) = left
        BY <1>1, <1>2, <2>1, <2>2, <2>3, BytesRetrievedFromFront DEF BehindHead, SIZE_BUFFER_HEAD
    <2>5. h \in Seq(Byte) /\ Len(h) = 8
        BY <1>2, <2>2, <2>3, PeekType DEF IsQueue
    <2>6. /\ Readable(c) \in Seq(Byte) /\ Len(Readable(c)) = readableBytes(c)
          /\ readableBytes(c) \in Nat
        BY <2>4, ReadableType
    <2>7. h = HeadBytes(m)
        BY <1>5, <2>4, <2>5, <2>6
    <2>8. HeadRead(b) = [protocolId |-> m.protocolId, account |-> m.account,
                         dataType |-> TEXT, dataLength |-> n]
        BY <1>6, <2>2, <2>7, EncodedParts DEF HeadRead, SIZE_BUFFER_HEAD
    <2>9. readableBytes(c) = readableBytes(b) - 8
        <3>1. Len(h \o Readable(c)) = Len(h) + Len(Readable(c))
            BY <2>5, <2>6, ConcatProperties
        <3>2. readableBytes(b) = 8 + readableBytes(c)
            BY <1>2, <2>4, <2>5, <2>6, <3>1
        <3> QED
            BY <2>6, <3>2
    <2>10. ASSUME n <= readableBytes(c)
           PROVE  /\ Peek(c, n) = m.text
                  /\ TakenApart(messages, Append(shown, m), Readable(retrieveAsString(c, n)))
                  /\ IsQueue(retrieveAsString(c, n))
        <3>1. PICK t, r : t = Peek(c, n) /\ r = Readable(retrieveAsString(c, n))
            OBVIOUS
        <3>2. n \in 0 .. readableBytes(c) /\ c.m_readIndex + n <= c.m_size
            BY <2>4, <2>10 DEF IsQueue, IsBuffer, readableBytes
        <3>3. IsQueue(retrieveAsString(c, n)) /\ t \o r = Readable(c)
            BY <2>4, <3>1, <3>2, BytesRetrievedFromFront
        <3>4. t \in Seq(Byte) /\ Len(t) = n
            BY <2>4, <3>1, <3>2, PeekType DEF IsQueue
        <3>5. r \in Seq(Byte)
            BY <3>1, <3>3, ReadableType
        <3>6. left = h \o (t \o r)
            BY <2>4, <3>3
        <3> QED
            BY <1>5, <1>6, <2>5, <3>1, <3>3, <3>4, <3>5, <3>6
    <2> QED
        BY <2>1, <2>4, <2>8, <2>9, <2>10
<1>8. messages.read \in messages.ends => readableBytes(b) >= 8 + n
    BY <1>2, <1>5, <1>6
<1> QED
    BY <1>1, <1>6, <1>7, <1>8

\* It takes a whole message or none.
LEMMA ReadDataClient ==
    ASSUME Inv, ClientInv, ReadData
    PROVE  ClientInv'
<1>1. /\ UNCHANGED <<messages, stopped>> /\ client = "reading" /\ CanTake(clientBuffer)
      /\ "client" \notin stopped
    BY DEF ReadData
<1>2. PICK b, c : b = clientBuffer /\ c = BehindHead(clientBuffer)
    OBVIOUS
<1>3. IsQueue(b) /\ 8 <= readableBytes(b)
    BY <1>1, <1>2
    DEF Inv, QueuesOK, CanTake, Asserted, IsQueue, IsBuffer, readableBytes, SIZE_BUFFER_HEAD
<1>4. PICK m \in Messages :
        /\ HeadRead(b) = [protocolId |-> m.protocolId, account |-> m.account,
                          dataType |-> TEXT, dataLength |-> Len(m.text)]
        /\ IsQueue(c)
        /\ Len(m.text) <= readableBytes(c) =>
              /\ Peek(c, Len(m.text)) = m.text
              /\ TakenApart(messages, Append(shown, m), Readable(retrieveAsString(c, Len(m.text))))
              /\ IsQueue(retrieveAsString(c, Len(m.text)))
        /\ Len(m.text) \in Nat
    BY <1>1, <1>2, <1>3, ClientFinds
<1>5. /\ HeadRead(b).dataLength = Len(m.text) /\ HeadRead(b).protocolId = m.protocolId
      /\ HeadRead(b).account = m.account
    BY <1>4
<1>6. Len(m.text) <= readableBytes(c)
    BY <1>1, <1>2, <1>4, <1>5 DEF CanTake, Asserted, IsQueue
<1>7. Message(m.protocolId, m.account, m.text) = m
    BY SMT DEF Messages, Message
<1>8. /\ clientBuffer' = retrieveAsString(c, Len(m.text))
      /\ shown' = Append(shown, m)
    BY <1>2, <1>4, <1>5, <1>6, <1>7 DEF ReadData
<1>9. TakenApart(messages', shown', Readable(clientBuffer'))
    BY <1>1, <1>4, <1>6, <1>8
<1>10. client' = "idle" <=> readableBytes(clientBuffer') = 0
    <2>1. readableBytes(clientBuffer') \in Nat
        BY <1>4, <1>6, <1>8, ReadableType
    <2>2. client' = IF readableBytes(clientBuffer') > 0 THEN "reading" ELSE "idle"
        BY DEF ReadData
    <2> QED
        BY <2>1, <2>2
<1> QED
    BY <1>1, <1>9, <1>10 DEF ClientInv

\* A whole message at the front of what has been read passes its assertions.
LEMMA AssertionFailsClient ==
    ASSUME Inv, ClientInv, AssertionFails
    PROVE  ClientInv'
<1>1. /\ UNCHANGED <<messages, clientBuffer, client, shown>> /\ client = "reading"
      /\ ~CanTake(clientBuffer)
    BY DEF AssertionFails, clientVars
<1>2. messages.torn
    <2> SUFFICES ASSUME ~messages.torn PROVE FALSE
        OBVIOUS
    <2>1. messages.read \in messages.ends
        BY DEF ClientInv
    <2>2. PICK b, c : b = clientBuffer /\ c = BehindHead(clientBuffer)
        OBVIOUS
    <2>3. PICK m \in Messages :
            /\ 8 <= readableBytes(b) =>
                  /\ HeadRead(b) = [protocolId |-> m.protocolId, account |-> m.account,
                                    dataType |-> TEXT, dataLength |-> Len(m.text)]
                  /\ readableBytes(c) = readableBytes(b) - 8
            /\ Len(m.text) \in Nat
            /\ readableBytes(b) >= 8 + Len(m.text)
        BY <1>1, <2>1, <2>2, ClientFinds
    <2>4. readableBytes(b) \in Int
        BY <2>2 DEF Inv, QueuesOK, IsQueue, IsBuffer, readableBytes
    <2>5. 8 <= readableBytes(b) /\ Len(m.text) <= readableBytes(b) - 8
        BY <2>3, <2>4
    <2>6. HeadRead(b).dataLength = Len(m.text) /\ Len(m.text) <= readableBytes(c)
        BY <2>3, <2>5
    <2>7. CanTake(b)
        BY <2>2, <2>5, <2>6 DEF CanTake, Asserted, SIZE_BUFFER_HEAD
    <2> QED
        BY <1>1, <2>2, <2>7
<1> QED
    BY <1>1, <1>2 DEF ClientInv

LEMMA NextClient == Inv /\ ClientInv /\ [Next]_vars => ClientInv'
<1> SUFFICES ASSUME Inv, ClientInv, [Next]_vars PROVE ClientInv'
    OBVIOUS
<1>1. CASE \E m \in Requests : WriteText(m)
    BY <1>1 DEF WriteText, clientVars, ClientInv
<1>2. CASE \E m \in Replies : AppendOutBuffer(m)
    BY <1>2, AppendOutBufferClient
<1>3. CASE \E n \in 1 .. readableBytes(outBuffer) : SendResponseInfo(n)
    BY <1>3 DEF SendResponseInfo, clientVars, ClientInv
<1>4. CASE \E n \in 1 .. Len(toServer) : GetRequestInfo(n)
    <2>1. UNCHANGED <<messages, clientBuffer, client, shown>>
          /\ ("client" \in stopped' => "client" \in stopped)
        BY <1>4 DEF GetRequestInfo, clientVars
    <2> QED
        BY <2>1 DEF ClientInv
<1>5. CASE \E n \in 1 .. Len(toClient) : ReceiveData(n)
    BY <1>5, ReceiveDataClient
<1>9. CASE \E n \in 1 .. Len(toClient) : Overrun(n)
    <2>1. UNCHANGED <<messages, clientBuffer, shown, stopped>> /\ client' = "overrun"
        BY <1>9 DEF Overrun
    <2> QED
        BY <2>1 DEF ClientInv
<1>6. CASE ReadData
    BY <1>6, ReadDataClient
<1>7. CASE AssertionFails
    BY <1>7, AssertionFailsClient
<1>8. CASE UNCHANGED vars
    BY <1>8 DEF vars, ClientInv
<1> QED
    BY <1>1, <1>2, <1>3, <1>4, <1>5, <1>6, <1>7, <1>8, <1>9 DEF Next

LEMMA TakenIsPrefix ==
    ASSUME NEW d, DirectionOK(d), NEW taken, NEW left, TakenApart(d, taken, left)
    PROVE  IsPrefix(taken, d.msgs)
<1>1. /\ taken \in Seq(Messages) /\ Len(taken) <= Len(d.msgs)
      /\ \A i \in 1 .. Len(taken) : taken[i] = d.msgs[i]
    BY DEF TakenApart
<1>2. /\ d.msgs \in Seq(Messages) /\ Len(d.msgs) \in Nat /\ Len(taken) \in Nat
    BY <1>1, DirectionHas, LenProperties
<1> DEFINE n == Len(taken)
           u == SubSeq(taken, 1, n)
           v == SubSeq(d.msgs, 1, n)
<1>3. \A i \in 1 .. n : taken[i] \in Messages /\ i \in 1 .. Len(d.msgs) /\ d.msgs[i] \in Messages
    BY <1>1, <1>2, ElementOfSeq
<1>4. n - 1 + 1 = n /\ n \in Int /\ 1 \in Int /\ \A i \in 1 .. n : 1 + i - 1 = i
    BY <1>2
<1>5. u \in Seq(Messages) /\ Len(u) = n /\ \A i \in 1 .. n : u[i] = taken[i]
    BY <1>2, <1>3, <1>4, SubSeqProperties
<1>6. v \in Seq(Messages) /\ Len(v) = n /\ \A i \in 1 .. n : v[i] = d.msgs[i]
    BY <1>2, <1>3, <1>4, SubSeqProperties
<1>7. u = v
    <2> HIDE DEF u, v
    <2> QED
        BY <1>1, <1>5, <1>6, SeqEqual
<1> QED
    BY <1>1, <1>7 DEF IsPrefix

\* As long as no read of the client brings more than its vector and extraBuf have room
\* for, it takes the server's messages in order and whole, wherever its reads end, has
\* all that have come when it waits for more, and fails an assertion only when a read of
\* its own has ended inside a message.
THEOREM ClientTakesMessages == Spec => []MessagesIntact
<1>1. Inv /\ ClientInv => MessagesIntact
    <2> SUFFICES ASSUME Inv, ClientInv PROVE MessagesIntact
        OBVIOUS
    <2>1. DirectionOK(messages) /\ TakenApart(messages, shown, Readable(clientBuffer))
        BY DirectionsOK DEF ClientInv
    <2>2. IsPrefix(shown, messages.msgs)
        BY <2>1, TakenIsPrefix
    <2>3. ASSUME client = "idle"
          PROVE  Len(shown) = Cardinality({e \in messages.ends : 0 < e /\ e <= messages.read})
        <3>1. readableBytes(clientBuffer) = 0
            BY <2>3 DEF ClientInv
        <3>2. Readable(clientBuffer) \in Seq(Byte) /\ Len(Readable(clientBuffer)) = 0
            BY <3>1, ReadableType DEF Inv, QueuesOK
        <3>3. Readable(clientBuffer) = <<>>
            BY <3>2, EmptySeq
        <3> QED
            BY <2>1, <3>3, AllTaken
    <2> QED
        BY <2>2, <2>3 DEF MessagesIntact, ClientInv
<1> QED
    BY InitInv, NextInv, InitClient, NextClient, <1>1, PTL DEF Spec

-----------------------------------------------------------------------------
(***************************************************************************)
(* The server, as long as its reads end where requests end.                *)
(***************************************************************************)

ServerInv ==
    /\ DirectionOK(requests) /\ requests.msgs \in Seq(ClientMessages)
    /\ toServer = SubSeq(requests.bytes, requests.read + 1, Len(requests.bytes))
    /\ ~requests.torn =>
          /\ IsQueue(inBuffer)
          /\ TakenApart(requests, handled, Readable(inBuffer))
          /\ "server" \notin stopped
          /\ requests.read \in requests.ends

LEMMA InitServer == Init => ServerInv
<1> SUFFICES ASSUME Init PROVE ServerInv
    OBVIOUS
<1>1. Readable(NewBuffer) = <<>> /\ IsQueue(NewBuffer)
    BY NewBufferIsEmpty
<1>2. /\ requests.bytes = <<>> /\ requests.read = 0 /\ requests.ends = {0}
      /\ requests.msgs = <<>>
    BY DEF Init, Nothing
<1>3. SubSeq(<<>>, 0 + 1, Len(<<>>)) = <<>>
    OBVIOUS
<1>4. toServer = SubSeq(requests.bytes, requests.read + 1, Len(requests.bytes))
    BY <1>2, <1>3 DEF Init
<1>5. requests.read \in requests.ends /\ requests.msgs \in Seq(ClientMessages)
    BY <1>2
<1> QED
    BY <1>1, <1>4, <1>5, NothingTakenApart DEF Init, ServerInv

LEMMA WriteTextServer ==
    ASSUME ServerInv, NEW m \in Requests, WriteText(m)
    PROVE  ServerInv'
<1>1. m \in Messages /\ m \in ClientMessages
    BY StreamAssumption DEF StreamAssumption, ClientMessages
<1>2. /\ UNCHANGED <<inBuffer, handled, stopped>>
      /\ requests' = Written(requests, m) /\ toServer' = toServer \o Encoded(m)
    BY DEF WriteText, serverVars
<1>3. DirectionOK(requests)
    BY DEF ServerInv
<1>4. /\ DirectionOK(requests') /\ requests'.bytes = requests.bytes \o Encoded(m)
      /\ requests'.read = requests.read /\ requests'.torn = requests.torn
      /\ requests.read \in requests.ends => requests'.read \in requests'.ends
    BY <1>1, <1>2, <1>3, WrittenDirection
<1>5. ~requests.torn => TakenApart(requests', handled, Readable(inBuffer))
    BY <1>1, <1>2, <1>3, WrittenTakenApart DEF ServerInv
<1>6. toServer' = SubSeq(requests'.bytes, requests'.read + 1, Len(requests'.bytes))
    <2>1. PICK s, t, r : s = requests.bytes /\ t = Encoded(m) /\ r = requests.read
        OBVIOUS
    <2>2. s \in Seq(Byte) /\ r \in 0 .. Len(s)
        BY <1>3, <2>1, DirectionHas
    <2>3. t \in Seq(Byte)
        BY <1>1, <2>1, EncodedParts
    <2>4. SubSeq(s \o t, r + 1, Len(s \o t)) = SubSeq(s, r + 1, Len(s)) \o t
        BY <2>2, <2>3, UnreadGrows
    <2>5. toServer = SubSeq(s, r + 1, Len(s))
        BY <2>1 DEF ServerInv
    <2> QED
        BY <1>2, <1>4, <2>1, <2>4, <2>5
<1>7. requests'.msgs \in Seq(ClientMessages)
    <2>1. requests'.msgs = Append(requests.msgs, m)
        BY <1>2, <1>3 DEF Written, DirectionOK, Direction
    <2>2. requests.msgs \in Seq(ClientMessages)
        BY DEF ServerInv
    <2> QED
        BY <1>1, <2>1, <2>2, AppendProperties
<1> QED
    BY <1>2, <1>4, <1>5, <1>6, <1>7 DEF ServerInv

\* What the server finds after a read that ended where a request ends: that request, or
\* one before it, whole.
LEMMA ServerFinds ==
    ASSUME NEW d, DirectionOK(d), NEW taken, NEW b, IsQueue(b),
           TakenApart(d, taken, Readable(b)), readableBytes(b) # 0, d.read \in d.ends
    PROVE  \E m \in Messages :
        /\ \E k \in 1 .. Len(d.msgs) : m = d.msgs[k]
        /\ HeadOf(b) = [protocolId |-> m.protocolId, account |-> m.account,
                        dataType |-> TEXT, dataLength |-> Len(m.text)]
        /\ Len(m.text) \in Nat /\ readableBytes(b) \in Nat
        /\ readableBytes(b) >= 8 + Len(m.text)
        /\ IsQueue(Behind(b)) /\ Len(m.text) <= readableBytes(Behind(b))
        /\ Peek(Behind(b), Len(m.text)) = m.text
        /\ IsQueue(retrieveAsString(Behind(b), Len(m.text)))
        /\ TakenApart(d, Append(taken, m), Readable(retrieveAsString(Behind(b), Len(m.text))))
        /\ m.text = <<>> => TakenApart(d, Append(taken, m), Readable(Behind(b)))
<1>1. PICK left : left = Readable(b)
    OBVIOUS
<1>2. /\ left \in Seq(Byte) /\ Len(left) = readableBytes(b) /\ readableBytes(b) \in Nat
    BY <1>1, ReadableType
<1>3. left # <<>>
    BY <1>2, EmptySeq
<1>4. PICK m \in Messages :
        /\ \A h, r \in Seq(Byte) : left = h \o r /\ Len(h) = 8 => h = HeadBytes(m)
        /\ \A h, t, r \in Seq(Byte) :
              left = h \o (t \o r) /\ Len(h) = 8 /\ Len(t) = Len(m.text) =>
                  t = m.text /\ TakenApart(d, Append(taken, m), r)
        /\ Len(left) >= 8 + Len(m.text)
        /\ \E k \in 1 .. Len(d.msgs) : m = d.msgs[k]
    <2>1. TakenApart(d, taken, left)
        BY <1>1
    <2>2. PICK m \in Messages : IsNext(m, d, taken, left)
        BY <1>3, <2>1, NextMessage
    <2>3. d.read \in d.ends
        OBVIOUS
    <2> QED
        BY <2>2, <2>3 DEF IsNext
<1>5. PICK n \in Nat : n = Len(m.text)
    BY EncodedParts
<1>6. readableBytes(b) >= 8 + n
    BY <1>2, <1>4, <1>5
<1>7. PICK c, h : c = Behind(b) /\ h = Peek(b, 8)
    OBVIOUS
<1>8. 8 \in 0 .. readableBytes(b) /\ b.m_readIndex + 8 <= b.m_size
    BY <1>2, <1>6 DEF IsQueue, IsBuffer, readableBytes
<1>9. IsQueue(c) /\ h \o Readable(c) = left
    BY <1>1, <1>7, <1>8, SkippedFromFront DEF Behind, SIZE_BUFFER_HEAD
<1>10. h \in Seq(Byte) /\ Len(h) = 8
    BY <1>7, <1>8, PeekType DEF IsQueue
<1>11. /\ Readable(c) \in Seq(Byte) /\ Len(Readable(c)) = readableBytes(c)
       /\ readableBytes(c) \in Nat
    BY <1>9, ReadableType
<1>12. h = HeadBytes(m)
    BY <1>4, <1>9, <1>10, <1>11
<1>13. HeadOf(b) = [protocolId |-> m.protocolId, account |-> m.account,
                    dataType |-> TEXT, dataLength |-> n]
    BY <1>5, <1>7, <1>12, EncodedParts DEF HeadOf, SIZE_BUFFER_HEAD
<1>14. n <= readableBytes(c)
    <2>1. Len(h \o Readable(c)) = Len(h) + Len(Readable(c))
        BY <1>10, <1>11, ConcatProperties
    <2>2. readableBytes(b) = 8 + readableBytes(c)
        BY <1>2, <1>9, <1>10, <1>11, <2>1
    <2> QED
        BY <1>6, <1>11, <2>2
<1>15. PICK t, r : t = Peek(c, n) /\ r = Readable(retrieveAsString(c, n))
    OBVIOUS
<1>16. n \in 0 .. readableBytes(c) /\ c.m_readIndex + n <= c.m_size
    BY <1>9, <1>14 DEF IsQueue, IsBuffer, readableBytes
<1>17. IsQueue(retrieveAsString(c, n)) /\ t \o r = Readable(c)
    BY <1>9, <1>15, <1>16, BytesRetrievedFromFront
<1>18. t \in Seq(Byte) /\ Len(t) = n
    BY <1>9, <1>15, <1>16, PeekType DEF IsQueue
<1>19. r \in Seq(Byte)
    BY <1>15, <1>17, ReadableType
<1>20. t = m.text /\ TakenApart(d, Append(taken, m), r)
    <2>1. left = h \o (t \o r)
        BY <1>9, <1>17
    <2> QED
        BY <1>4, <1>5, <1>10, <1>18, <1>19, <2>1
<1>21. m.text = <<>> => TakenApart(d, Append(taken, m), Readable(c))
    <2>1. <<>> \o r = r
        BY <1>19
    <2> QED
        BY <1>17, <1>20, <2>1
<1> QED
    BY <1>2, <1>4, <1>5, <1>6, <1>7, <1>9, <1>13, <1>14, <1>15, <1>17, <1>20, <1>21

LEMMA GetRequestInfoServer ==
    ASSUME ServerInv, NEW n \in 1 .. Len(toServer), GetRequestInfo(n)
    PROVE  ServerInv'
<1>1. /\ requests' = ReadFrom(requests, n)
      /\ toServer' = SubSeq(toServer, n + 1, Len(toServer))
    BY DEF GetRequestInfo
<1>2. /\ DirectionOK(requests) /\ requests.bytes \in Seq(Byte)
      /\ requests.read \in 0 .. Len(requests.bytes) /\ Len(requests.bytes) \in Nat
      /\ requests.msgs \in Seq(ClientMessages)
    BY DirectionHas DEF ServerInv
<1>3. PICK p : p = SubSeq(toServer, 1, n)
    OBVIOUS
<1>4. PICK q \in Seq(Byte), s \in Seq(Byte), r \in 0 .. Len(requests.bytes) :
          q = toServer /\ s = requests.bytes /\ r = requests.read
    <2>1. toServer \in Seq(Byte)
        BY <1>2, LastBytes DEF ServerInv
    <2> QED
        BY <1>2, <2>1
<1>5. r \in 0 .. Len(s) /\ n \in 0 .. Len(q) /\ n \in Nat /\ n > 0
      /\ q = SubSeq(s, r + 1, Len(s)) /\ Len(q) \in Nat
    <2>1. Len(q) \in Nat
        BY LenProperties
    <2> QED
        BY <1>4, <2>1 DEF ServerInv
<1>6. /\ p \in Seq(Byte) /\ Len(p) = n /\ requests.read + n <= Len(requests.bytes)
      /\ p = SubSeq(requests.bytes, requests.read + 1, requests.read + n)
    <2>0. <<>> \in Seq(Byte)
        OBVIOUS
    <2>1. PICK z \in Seq(Byte) : z = <<>>
        BY <2>0
    <2>2. Joined(q, z) = Part(s, r, Len(s))
        BY <1>5, <2>1 DEF Joined, Part
    <2>3. /\ Part(q, 0, n) \in Seq(Byte) /\ Len(Part(q, 0, n)) = n
          /\ r + n <= Len(s) /\ Part(q, 0, n) = Part(s, r, r + n)
        <3>1. \A j \in 0 .. Len(s), k \in 0 .. Len(q) :
                  Joined(q, z) = Part(s, j, Len(s)) =>
                      /\ Part(q, 0, k) \in Seq(Byte) /\ Len(Part(q, 0, k)) = k
                      /\ j + k <= Len(s)
                      /\ Part(q, 0, k) = Part(s, j, j + k)
            BY FirstPart
        <3> QED
            BY <1>5, <2>2, <3>1
    <2>4. Part(q, 0, n) = p
        BY <1>3, <1>4 DEF Part
    <2>5. p = SubSeq(s, r + 1, r + n)
        BY <2>3, <2>4 DEF Part
    <2> QED
        BY <1>4, <2>3, <2>4, <2>5
<1>7. /\ requests'.msgs = requests.msgs /\ requests'.bytes = requests.bytes
      /\ requests'.ends = requests.ends
      /\ requests'.read = requests.read + n
      /\ requests'.torn = (requests.torn \/ requests.read + n \notin requests.ends)
    BY <1>1, <1>2 DEF ReadFrom, DirectionOK, Direction
<1>8. DirectionOK(requests')
    <2>1. PICK x \in Nat : x = requests.read + n /\ x <= Len(requests.bytes)
        <3>1. requests.read + n \in Nat
            BY <1>2, <1>5
        <3> QED
            BY <1>6, <3>1
    <2>2. PICK y \in BOOLEAN : y = (requests.torn \/ requests.read + n \notin requests.ends)
        BY <1>2 DEF DirectionOK, Direction
    <2>3. requests' = [requests EXCEPT !.read = x, !.torn = y]
        BY <1>1, <2>1, <2>2 DEF ReadFrom
    <2>4. requests' \in Direction
        BY <1>2, <2>3 DEF DirectionOK, Direction
    <2> QED
        BY <1>7, <2>1, <2>4 DEF DirectionOK
<1>9. toServer' = SubSeq(requests'.bytes, requests'.read + 1, Len(requests'.bytes))
    <2>0. <<>> \in Seq(Byte)
        OBVIOUS
    <2>1. PICK z \in Seq(Byte) : z = <<>>
        BY <2>0
    <2>2. q \o z = SubSeq(s, r + 1, Len(s))
        BY <1>5, <2>1
    <2>3. \A j \in 0 .. Len(s), k \in 0 .. Len(q) :
              q \o z = SubSeq(s, j + 1, Len(s)) =>
                  /\ SubSeq(q, k + 1, Len(q)) \in Seq(Byte)
                  /\ j + k \in 0 .. Len(s)
                  /\ SubSeq(q, k + 1, Len(q)) \o z = SubSeq(s, j + k + 1, Len(s))
        BY UnreadShrinks
    <2>4. /\ SubSeq(q, n + 1, Len(q)) \in Seq(Byte)
          /\ SubSeq(q, n + 1, Len(q)) \o z = SubSeq(s, r + n + 1, Len(s))
        BY <1>5, <2>2, <2>3
    <2>5. \A u \in Seq(Byte) : u \o <<>> = u
        OBVIOUS
    <2>6. SubSeq(q, n + 1, Len(q)) = SubSeq(s, r + n + 1, Len(s))
        BY <2>1, <2>4, <2>5
    <2> QED
        BY <1>1, <1>4, <1>7, <2>6
<1>10. ASSUME ~requests'.torn
       PROVE  /\ IsQueue(inBuffer')
              /\ TakenApart(requests', handled', Readable(inBuffer'))
              /\ "server" \notin stopped'
    <2>1. /\ ~requests.torn /\ requests'.read \in requests'.ends
          /\ IsQueue(inBuffer) /\ TakenApart(requests, handled, Readable(inBuffer))
          /\ "server" \notin stopped
        BY <1>7, <1>10 DEF ServerInv
    <2>2. PICK b : b = readFd(inBuffer, p)
        OBVIOUS
    <2>3. IsQueue(b) /\ Readable(b) = Readable(inBuffer) \o p
        <3>1. HasRoom(inBuffer, Len(p))
            BY <1>6 DEF GetRequestInfo
        <3> QED
            BY <1>6, <2>1, <2>2, <3>1, BytesReadAtEnd
    <2>4. TakenApart(requests', handled, Readable(b))
        <3>1. TakenApart(ReadFrom(requests, n), handled,
                  Readable(inBuffer)
                      \o SubSeq(requests.bytes, requests.read + 1, requests.read + n))
            BY <1>2, <1>5, <1>6, <2>1, ReadTakenApart
        <3> QED
            BY <1>1, <1>6, <2>3, <3>1
    <2>5. readableBytes(b) # 0
        <3>1. Readable(inBuffer) \in Seq(Byte) /\ Len(Readable(inBuffer)) \in Nat
            BY <2>1, ReadableType
        <3>2. Len(Readable(inBuffer) \o p) = Len(Readable(inBuffer)) + n
            BY <1>6, <3>1, ConcatProperties
        <3>3. readableBytes(b) = Len(Readable(b))
            BY <2>3, ReadableType
        <3> QED
            BY <1>5, <2>3, <3>1, <3>2, <3>3
    <2>6. PICK m \in Messages :
        /\ \E k \in 1 .. Len(requests'.msgs) : m = requests'.msgs[k]
        /\ HeadOf(b) = [protocolId |-> m.protocolId, account |-> m.account,
                        dataType |-> TEXT, dataLength |-> Len(m.text)]
        /\ Len(m.text) \in Nat /\ readableBytes(b) \in Nat
        /\ readableBytes(b) >= 8 + Len(m.text)
        /\ IsQueue(Behind(b)) /\ Len(m.text) <= readableBytes(Behind(b))
        /\ Peek(Behind(b), Len(m.text)) = m.text
        /\ IsQueue(retrieveAsString(Behind(b), Len(m.text)))
        /\ TakenApart(requests', Append(handled, m),
                      Readable(retrieveAsString(Behind(b), Len(m.text))))
        /\ m.text = <<>> => TakenApart(requests', Append(handled, m), Readable(Behind(b)))
        BY <1>8, <2>1, <2>3, <2>4, <2>5, ServerFinds
    <2>7. m \in ClientMessages
        <3>1. \A k \in 1 .. Len(requests.msgs) : requests.msgs[k] \in ClientMessages
            BY <1>2, ElementOfSeq
        <3> QED
            BY <1>7, <2>6, <3>1
    <2>8. PICK h : h = HeadOf(b)
        OBVIOUS
    <2>9. /\ h.protocolId = m.protocolId /\ h.account = m.account /\ h.dataType = TEXT
          /\ h.dataLength = Len(m.text)
        BY <2>6, <2>8
    <2>10. /\ HasText(h) <=> m.protocolId \in WithText
           /\ m.protocolId \in WithText \union Alone
           /\ m.protocolId \notin WithText => m.text = <<>>
        BY <2>7, <2>9 DEF HasText, ClientMessages
    <2>11. CanParse(b)
        <3>1. InVector(b, SIZE_BUFFER_HEAD)
            <4>1. readableBytes(b) \in Nat /\ readableBytes(b) >= 8
                BY <2>6
            <4> QED
                BY <2>3, <4>1 DEF InVector, SIZE_BUFFER_HEAD, IsQueue, IsBuffer, readableBytes
        <3>2. Asserted(Behind(b), Len(m.text)) /\ InVector(Behind(b), Len(m.text))
            <4>1. PICK c, x : c = Behind(b) /\ x = Len(m.text)
                OBVIOUS
            <4>2. IsQueue(c) /\ x \in Nat /\ x <= readableBytes(c)
                BY <2>6, <4>1
            <4>3. Asserted(c, x) /\ InVector(c, x)
                BY <4>2 DEF Asserted, InVector, IsQueue, IsBuffer, readableBytes
            <4> QED
                BY <4>1, <4>3
        <3> QED
            BY <2>8, <2>9, <3>1, <3>2 DEF CanParse
    <2>12. Message(m.protocolId, m.account, m.text) = m
        BY SMT DEF Messages, Message
    <2>13. Request(b) = m
        <3>1. Request(b) = Message(m.protocolId, m.account,
                                   IF HasText(h) THEN Peek(Behind(b), Len(m.text)) ELSE <<>>)
            BY <2>8, <2>9 DEF Request
        <3>2. (IF HasText(h) THEN Peek(Behind(b), Len(m.text)) ELSE <<>>) = m.text
            BY <2>6, <2>10
        <3> QED
            BY <2>12, <3>1, <3>2
    <2>14. /\ inBuffer' = IF HasText(h) THEN retrieveAsString(Behind(b), Len(m.text))
                                        ELSE Behind(b)
           /\ handled' = Append(handled, m)
           /\ stopped' = stopped
        <3>1. b = readFd(inBuffer, SubSeq(toServer, 1, n))
            BY <1>3, <2>2
        <3> QED
            BY <2>8, <2>9, <2>10, <2>11, <2>13, <3>1 DEF GetRequestInfo
    <2>15. CASE HasText(h)
        BY <2>1, <2>6, <2>14, <2>15
    <2>16. CASE ~HasText(h)
        BY <2>1, <2>6, <2>10, <2>14, <2>16
    <2> QED
        BY <2>15, <2>16
<1>11. ~requests'.torn => requests'.read \in requests'.ends
    BY <1>7
<1>12. requests'.msgs \in Seq(ClientMessages)
    BY <1>2, <1>7
<1> QED
    BY <1>8, <1>9, <1>10, <1>11, <1>12 DEF ServerInv

LEMMA NextServer == ServerInv /\ [Next]_vars => ServerInv'
<1> SUFFICES ASSUME ServerInv, [Next]_vars PROVE ServerInv'
    OBVIOUS
<1>1. CASE \E m \in Requests : WriteText(m)
    BY <1>1, WriteTextServer
<1>2. CASE \E m \in Replies : AppendOutBuffer(m)
    BY <1>2 DEF AppendOutBuffer, serverVars, ServerInv
<1>3. CASE \E n \in 1 .. readableBytes(outBuffer) : SendResponseInfo(n)
    BY <1>3 DEF SendResponseInfo, serverVars, ServerInv
<1>4. CASE \E n \in 1 .. Len(toServer) : GetRequestInfo(n)
    BY <1>4, GetRequestInfoServer
<1>5. CASE \E n \in 1 .. Len(toClient) : ReceiveData(n)
    BY <1>5 DEF ReceiveData, serverVars, ServerInv
<1>9. CASE \E n \in 1 .. Len(toClient) : Overrun(n)
    BY <1>9 DEF Overrun, serverVars, ServerInv
<1>6. CASE ReadData
    BY <1>6 DEF ReadData, serverVars, ServerInv
<1>7. CASE AssertionFails
    <2>1. UNCHANGED <<requests, toServer, inBuffer, handled>>
          /\ ("server" \in stopped' => "server" \in stopped)
        BY <1>7 DEF AssertionFails, serverVars
    <2> QED
        BY <2>1 DEF ServerInv
<1>8. CASE UNCHANGED vars
    BY <1>8 DEF vars, ServerInv
<1> QED
    BY <1>1, <1>2, <1>3, <1>4, <1>5, <1>6, <1>7, <1>8, <1>9 DEF Next

\* As long as every read of the server has ended where a request ends, it handles the
\* requests in order and whole, and all of them once nothing is left, however many come
\* with one read and whatever they say.
THEOREM ServerHandlesRequests == Spec => []RequestsIntact
<1>1. ServerInv => RequestsIntact
    <2> SUFFICES ASSUME ServerInv, ~requests.torn
                 PROVE  /\ "server" \notin stopped
                        /\ IsPrefix(handled, requests.msgs)
                        /\ toServer \o Readable(inBuffer) = <<>> => handled = requests.msgs
        BY DEF RequestsIntact
    <2>1. /\ DirectionOK(requests) /\ TakenApart(requests, handled, Readable(inBuffer))
          /\ "server" \notin stopped /\ IsQueue(inBuffer)
        BY DEF ServerInv
    <2>2. IsPrefix(handled, requests.msgs)
        BY <2>1, TakenIsPrefix
    <2>3. ASSUME toServer \o Readable(inBuffer) = <<>>
          PROVE  handled = requests.msgs
        <3>1. PICK s, r : s = requests.bytes /\ r = requests.read
            OBVIOUS
        <3>2. s \in Seq(Byte) /\ r \in 0 .. Len(s) /\ Len(s) \in Nat
            BY <2>1, <3>1, DirectionHas
        <3>3. toServer \in Seq(Byte) /\ Len(toServer) = Len(s) - r
            BY <3>1, <3>2, LastBytes DEF ServerInv
        <3>4. Readable(inBuffer) \in Seq(Byte)
            BY <2>1, ReadableType
        <3>5. toServer = <<>> /\ Readable(inBuffer) = <<>>
            BY <2>3, <3>3, <3>4, ConcatEmptySeq
        <3>6. Len(<<>>) = 0
            OBVIOUS
        <3>7. requests.read = Len(requests.bytes)
            BY <3>1, <3>2, <3>3, <3>5, <3>6
        <3> QED
            BY <2>1, <3>5, <3>7, AllTaken
    <2> QED
        BY <2>1, <2>2, <2>3
<1> QED
    BY InitServer, NextServer, <1>1, PTL DEF Spec

-----------------------------------------------------------------------------
(***************************************************************************)
(* Growing.                                                                *)
(***************************************************************************)

LEMMA AppendGrows ==
    ASSUME NEW b, IsQueue(b), NEW data \in Seq(Byte)
    PROVE  /\ IsQueue(append(b, data))
           /\ readableBytes(append(b, data)) = readableBytes(b) + Len(data)
           /\ readableBytes(b) \in Nat /\ Len(data) \in Nat
           /\ GrowsFor(b, append(b, data), Len(data))
<1>1. Len(data) \in Nat /\ readableBytes(b) \in Nat
    BY LenProperties, ReadableType
<1>2. PICK c : c = ensureWriteableSpace(b, Len(data))
    OBVIOUS
<1>3. IsQueue(c) /\ writableBytes(c) >= Len(data)
    BY <1>1, <1>2, SpaceKeepsReadable
<1>4. Len(data) <= writableBytes(c)
    BY <1>1, <1>3 DEF IsQueue, IsBuffer, writableBytes
<1>5. append(b, data) = Store(c, data) /\ Store(c, data).m_size = c.m_size
    BY <1>2, <1>3, <1>4, StoreAtEnd DEF append
<1>6. /\ IsQueue(append(b, data))
      /\ readableBytes(append(b, data)) = readableBytes(b) + Len(data)
    <2>1. IsQueue(append(b, data)) /\ Readable(append(b, data)) = Readable(b) \o data
        BY BytesAppendedAtEnd
    <2>2. Len(Readable(append(b, data))) = readableBytes(append(b, data))
        BY <2>1, ReadableType
    <2>3. Readable(b) \in Seq(Byte) /\ Len(Readable(b)) = readableBytes(b)
        BY ReadableType
    <2>4. Len(Readable(b) \o data) = Len(Readable(b)) + Len(data)
        BY <2>3, ConcatProperties
    <2> QED
        BY <2>1, <2>2, <2>3, <2>4
<1>7. c.m_size # b.m_size => readableBytes(b) + Len(data) > b.m_size
    <2> SUFFICES ASSUME c.m_size # b.m_size PROVE readableBytes(b) + Len(data) > b.m_size
        OBVIOUS
    <2>1. c = makeBufferSpace(b, Len(data))
        BY <1>2 DEF ensureWriteableSpace
    <2>2. writableBytes(b) + prependableBytes(b) < Len(data)
        BY <2>1 DEF makeBufferSpace, Compact
    <2> QED
        BY <1>1, <2>2 DEF writableBytes, prependableBytes, readableBytes, IsQueue, IsBuffer
<1> QED
    BY <1>1, <1>5, <1>6, <1>7 DEF GrowsFor

\* What did not fit is appended to a vector that is full, even when the reader had passed
\* the writer before.
LEMMA RestGrows ==
    ASSUME NEW b, IsBuffer(b), NEW data \in Seq(Byte), writableBytes(b) <= Len(data)
    PROVE  GrowsFor(b, append(Store(b, Fits(b, data)), Rest(b, data)), Len(data))
<1>1. PICK f, r : f = Fits(b, data) /\ r = Rest(b, data)
    OBVIOUS
<1>2. /\ Len(data) \in Nat /\ writableBytes(b) \in 0 .. Len(data)
      /\ f \in Seq(Byte) /\ Len(f) = writableBytes(b) /\ r \in Seq(Byte)
    BY <1>1, PartsType
<1>3. Len(r) = Len(data) - writableBytes(b)
    <2>1. Rest(b, data) = SubSeq(data, writableBytes(b) + 1, Len(data))
        BY DEF Rest
    <2> QED
        BY <1>1, <1>2, <2>1, LastBytes
<1>4. PICK c : c = Store(b, f)
    OBVIOUS
<1>5. /\ IsBuffer(c) /\ c.m_size = b.m_size /\ c.m_readIndex = b.m_readIndex
      /\ c.m_writeIndex = b.m_writeIndex + writableBytes(b)
    <2>1. Len(f) <= writableBytes(b)
        BY <1>2
    <2>2. /\ IsBuffer(Store(b, f))
          /\ Store(b, f).m_size = b.m_size
          /\ Store(b, f).m_readIndex = b.m_readIndex
          /\ Store(b, f).m_writeIndex = b.m_writeIndex + Len(f)
        BY <1>2, <2>1, StoreType
    <2> QED
        BY <1>2, <1>4, <2>2
<1>6. /\ b.m_size \in Nat /\ b.m_readIndex \in 0 .. b.m_size
      /\ b.m_writeIndex \in 0 .. b.m_size
    BY DEF IsBuffer
<1>7. c.m_writeIndex = b.m_size
    BY <1>5, <1>6 DEF writableBytes
<1>8. IsQueue(c)
    BY <1>5, <1>6, <1>7 DEF IsQueue
<1>9. append(c, r).m_size # c.m_size => readableBytes(c) + Len(r) > c.m_size
    BY <1>2, <1>8, AppendGrows DEF GrowsFor
<1>10. readableBytes(c) + Len(r) = readableBytes(b) + Len(data)
    BY <1>2, <1>3, <1>5, <1>6, <1>7 DEF readableBytes, writableBytes
<1> QED
    BY <1>1, <1>4, <1>5, <1>9, <1>10 DEF GrowsFor

LEMMA ReadGrows ==
    ASSUME NEW b, IsBuffer(b), NEW data \in Seq(Byte)
    PROVE  /\ GrowsFor(b, readFd(b, data), Len(data))
           /\ GrowsFor(b, readSocket(b, data), Len(data))
<1>0. Len(data) \in Nat /\ writableBytes(b) \in Int
    BY LenProperties DEF IsBuffer, writableBytes
<1>1. CASE Len(data) <= writableBytes(b)
    <2>1. Store(b, data).m_size = b.m_size
        BY <1>1, StoreType
    <2>2. GrowsFor(b, readSocket(b, data), Len(data))
        BY <1>1, <2>1 DEF readSocket, GrowsFor
    <2>3. CASE Len(data) < writableBytes(b)
        BY <2>1, <2>2, <2>3 DEF readFd, GrowsFor
    <2>4. CASE ~(Len(data) < writableBytes(b))
        BY <1>0, <2>2, <2>4, RestGrows DEF readFd
    <2> QED
        BY <2>3, <2>4
<1>2. CASE ~(Len(data) <= writableBytes(b))
    <2>1. writableBytes(b) <= Len(data) /\ ~(Len(data) < writableBytes(b))
        BY <1>0, <1>2
    <2> QED
        BY <1>2, <2>1, RestGrows DEF readFd, readSocket
<1> QED
    BY <1>1, <1>2

LEMMA RetrieveKeepsSize ==
    ASSUME NEW b, IsBuffer(b), NEW n
    PROVE  Skip(b, n).m_size = b.m_size /\ retrieveAsString(b, n).m_size = b.m_size
    BY DEF IsBuffer, Skip, retrieveAsString, retrieveAll

\* The server appends a message: the output buffer.
LEMMA AppendOutBufferGrows ==
    ASSUME Inv, NEW m \in Replies, AppendOutBuffer(m)
    PROVE  GrowsFor(outBuffer, outBuffer', Len(messages'.bytes) - Len(messages.bytes))
<1>1. m \in Messages
    BY StreamAssumption DEF StreamAssumption
<1>2. PICK h, t : h = SubSeq(Encoded(m), 1, SIZE_BUFFER_HEAD) /\ t = m.text
    OBVIOUS
<1>3. /\ h \in Seq(Byte) /\ t \in Seq(Byte) /\ Encoded(m) \in Seq(Byte)
      /\ h \o t = Encoded(m)
    BY <1>1, <1>2, EncodedType
<1>4. /\ Len(h) \in Nat /\ Len(t) \in Nat /\ Len(Encoded(m)) = Len(h) + Len(t)
    BY <1>3, ConcatProperties, LenProperties
<1>5. Len(messages'.bytes) - Len(messages.bytes) = Len(h) + Len(t)
    <2>1. messages' = Written(messages, m)
        BY DEF AppendOutBuffer
    <2>2. messages'.bytes = messages.bytes \o Encoded(m) /\ messages.bytes \in Seq(Byte)
        BY <1>1, <2>1, DirectionsOK, DirectionHas, WrittenDirection
    <2>3. Len(messages.bytes \o Encoded(m)) = Len(messages.bytes) + Len(Encoded(m))
        BY <1>3, <2>2, ConcatProperties
    <2>4. Len(messages.bytes) \in Nat
        BY <2>2, LenProperties
    <2> QED
        BY <1>4, <2>2, <2>3, <2>4
<1>6. PICK b, c : b = append(outBuffer, h) /\ c = append(b, t)
    OBVIOUS
<1>7. IsQueue(outBuffer) /\ outBuffer.m_size \in Nat
    BY DEF Inv, QueuesOK, IsQueue, IsBuffer
<1>8. /\ IsQueue(b) /\ readableBytes(outBuffer) \in Nat
      /\ readableBytes(b) = readableBytes(outBuffer) + Len(h)
      /\ b.m_size # outBuffer.m_size => readableBytes(outBuffer) + Len(h) > outBuffer.m_size
      /\ c.m_size # b.m_size => readableBytes(b) + Len(t) > b.m_size
    BY <1>3, <1>6, <1>7, AppendGrows DEF GrowsFor
<1>9. GrowsFor(outBuffer, c, Len(h) + Len(t))
    <2>1. CASE b.m_size = outBuffer.m_size
        BY <1>4, <1>8, <2>1 DEF GrowsFor
    <2>2. CASE b.m_size # outBuffer.m_size
        BY <1>4, <1>7, <1>8, <2>2 DEF GrowsFor
    <2> QED
        BY <2>1, <2>2
<1>10. outBuffer' = c
    BY <1>2, <1>6 DEF AppendOutBuffer
<1> QED
    BY <1>5, <1>9, <1>10

\* The server reads, and may compact the buffer or go back to its beginning as it parses.
LEMMA GetRequestInfoGrows ==
    ASSUME Inv, ServerInv, NEW n \in 1 .. Len(toServer), GetRequestInfo(n)
    PROVE  GrowsFor(inBuffer, inBuffer', requests'.read - requests.read)
<1>1. IsBuffer(inBuffer) /\ toServer \in Seq(Byte) /\ Len(toServer) \in Nat
    BY LenProperties DEF Inv, TypeOK, BytesOK
<1>2. PICK p : p = SubSeq(toServer, 1, n)
    OBVIOUS
<1>3. p \in Seq(Byte) /\ Len(p) = n
    <2>1. \A i \in 1 .. Len(toServer) : toServer[i] \in Byte
        BY <1>1, ElementOfSeq
    <2>2. \A i \in 1 .. n : toServer[i] \in Byte
        BY <1>1, <2>1
    <2> QED
        BY <1>1, <1>2, <2>2, SubSeqProperties
<1>4. requests'.read - requests.read = n
    <2>1. requests' = ReadFrom(requests, n)
        BY DEF GetRequestInfo
    <2>2. DirectionOK(requests)
        BY DEF ServerInv
    <2>3. requests \in Direction
        BY <2>2 DEF DirectionOK
    <2>4. requests.read \in Nat /\ requests'.read = requests.read + n
        BY <2>1, <2>3 DEF ReadFrom, Direction
    <2> QED
        BY <1>1, <2>4
<1>5. PICK b : b = readFd(inBuffer, p)
    OBVIOUS
<1>6. IsBuffer(b) /\ GrowsFor(inBuffer, b, n)
    BY <1>1, <1>3, <1>5, ReadFdType, ReadGrows
<1>7. inBuffer' = inBuffer \/ inBuffer'.m_size = b.m_size
    <2>1. CASE ~CanParse(b)
        BY <1>2, <1>5, <2>1 DEF GetRequestInfo, serverVars
    <2>2. CASE CanParse(b)
        <3>1. PICK len : inBuffer' = IF HasText(HeadOf(b))
                                     THEN retrieveAsString(Behind(b), len) ELSE Behind(b)
            BY <1>2, <1>5, <2>2 DEF GetRequestInfo
        <3>2. b.m_readIndex + 8 <= b.m_size
            BY <2>2 DEF CanParse, InVector, SIZE_BUFFER_HEAD
        <3>3. IsBuffer(Behind(b)) /\ Behind(b).m_size = b.m_size
            BY <1>6, <3>2, SkipType, RetrieveKeepsSize DEF Behind, SIZE_BUFFER_HEAD
        <3>4. retrieveAsString(Behind(b), len).m_size = b.m_size
            BY <3>3, RetrieveKeepsSize
        <3> QED
            BY <3>1, <3>3, <3>4
    <2> QED
        BY <2>1, <2>2
<1> QED
    BY <1>4, <1>6, <1>7 DEF GrowsFor

\* The client reads.
LEMMA ReceiveDataGrows ==
    ASSUME Inv, NEW n \in 1 .. Len(toClient), ReceiveData(n)
    PROVE  GrowsFor(clientBuffer, clientBuffer', messages'.read - messages.read)
<1>1. IsBuffer(clientBuffer) /\ toClient \in Seq(Byte) /\ Len(toClient) \in Nat
    BY LenProperties DEF Inv, TypeOK, BytesOK
<1>2. PICK p : p = SubSeq(toClient, 1, n)
    OBVIOUS
<1>3. p \in Seq(Byte) /\ Len(p) = n
    <2>1. \A i \in 1 .. Len(toClient) : toClient[i] \in Byte
        BY <1>1, ElementOfSeq
    <2>2. \A i \in 1 .. n : toClient[i] \in Byte
        BY <1>1, <2>1
    <2> QED
        BY <1>1, <1>2, <2>2, SubSeqProperties
<1>4. messages'.read - messages.read = n
    <2>1. messages' = ReadFrom(messages, n) /\ messages \in Direction
        BY DEF ReceiveData, Inv, BytesOK
    <2>2. messages.read \in Nat /\ messages'.read = messages.read + n
        BY <2>1 DEF ReadFrom, Direction
    <2> QED
        BY <1>1, <2>2
<1>5. clientBuffer' = readSocket(clientBuffer, p)
    BY <1>2 DEF ReceiveData
<1>6. GrowsFor(clientBuffer, readSocket(clientBuffer, p), Len(p))
    BY <1>1, <1>3, ReadGrows
<1> QED
    BY <1>3, <1>4, <1>5, <1>6

\* No order of writes, partial writes and reads makes one of the three buffers grow while
\* what it holds and what is added to it would fit in it.
THEOREM BuffersGrowWhenFull == Spec => GrowsOnlyWhenFull
<1> DEFINE G == /\ GrowsFor(inBuffer, inBuffer', requests'.read - requests.read)
                /\ GrowsFor(outBuffer, outBuffer', Len(messages'.bytes) - Len(messages.bytes))
                /\ GrowsFor(clientBuffer, clientBuffer', messages'.read - messages.read)
<1>1. Inv /\ ServerInv /\ [Next]_vars => [G]_vars
    <2> SUFFICES ASSUME Inv, ServerInv, Next PROVE G
        OBVIOUS
    <2>0. IsBuffer(outBuffer) /\ IsBuffer(clientBuffer) /\ IsQueue(clientBuffer)
        BY DEF Inv, QueuesOK, IsQueue
    <2>1. CASE \E m \in Requests : WriteText(m)
        BY <2>1 DEF WriteText, serverVars, clientVars, GrowsFor
    <2>2. CASE \E m \in Replies : AppendOutBuffer(m)
        <3>1. inBuffer' = inBuffer /\ clientBuffer' = clientBuffer
            BY <2>2 DEF AppendOutBuffer, serverVars, clientVars
        <3>2. GrowsFor(outBuffer, outBuffer', Len(messages'.bytes) - Len(messages.bytes))
            BY <2>2, AppendOutBufferGrows
        <3> QED
            BY <3>1, <3>2 DEF GrowsFor
    <2>3. CASE \E n \in 1 .. readableBytes(outBuffer) : SendResponseInfo(n)
        <3>1. /\ inBuffer' = inBuffer /\ clientBuffer' = clientBuffer
              /\ outBuffer'.m_size = outBuffer.m_size
            BY <2>0, <2>3, RetrieveKeepsSize DEF SendResponseInfo, writeFd, serverVars, clientVars
        <3> QED
            BY <3>1 DEF GrowsFor
    <2>4. CASE \E n \in 1 .. Len(toServer) : GetRequestInfo(n)
        <3>1. outBuffer' = outBuffer /\ clientBuffer' = clientBuffer
            BY <2>4 DEF GetRequestInfo, clientVars
        <3>2. GrowsFor(inBuffer, inBuffer', requests'.read - requests.read)
            BY <2>4, GetRequestInfoGrows
        <3> QED
            BY <3>1, <3>2 DEF GrowsFor
    <2>5. CASE \E n \in 1 .. Len(toClient) : ReceiveData(n)
        <3>1. inBuffer' = inBuffer /\ outBuffer' = outBuffer
            BY <2>5 DEF ReceiveData, serverVars
        <3>2. GrowsFor(clientBuffer, clientBuffer', messages'.read - messages.read)
            BY <2>5, ReceiveDataGrows
        <3> QED
            BY <3>1, <3>2 DEF GrowsFor
    <2>6. CASE \E n \in 1 .. Len(toClient) : Overrun(n)
        BY <2>6 DEF Overrun, serverVars, GrowsFor
    <2>7. CASE ReadData
        <3>1. PICK b, len : b = BehindHead(clientBuffer) /\ clientBuffer' = retrieveAsString(b, len)
            BY <2>7 DEF ReadData
        <3>2. IsQueue(clientBuffer) /\ 8 \in 0 .. readableBytes(clientBuffer)
            BY <2>0, <2>7
            DEF ReadData, CanTake, Asserted, IsQueue, IsBuffer, readableBytes, SIZE_BUFFER_HEAD
        <3>3. IsBuffer(b) /\ b.m_size = clientBuffer.m_size
            BY <2>0, <3>1, <3>2, BytesRetrievedFromFront, RetrieveKeepsSize
            DEF BehindHead, SIZE_BUFFER_HEAD, IsQueue
        <3>4. clientBuffer'.m_size = clientBuffer.m_size
            BY <3>1, <3>3, RetrieveKeepsSize
        <3>5. inBuffer' = inBuffer /\ outBuffer' = outBuffer
            BY <2>7 DEF ReadData, serverVars
        <3> QED
            BY <3>4, <3>5 DEF GrowsFor
    <2>8. CASE AssertionFails
        BY <2>8 DEF AssertionFails, serverVars, clientVars, GrowsFor
    <2> QED
        BY <2>1, <2>2, <2>3, <2>4, <2>5, <2>6, <2>7, <2>8 DEF Next
<1> QED
    BY InitInv, NextInv, InitServer, NextServer, <1>1, PTL DEF Spec, GrowsOnlyWhenFull
=============================================================================
