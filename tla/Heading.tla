------------------------------ MODULE Heading ------------------------------
(***************************************************************************)
(* The heading of a message: DataEncoder.cpp of the server and of the      *)
(* client, which agree, Connection::parseHead with Buffer::parseInt, and   *)
(* the client's DataParser.  One byte for the protocol, two for the        *)
(* account, one for the type of the data and four for its length, each     *)
(* from its highest byte to its lowest.                                    *)
(***************************************************************************)
EXTENDS Integers, Sequences

SIZE_BUFFER_HEAD == 8

\* The byte of data whose place counts w; the bytes of data above the ones its field
\* has room for are not sent.
ByteAt(data, w) == (data \div w) % 256

encode(h) ==
    << ByteAt(h.protocolId, 1),
       ByteAt(h.account, 256), ByteAt(h.account, 1),
       ByteAt(h.dataType, 1),
       ByteAt(h.dataLength, 16777216), ByteAt(h.dataLength, 65536),
       ByteAt(h.dataLength, 256), ByteAt(h.dataLength, 1) >>

\* parseInt of two and of four bytes, from byte i: the numbers that the bytes stand for.
Short(s, i) == 256 * s[i] + s[i + 1]
Long(s, i)  == 16777216 * s[i] + 65536 * s[i + 1] + 256 * s[i + 2] + s[i + 3]

\* The server's reading of a heading,
parseHead(s) ==
    [protocolId |-> s[1], account |-> Short(s, 2),
     dataType |-> s[4], dataLength |-> Long(s, 5)]

\* and the client's: DataParser has a parseInt of its own.
baseParse(s) ==
    [protocolId |-> s[1], account |-> Short(s, 2),
     dataType |-> s[4], dataLength |-> Long(s, 5)]
=============================================================================
