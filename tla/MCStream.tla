------------------------------ MODULE MCStream ------------------------------
(***************************************************************************)
(* Instances of Stream for TLC.                                            *)
(***************************************************************************)
EXTENDS Stream

\* A SEND whose text could be the protocols SEND and ACK, and an ACK.
SendAndAck == {Message(2, 258, <<2, 5>>), Message(5, 3, <<>>)}

\* The messages of two users, and no text in one of them.
TwoSenders == {Message(2, 258, <<2, 5>>), Message(2, 3, <<>>)}
=============================================================================
