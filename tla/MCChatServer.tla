---------------------------- MODULE MCChatServer ----------------------------
(***************************************************************************)
(* Instances of ChatServer for TLC.                                        *)
(***************************************************************************)
EXTENDS ChatServer, TLC

CONSTANT
    Regulars        \* the connections in use when SteadySpec starts

\* Connections, accounts and workers are only compared.
Symmetry == Permutations(Regulars) \union Permutations(Conns \ Regulars)
            \union Permutations(Accounts) \union Permutations(Workers)

\* A value for the regulars and one for the other connections.
Both(r, o) == [c \in Conns |-> IF c \in Regulars THEN r ELSE o]

\* The regulars have logged in and entered, and the server has nothing left to do.
Steady ==
    /\ \E account \in [Conns -> Accounts \union {NoAccount}] :
          /\ \A c \in Conns : account[c] = NoAccount <=> c \notin Regulars
          /\ \A c, d \in Regulars : account[c] = account[d] => c = d
          /\ m_account = account /\ user = account
          /\ online \in SetToSeqs({[key |-> account[c], value |-> c, last_use_time |-> 0] :
                                      c \in Regulars})
    /\ status = Both("open", "none")
    /\ interest = Both({EPOLLIN}, {})
    /\ inBuffer = Both(<<>>, <<>>)
    /\ outBuffer = Both(<<>>, <<>>)
    /\ phase = Both("chatting", "none")
    /\ loginMsg = Both("LOGIN_SUCCESS", "none")
    /\ socket = Both(<<>>, <<>>)
    /\ delivered = Both(<<>>, <<>>)
    /\ sent = 0
    /\ ignored = {}
    /\ main = "wait"
    /\ events = {}
    /\ m_FunctorList = <<>>
    /\ functors = <<>>
    /\ posted = 0
    /\ jobs = <<>>
    /\ todo = [w \in Workers |-> <<>>]
    /\ clock = 0
    /\ ub = "none"

SteadySpec == Steady /\ [][Next]_vars
=============================================================================
