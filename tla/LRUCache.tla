------------------------------ MODULE LRUCache ------------------------------
(***************************************************************************)
(* LRUCache.cpp at the level of its list: the nodes in list order, the     *)
(* most recently used first, with the map from keys to nodes implied.      *)
(* LRUList shows that the pointers and the map implement it.               *)
(*                                                                         *)
(* The server calls every operation whole; that two threads can be inside  *)
(* the cache at once is the subject of ChatServer.  The clock does not go  *)
(* back.  get and put read it for the node (LRUCache.cpp:46, 63, 77) and   *)
(* again in checkList (:104); here both readings are one.  The program may *)
(* see a later second in checkList, and then removes already the users     *)
(* that the model removes in its next operation; the node just used would  *)
(* be one of them only if more than live_Time, 200 seconds at the server,  *)
(* passed between the two statements.                                      *)
(***************************************************************************)
EXTENDS CacheParameters, Sequences, FiniteSets

VARIABLES
    list,           \* the nodes, from m_head to m_tail
    clock,          \* MyTime::getTimeStampSecond
    result          \* what the last get returned

vars == <<list, clock, result>>

Node == [key : Keys, value : Conns, last_use_time : 0 .. MaxClock]

Contains(l, k) == \E i \in DOMAIN l : l[i].key = k
IndexOf(l, k)  == CHOOSE i \in DOMAIN l : l[i].key = k

\* del: the list without its node of key k.
Without(l, k) ==
    SubSeq(l, 1, IndexOf(l, k) - 1) \o SubSeq(l, IndexOf(l, k) + 1, Len(l))

\* insert and updateTime.
Insert(l, k, v) ==
    <<[key |-> k, value |-> v, last_use_time |-> clock]>> \o l

Expired(n) == clock - n.last_use_time > LiveTime

\* checkList: nodes are removed from the tail up to one that has not expired.
CheckList(l) ==
    SubSeq(l, 1, CHOOSE n \in 0 .. Len(l) :
                    /\ \A i \in n + 1 .. Len(l) : Expired(l[i])
                    /\ n > 0 => ~Expired(l[n]))

ValueOf(l, k) == l[IndexOf(l, k)].value

\* get: a node that is found moves to the front before the check.
AfterGet(l, k) ==
    CheckList(IF Contains(l, k) THEN Insert(Without(l, k), k, ValueOf(l, k)) ELSE l)

\* put: a node that is found is replaced.
AfterPut(l, k, c) ==
    CheckList(Insert(IF Contains(l, k) THEN Without(l, k) ELSE l, k, c))

AfterRemove(l, k) == IF Contains(l, k) THEN Without(l, k) ELSE l

-----------------------------------------------------------------------------

Init ==
    /\ list = <<>>
    /\ clock = 0
    /\ result = NULL

\* What the map has for the key is read after the check.
get(k) ==
    /\ list' = AfterGet(list, k)
    /\ result' = IF Contains(list, k) THEN ValueOf(list', k) ELSE NULL
    /\ UNCHANGED clock

put(k, c) ==
    /\ list' = AfterPut(list, k, c)
    /\ UNCHANGED <<clock, result>>

remove(k) ==
    /\ list' = AfterRemove(list, k)
    /\ UNCHANGED <<clock, result>>

Tick ==
    /\ clock < MaxClock
    /\ clock' = clock + 1
    /\ UNCHANGED <<list, result>>

Next ==
    \/ \E k \in Keys : get(k) \/ remove(k)
    \/ \E k \in Keys, c \in Conns : put(k, c)
    \/ Tick

Spec == Init /\ [][Next]_vars

-----------------------------------------------------------------------------

\* The types: a list of nodes with times up to now (LRUCache.h's node).
TypeOK ==
    /\ list \in Seq(Node)
    /\ clock \in 0 .. MaxClock
    /\ result \in Conns \union {NULL}

\* No account is in the list twice (put's remove before it inserts), so the map
\* and the list can agree.
OneNodePerKey ==
    \A i, j \in DOMAIN list : list[i].key = list[j].key => i = j

\* readme.md:38: the list is kept in the order of the last requests.  The nodes
\* are in the order of their times from front to tail, which is what lets
\* checkList stop at the first one that has not expired.
OrderedByUse ==
    \A i, j \in DOMAIN list :
        i < j => list[i].last_use_time >= list[j].last_use_time

KeysIn(l) == {l[i].key : i \in DOMAIN l}

\* The list implements the map with expiry that the server relies on: get and put
\* leave exactly the users with a request in the last LiveTime seconds, and a hit
\* returns the connection that was put last.
Users == INSTANCE OnlineUsers WITH
    value   <- [k \in KeysIn(list) |-> ValueOf(list, k)],
    lastUse <- [k \in KeysIn(list) |-> list[IndexOf(list, k)].last_use_time]

UsersSpec == Users!Spec
=============================================================================
