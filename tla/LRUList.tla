------------------------------ MODULE LRUList ------------------------------
(***************************************************************************)
(* LRUCache.cpp and LRUCache.h with their pointers: heap nodes in a doubly *)
(* linked list between two sentinels, and a map from keys to nodes.  Each  *)
(* helper takes what it changes and returns what it leaves.  get and put   *)
(* end with checkList, whose loop takes one step for each node it removes: *)
(* until it is through nothing else is called, and the clock that it has   *)
(* read stands still.  As in LRUCache, the reading of get and put for the  *)
(* node (LRUCache.cpp:46, 63, 77) and that of checkList (:104) are one.    *)
(***************************************************************************)
EXTENDS CacheParameters, Sequences, FiniteSets, Functions

CONSTANTS
    Addresses       \* where a node can be allocated

m_head == 1
m_tail == 2

\* put finds a free address beside one node per key and the sentinels.
ASSUME ListAssumption ==
    /\ IsFiniteSet(Keys) /\ IsFiniteSet(Addresses)
    /\ {m_head, m_tail} \subseteq Addresses
    /\ Cardinality(Addresses) >= Cardinality(Keys) + 2

VARIABLES
    mem,            \* the nodes in the heap, and m_map
    clock,          \* MyTime::getTimeStampSecond
    call,           \* the operation that is in checkList, and a key that get has found
    result          \* what the last get returned

vars == <<mem, clock, call, result>>

Node(k, v) == [pre |-> NULL, next |-> NULL, key |-> k, value |-> v,
               last_use_time |-> 0]

NoCall == [op |-> "none", key |-> NULL]

\* The constructor.
Init ==
    /\ mem = [node  |-> [a \in {m_head, m_tail} |->
                           IF a = m_head THEN [Node(NULL, NULL) EXCEPT !.next = m_tail]
                                         ELSE [Node(NULL, NULL) EXCEPT !.pre = m_head]],
              m_map |-> [k \in {} |-> NULL]]
    /\ clock = 0
    /\ call = NoCall
    /\ result = NULL

-----------------------------------------------------------------------------

Allocated(m) == DOMAIN m.node
Mapped(m)    == DOMAIN m.m_map

\* Mutant: the node after the removed one keeps its pre.
DelForwardOnly(h, p) == [h EXCEPT ![h[p].pre].next = h[p].next]

\* What del, insert and updateTime make of the nodes h.
del(h, p) == [h EXCEPT ![h[p].pre].next = h[p].next, ![h[p].next].pre = h[p].pre]

insert(h, p) ==
    LET first == h[m_head].next
    IN  [h EXCEPT ![p].next = first, ![p].pre = m_head,
                  ![first].pre = p, ![m_head].next = p]

\* Mutant: the time is not stored.
UpdateNothing(h, p) == h

updateTime(h, p) == [h EXCEPT ![p].last_use_time = clock]

\* Mutant: the node is not deleted.
RemoveLeaks(m, k) ==
    IF k \notin Mapped(m) THEN m
    ELSE [node  |-> del(m.node, m.m_map[k]),
          m_map |-> Restrict(m.m_map, Mapped(m) \ {k})]

\* The entry is erased, the node unlinked and deleted.
remove(m, k) ==
    IF k \notin Mapped(m) THEN m
    ELSE LET p == m.m_map[k]
         IN  [node  |-> Restrict(del(m.node, p), Allocated(m) \ {p}),
              m_map |-> Restrict(m.m_map, Mapped(m) \ {k})]

\* new node: at an address that is free.
FreeAddress(m) == CHOOSE a \in Addresses : a \notin Allocated(m)

NewNode(m, p, k, c) ==
    [a \in Allocated(m) \union {p} |-> IF a = p THEN Node(k, c) ELSE m.node[a]]

\* put: a new node at the front, entered in m_map.
Add(m, k, c) ==
    LET p == FreeAddress(m)
    IN  [node  |-> updateTime(insert(NewNode(m, p, k, c), p), p),
         m_map |-> [j \in Mapped(m) \union {k} |-> IF j = k THEN p ELSE m.m_map[j]]]

\* get: the node moves to the front and gets the current time.
Touch(m, p) ==
    [node |-> updateTime(insert(del(m.node, p), p), p), m_map |-> m.m_map]

-----------------------------------------------------------------------------

Idle == call = NoCall

\* Mutant: m_map[key] for a missing key makes an entry with a null connection.
GetInserts(k) ==
    /\ Idle
    /\ LET m == IF k \in Mapped(mem) THEN mem ELSE Add(mem, k, NULL)
       IN  mem' = Touch(m, m.m_map[k])
    /\ call' = [op |-> "hit", key |-> k]
    /\ UNCHANGED <<clock, result>>

\* Mutant: the node found gets the current time and keeps its place.
GetStays(k) ==
    /\ Idle
    /\ IF k \in Mapped(mem)
       THEN /\ mem' = [mem EXCEPT !.node = updateTime(@, mem.m_map[k])]
            /\ call' = [op |-> "hit", key |-> k]
       ELSE /\ call' = [op |-> "miss", key |-> NULL]
            /\ UNCHANGED mem
    /\ UNCHANGED <<clock, result>>

get(k) ==
    /\ Idle
    /\ IF k \in Mapped(mem)
       THEN /\ mem' = Touch(mem, mem.m_map[k])
            /\ call' = [op |-> "hit", key |-> k]
       ELSE /\ call' = [op |-> "miss", key |-> NULL]
            /\ UNCHANGED mem
    /\ UNCHANGED <<clock, result>>

\* Mutant: the node of a present key gets the connection where it is.
PutInPlace(k, c) ==
    /\ Idle
    /\ mem' = IF k \in Mapped(mem)
              THEN [mem EXCEPT !.node = [updateTime(@, mem.m_map[k])
                                           EXCEPT ![mem.m_map[k]].value = c]]
              ELSE Add(mem, k, c)
    /\ call' = [op |-> "put", key |-> NULL]
    /\ UNCHANGED <<clock, result>>

\* remove does nothing for a key that is not there, so both branches of put are
\* a remove and an Add.
put(k, c) ==
    /\ Idle
    /\ mem' = Add(remove(mem, k), k, c)
    /\ call' = [op |-> "put", key |-> NULL]
    /\ UNCHANGED <<clock, result>>

\* The last node, and whether the loop of checkList goes on with it.
Last(m)        == m.node[m_tail].pre
LastExpired(m) == Last(m) # m_head /\ clock - m.node[Last(m)].last_use_time > LiveTime

\* checkList: one turn of its loop.
checkList ==
    /\ ~Idle
    /\ LastExpired(mem)
    /\ mem' = remove(mem, mem.node[Last(mem)].key)
    /\ UNCHANGED <<clock, call, result>>

\* What get returns: it looks its key up again after checkList.
Answer == CASE call.op = "hit"  -> mem.node[mem.m_map[call.key]].value
            [] call.op = "miss" -> NULL
            [] OTHER            -> result

Return ==
    /\ ~Idle
    /\ ~LastExpired(mem)
    /\ call' = NoCall
    /\ result' = Answer
    /\ UNCHANGED <<mem, clock>>

Remove(k) ==
    /\ Idle
    /\ mem' = remove(mem, k)
    /\ UNCHANGED <<clock, call, result>>

Tick ==
    /\ Idle
    /\ clock < MaxClock
    /\ clock' = clock + 1
    /\ UNCHANGED <<mem, call, result>>

Next ==
    \/ \E k \in Keys : get(k) \/ Remove(k)
    \/ \E k \in Keys, c \in Conns : put(k, c)
    \/ checkList
    \/ Return
    \/ Tick

Spec == Init /\ [][Next]_vars

-----------------------------------------------------------------------------

\* The pointers of every allocated node lead to allocated nodes and back, so that
\* no step follows a pointer to a deleted node (del and insert on all four
\* pointers they have to move).
LinksMatch ==
    \A p \in Allocated(mem) :
        /\ p # m_tail => LET q == mem.node[p].next
                         IN  q \in Allocated(mem) /\ mem.node[q].pre = p
        /\ p # m_head => LET q == mem.node[p].pre
                         IN  q \in Allocated(mem) /\ mem.node[q].next = p

\* The map leads each key to its node, and the heap holds those nodes and the
\* sentinels and no other: nothing leaks and nothing dangles (put over a present
\* key, remove, and the evictions of checkList).
MapOwnsHeap ==
    /\ Allocated(mem) = {m_head, m_tail} \union Range(mem.m_map)
    /\ \A k \in Mapped(mem) : mem.node[mem.m_map[k]].key = k

\* The nodes that next leads to from m_head, as many as the map has, as LRUCache has
\* them.
NodesOf(m) ==
    LET n == Cardinality(Mapped(m))
        at[i \in 0 .. n] == IF i = 0 THEN m_head ELSE m.node[at[i - 1]].next
    IN  [i \in 1 .. n |-> [key |-> m.node[at[i]].key, value |-> m.node[at[i]].value,
                           last_use_time |-> m.node[at[i]].last_use_time]]

nodes == NodesOf(mem)

ListOf == INSTANCE LRUCache WITH list <- nodes

\* The pointers implement the list: every operation leaves the nodes, in order,
\* that LRUCache says it leaves, and get returns the same connection.  The list of
\* LRUCache is the one that checkList will leave, and its result what get will return.
List == INSTANCE LRUCache WITH
    list   <- IF Idle THEN nodes ELSE ListOf!CheckList(nodes),
    result <- Answer

ListSpec == List!Spec

\* The types of the list that the pointers make, and of the call in checkList.
TypeOK ==
    /\ ListOf!TypeOK
    /\ call \in [op : {"none", "put", "miss"}, key : {NULL}] \union [op : {"hit"}, key : Keys]

\* readme.md:38: the list is kept in the order of the last requests (get and put
\* move a node to the front), also while checkList runs, which is what lets it stop
\* at the first node from the tail that has not expired.
OrderedByUse == ListOf!OrderedByUse

\* The map has no user whom the checkList that runs will remove.
Online == {k \in Mapped(mem) :
              Idle \/ clock - mem.node[mem.m_map[k]].last_use_time <= LiveTime}

Users == INSTANCE OnlineUsers WITH
    value   <- [k \in Online |-> mem.node[mem.m_map[k]].value],
    lastUse <- [k \in Online |-> mem.node[mem.m_map[k]].last_use_time],
    result  <- Answer

\* m_map and the nodes it leads to are the map with expiry that the server relies on:
\* get and put leave exactly the users with a request in the last LiveTime seconds,
\* and a hit returns the connection that was put last.
UsersSpec == Users!Spec
=============================================================================
