--------------------------- MODULE LRUListProofs ---------------------------
(***************************************************************************)
(* The pointers of LRUList implement the list of LRUCache and the map of   *)
(* OnlineUsers, for all accounts, connections, times and addresses.        *)
(*                                                                         *)
(* The witness of the invariant is a chain: the addresses from m_head to   *)
(* m_tail, each once, which next follows forwards and pre backwards.       *)
(***************************************************************************)
EXTENDS LRUList, SequenceTheorems, FunctionTheorems, FiniteSetTheorems,
        WellFoundedInduction, TLAPS

LP == INSTANCE LRUCacheProofs WITH list <- nodes

\* The theorems about LRUCache, of the list and the result that List has.
LQ == INSTANCE LRUCacheProofs WITH
    list   <- IF Idle THEN nodes ELSE ListOf!CheckList(nodes),
    result <- Answer

USE LRUAssumption, ListAssumption

-----------------------------------------------------------------------------
(***************************************************************************)
(* Nodes, and what the helpers do to their fields.                         *)
(***************************************************************************)

Pointers == Addresses \union {NULL}

HeapNode == [pre : Pointers, next : Pointers, key : Keys \union {NULL},
             value : Conns \union {NULL}, last_use_time : 0 .. MaxClock]

\* d has the keys, the values and the times that h has, in the nodes of S.
SameData(h, d, S) ==
    \A q \in S : /\ d[q].key = h[q].key
                 /\ d[q].value = h[q].value
                 /\ d[q].last_use_time = h[q].last_use_time

WithNext(h, a, b) == [h EXCEPT ![a].next = b]
WithPre(h, a, b)  == [h EXCEPT ![a].pre = b]

LEMMA SetNext ==
    ASSUME NEW S, NEW h \in [S -> HeapNode], NEW a \in S, NEW b \in Pointers
    PROVE  /\ WithNext(h, a, b) \in [S -> HeapNode]
           /\ SameData(h, WithNext(h, a, b), S)
           /\ \A q \in S :
                 /\ WithNext(h, a, b)[q].next = IF q = a THEN b ELSE h[q].next
                 /\ WithNext(h, a, b)[q].pre = h[q].pre
BY DEF HeapNode, SameData, WithNext

LEMMA SetPre ==
    ASSUME NEW S, NEW h \in [S -> HeapNode], NEW a \in S, NEW b \in Pointers
    PROVE  /\ WithPre(h, a, b) \in [S -> HeapNode]
           /\ SameData(h, WithPre(h, a, b), S)
           /\ \A q \in S :
                 /\ WithPre(h, a, b)[q].pre = IF q = a THEN b ELSE h[q].pre
                 /\ WithPre(h, a, b)[q].next = h[q].next
BY DEF HeapNode, SameData, WithPre

SameLinks(h, d, S) == \A q \in S : d[q].next = h[q].next /\ d[q].pre = h[q].pre

\* d has in p what h has, with the present time.
Timed(h, d, p) ==
    d[p].key = h[p].key /\ d[p].value = h[p].value /\ d[p].last_use_time = clock

LEMMA SetTime ==
    ASSUME NEW S, NEW h \in [S -> HeapNode], NEW p \in S, clock \in 0 .. MaxClock
    PROVE  /\ updateTime(h, p) \in [S -> HeapNode]
           /\ SameData(h, updateTime(h, p), S \ {p}) /\ Timed(h, updateTime(h, p), p)
           /\ SameLinks(h, updateTime(h, p), S)
BY DEF HeapNode, SameData, SameLinks, Timed, updateTime

LEMMA SameDataChain ==
    ASSUME NEW h, NEW d, NEW e, NEW S, SameData(h, d, S), SameData(d, e, S)
    PROVE  SameData(h, e, S)
BY DEF SameData

LEMMA DelFields ==
    ASSUME NEW S \in SUBSET Addresses, NEW h \in [S -> HeapNode], NEW p,
           NEW a \in S, NEW b \in S, h[p].pre = a, h[p].next = b
    PROVE  /\ del(h, p) \in [S -> HeapNode] /\ SameData(h, del(h, p), S)
           /\ \A q \in S : /\ del(h, p)[q].next = IF q = a THEN b ELSE h[q].next
                           /\ del(h, p)[q].pre  = IF q = b THEN a ELSE h[q].pre
<1> DEFINE h1 == WithNext(h, a, b)
           h2 == WithPre(h1, b, a)
<1>1. a \in Pointers /\ b \in Pointers
    BY DEF Pointers
<1>2. del(h, p) = h2
    BY DEF del, WithNext, WithPre
<1>3. /\ h1 \in [S -> HeapNode] /\ SameData(h, h1, S)
      /\ \A q \in S : /\ h1[q].next = IF q = a THEN b ELSE h[q].next
                      /\ h1[q].pre = h[q].pre
    BY <1>1, SetNext
<1> HIDE DEF h1
<1>4. /\ h2 \in [S -> HeapNode] /\ SameData(h1, h2, S)
      /\ \A q \in S : /\ h2[q].pre = IF q = b THEN a ELSE h1[q].pre
                      /\ h2[q].next = h1[q].next
    BY <1>1, <1>3, SetPre
<1> HIDE DEF h2
<1>5. SameData(h, h2, S)
    BY <1>3, <1>4, SameDataChain
<1> QED  BY <1>2, <1>3, <1>4, <1>5

LEMMA InsertFields ==
    ASSUME NEW S \in SUBSET Addresses, NEW h \in [S -> HeapNode], NEW p \in S,
           m_head \in S, p # m_head, NEW f \in S, h[m_head].next = f, f # p
    PROVE  /\ insert(h, p) \in [S -> HeapNode] /\ SameData(h, insert(h, p), S)
           /\ \A q \in S :
                 /\ insert(h, p)[q].next =
                       IF q = m_head THEN p ELSE IF q = p THEN f ELSE h[q].next
                 /\ insert(h, p)[q].pre =
                       IF q = f THEN p ELSE IF q = p THEN m_head ELSE h[q].pre
<1> DEFINE h1 == WithNext(h, p, f)
           h2 == WithPre(h1, p, m_head)
           h3 == WithPre(h2, f, p)
           h4 == WithNext(h3, m_head, p)
<1>1. p \in Pointers /\ f \in Pointers /\ m_head \in Pointers /\ m_head \in S
    BY DEF Pointers
<1>2. insert(h, p) = h4
    BY DEF insert, WithNext, WithPre
<1> HIDE DEF m_head
<1>3. /\ h1 \in [S -> HeapNode] /\ SameData(h, h1, S)
      /\ \A q \in S : /\ h1[q].next = IF q = p THEN f ELSE h[q].next
                      /\ h1[q].pre = h[q].pre
    BY <1>1, SetNext
<1> HIDE DEF h1
<1>4. /\ h2 \in [S -> HeapNode] /\ SameData(h1, h2, S)
      /\ \A q \in S : /\ h2[q].pre = IF q = p THEN m_head ELSE h1[q].pre
                      /\ h2[q].next = h1[q].next
    BY <1>1, <1>3, SetPre
<1> HIDE DEF h2
<1>5. /\ h3 \in [S -> HeapNode] /\ SameData(h2, h3, S)
      /\ \A q \in S : /\ h3[q].pre = IF q = f THEN p ELSE h2[q].pre
                      /\ h3[q].next = h2[q].next
    BY <1>1, <1>4, SetPre
<1> HIDE DEF h3
<1>6. /\ h4 \in [S -> HeapNode] /\ SameData(h3, h4, S)
      /\ \A q \in S : /\ h4[q].next = IF q = m_head THEN p ELSE h3[q].next
                      /\ h4[q].pre = h3[q].pre
    BY <1>1, <1>5, SetNext
<1> HIDE DEF h4
<1>7. SameData(h, h4, S)
    BY <1>3, <1>4, <1>5, <1>6, SameDataChain
<1>8. ASSUME NEW q \in S
      PROVE  /\ h4[q].next = IF q = m_head THEN p ELSE IF q = p THEN f ELSE h[q].next
             /\ h4[q].pre = IF q = f THEN p ELSE IF q = p THEN m_head ELSE h[q].pre
    BY <1>3, <1>4, <1>5, <1>6
<1> QED  BY <1>2, <1>6, <1>7, <1>8

-----------------------------------------------------------------------------
(***************************************************************************)
(* Chains.                                                                 *)
(***************************************************************************)

\* c is the way from m_head to m_tail over n nodes.
Linked(h, c, n) ==
    /\ n \in Nat /\ c \in [0 .. n + 1 -> DOMAIN h]
    /\ c[0] = m_head /\ c[n + 1] = m_tail
    /\ \A i, j \in 0 .. n + 1 : c[i] = c[j] => i = j
    /\ \A i \in 0 .. n : h[c[i]].next = c[i + 1] /\ h[c[i + 1]].pre = c[i]

\* The chain without its node j, and with p as its first node.
Drop(c, j, n) == [i \in 0 .. n |-> IF i < j THEN c[i] ELSE c[i + 1]]
Push(c, p, n) == [i \in 0 .. n + 2 |->
                     IF i = 0 THEN m_head ELSE IF i = 1 THEN p ELSE c[i - 1]]

\* del takes a node out of the chain.
LEMMA DelLinks ==
    ASSUME NEW h, DOMAIN h \in SUBSET Addresses, h \in [DOMAIN h -> HeapNode],
           NEW c, NEW n, Linked(h, c, n), NEW j \in 1 .. n
    PROVE  /\ del(h, c[j]) \in [DOMAIN h -> HeapNode]
           /\ SameData(h, del(h, c[j]), DOMAIN h)
           /\ Linked(del(h, c[j]), Drop(c, j, n), n - 1)
<1> DEFINE S == DOMAIN h
           d == del(h, c[j])
           e == Drop(c, j, n)
<1>1. /\ n \in Nat /\ j - 1 \in 0 .. n /\ j \in 0 .. n /\ j + 1 \in 0 .. n + 1
      /\ j - 1 \in 0 .. n + 1 /\ (j - 1) + 1 = j
    BY DEF Linked
<1>2. PICK a \in S, b \in S : a = c[j - 1] /\ b = c[j + 1]
    BY <1>1 DEF Linked
<1>3. h[c[j]].pre = a /\ h[c[j]].next = b
    BY <1>1, <1>2 DEF Linked
<1>4. /\ d \in [S -> HeapNode] /\ SameData(h, d, S)
      /\ \A q \in S : /\ d[q].next = IF q = a THEN b ELSE h[q].next
                      /\ d[q].pre  = IF q = b THEN a ELSE h[q].pre
    <2> HIDE DEF d
    <2> QED  BY <1>3, DelFields DEF d
<1> HIDE DEF d
<1>5. \A i \in 0 .. n : e[i] = IF i < j THEN c[i] ELSE c[i + 1]
    BY DEF Drop
<1>6. e \in [0 .. n -> S]
    BY <1>1 DEF Drop, Linked
<1> HIDE DEF e
<1>7. e[0] = m_head /\ e[n] = m_tail
    <2>1. 0 \in 0 .. n /\ n \in 0 .. n /\ 0 < j /\ ~(n < j)
        BY <1>1
    <2>2. e[0] = c[0] /\ e[n] = c[n + 1]
        BY <1>5, <2>1
    <2> QED  BY <2>2 DEF Linked
<1>8. \A i, k \in 0 .. n : e[i] = e[k] => i = k
    <2> SUFFICES ASSUME NEW i \in 0 .. n, NEW k \in 0 .. n, e[i] = e[k] PROVE i = k
        OBVIOUS
    <2>1. i \in 0 .. n + 1 /\ k \in 0 .. n + 1 /\ i + 1 \in 0 .. n + 1 /\ k + 1 \in 0 .. n + 1
        BY <1>1
    <2>2. \A x, y \in 0 .. n + 1 : c[x] = c[y] => x = y
        BY DEF Linked
    <2> QED  BY <1>1, <1>5, <2>1, <2>2
<1>9. ASSUME NEW i \in 0 .. n - 1 PROVE d[e[i]].next = e[i + 1] /\ d[e[i + 1]].pre = e[i]
    <2>1. /\ i \in 0 .. n /\ i + 1 \in 0 .. n /\ i \in 0 .. n + 1 /\ i + 1 \in 0 .. n + 1
          /\ i + 2 \in 0 .. n + 1 /\ (i + 1) + 1 = i + 2 /\ i + 1 # i + 2
        BY <1>1
    <2>2. \A x, y \in 0 .. n + 1 : c[x] = c[y] => x = y
        BY DEF Linked
    <2>3. \A x \in 0 .. n : h[c[x]].next = c[x + 1] /\ h[c[x + 1]].pre = c[x]
        BY DEF Linked
    <2>4. c[i] \in S /\ c[i + 1] \in S /\ c[i + 2] \in S
        BY <2>1 DEF Linked
    <2>5. CASE i + 1 < j
        <3>1. e[i] = c[i] /\ e[i + 1] = c[i + 1]
            BY <1>1, <1>5, <2>1, <2>5
        <3>2. c[i] # a /\ c[i + 1] # b
            BY <1>1, <1>2, <2>1, <2>2, <2>5
        <3> QED  BY <1>4, <2>1, <2>3, <2>4, <3>1, <3>2
    <2>6. CASE i + 1 = j
        <3>1. e[i] = c[i] /\ e[i + 1] = c[i + 2] /\ i = j - 1 /\ i + 2 = j + 1
            BY <1>1, <1>5, <2>1, <2>6
        <3> QED  BY <1>2, <1>4, <3>1
    <2>7. CASE i + 1 > j
        <3>1. e[i] = c[i + 1] /\ e[i + 1] = c[i + 2]
            BY <1>1, <1>5, <2>1, <2>7
        <3>2. c[i + 1] # a /\ c[i + 2] # b
            BY <1>1, <1>2, <2>1, <2>2, <2>7
        <3> QED  BY <1>4, <2>1, <2>3, <2>4, <3>1, <3>2
    <2> QED  BY <1>1, <2>5, <2>6, <2>7
<1>10. DOMAIN d = S /\ n - 1 \in Nat /\ (n - 1) + 1 = n
    BY <1>1, <1>4
<1>11. Linked(d, e, n - 1)
    BY <1>6, <1>7, <1>8, <1>9, <1>10 DEF Linked
<1> QED  BY <1>4, <1>11 DEF d, e

\* insert puts a node that is not in the chain at its front.
LEMMA InsertLinks ==
    ASSUME NEW h, DOMAIN h \in SUBSET Addresses, h \in [DOMAIN h -> HeapNode],
           NEW c, NEW n, Linked(h, c, n), NEW p \in DOMAIN h,
           \A i \in 0 .. n + 1 : c[i] # p
    PROVE  /\ insert(h, p) \in [DOMAIN h -> HeapNode]
           /\ SameData(h, insert(h, p), DOMAIN h)
           /\ Linked(insert(h, p), Push(c, p, n), n + 1)
<1> DEFINE S == DOMAIN h
           d == insert(h, p)
           e == Push(c, p, n)
<1>1. n \in Nat /\ 0 \in 0 .. n /\ 0 \in 0 .. n + 1 /\ 1 \in 0 .. n + 1 /\ 0 + 1 = 1
    BY DEF Linked
<1>2. PICK f \in S : f = c[1]
    BY <1>1 DEF Linked
<1>3. /\ h[m_head].next = f /\ f # p /\ m_head \in S /\ m_head # p
      /\ m_head = c[0]
    BY <1>1, <1>2 DEF Linked
<1> HIDE DEF m_head, m_tail
<1>4. /\ d \in [S -> HeapNode] /\ SameData(h, d, S)
      /\ \A q \in S :
            /\ d[q].next = IF q = m_head THEN p ELSE IF q = p THEN f ELSE h[q].next
            /\ d[q].pre = IF q = f THEN p ELSE IF q = p THEN m_head ELSE h[q].pre
    <2> HIDE DEF d
    <2> QED  BY <1>3, InsertFields DEF d
<1> HIDE DEF d
<1>5. /\ e[0] = m_head /\ e[1] = p /\ \A i \in 2 .. n + 2 : e[i] = c[i - 1]
    BY <1>1 DEF Push
<1>6. e \in [0 .. n + 2 -> S]
    <2>1. \A i \in 2 .. n + 2 : i - 1 \in 0 .. n + 1
        BY <1>1
    <2>2. \A i \in 0 .. n + 2 : i = 0 \/ i = 1 \/ i \in 2 .. n + 2
        BY <1>1
    <2>3. c \in [0 .. n + 1 -> S]
        BY DEF Linked
    <2> QED  BY <1>3, <2>1, <2>2, <2>3 DEF Push
<1> HIDE DEF e
<1>7. \A i, k \in 0 .. n + 2 : e[i] = e[k] => i = k
    <2> SUFFICES ASSUME NEW i \in 0 .. n + 2, NEW k \in 0 .. n + 2, e[i] = e[k] PROVE i = k
        OBVIOUS
    <2>1. \A x, y \in 0 .. n + 1 : c[x] = c[y] => x = y
        BY DEF Linked
    <2>2. \A x \in 0 .. n + 2 : \/ x = 0 /\ e[x] = m_head
                                \/ x = 1 /\ e[x] = p
                                \/ x \in 2 .. n + 2 /\ x - 1 \in 0 .. n + 1 /\ x - 1 # 0
                                   /\ e[x] = c[x - 1]
        BY <1>1, <1>5
    <2>3. \A x \in 0 .. n + 1 : x # 0 => c[x] # m_head /\ c[x] # p
        BY <1>1, <1>3, <2>1
    <2> QED  BY <1>1, <1>3, <2>1, <2>2, <2>3
<1>8. ASSUME NEW i \in 0 .. n + 1 PROVE d[e[i]].next = e[i + 1] /\ d[e[i + 1]].pre = e[i]
    <2>1. \A x, y \in 0 .. n + 1 : c[x] = c[y] => x = y
        BY DEF Linked
    <2>2. \A x \in 0 .. n : h[c[x]].next = c[x + 1] /\ h[c[x + 1]].pre = c[x]
        BY DEF Linked
    <2>3. CASE i = 0
        BY <1>1, <1>3, <1>4, <1>5, <2>3
    <2>4. CASE i = 1
        <3>1. e[i] = p /\ e[i + 1] = f
            BY <1>1, <1>2, <1>5, <2>4
        <3> QED  BY <1>3, <1>4, <3>1
    <2>5. CASE i > 1
        <3>1. /\ i - 1 \in 0 .. n /\ i - 1 \in 0 .. n + 1 /\ (i - 1) + 1 = i
              /\ i \in 2 .. n + 2 /\ i + 1 \in 2 .. n + 2 /\ (i + 1) - 1 = i
              /\ i - 1 # 0 /\ i # 1 /\ i # 0
            BY <1>1, <2>5
        <3>2. e[i] = c[i - 1] /\ e[i + 1] = c[i]
            BY <1>5, <3>1
        <3>3. c[i - 1] # m_head /\ c[i - 1] # p /\ c[i] # p /\ c[i] # f
            BY <1>1, <1>2, <1>3, <2>1, <3>1
        <3>4. c[i - 1] \in S /\ c[i] \in S
            BY <3>1 DEF Linked
        <3>5. h[c[i - 1]].next = c[i] /\ h[c[i]].pre = c[i - 1]
            BY <2>2, <3>1
        <3> QED  BY <1>4, <3>2, <3>3, <3>4, <3>5
    <2> QED  BY <1>1, <2>3, <2>4, <2>5
<1>9. /\ DOMAIN d = S /\ n + 1 \in Nat /\ (n + 1) + 1 = n + 2
      /\ e[n + 2] = m_tail
    <2>1. n + 2 \in 2 .. n + 2 /\ (n + 2) - 1 = n + 1
        BY <1>1
    <2> QED  BY <1>1, <1>4, <1>5, <2>1 DEF Linked
<1>10. Linked(d, e, n + 1)
    BY <1>5, <1>6, <1>7, <1>8, <1>9 DEF Linked
<1> QED  BY <1>4, <1>10 DEF d, e

\* A chain stays one where its pointers do.
LEMMA StaysLinked ==
    ASSUME NEW h, NEW c, NEW n, Linked(h, c, n), NEW d,
           \A i \in 0 .. n + 1 : /\ c[i] \in DOMAIN d /\ d[c[i]].next = h[c[i]].next
                                 /\ d[c[i]].pre = h[c[i]].pre
    PROVE  Linked(d, c, n)
<1>1. n \in Nat /\ c \in [0 .. n + 1 -> DOMAIN d]
    BY DEF Linked
<1>2. \A i \in 0 .. n : i \in 0 .. n + 1 /\ i + 1 \in 0 .. n + 1
    BY <1>1
<1> QED  BY <1>1, <1>2 DEF Linked

-----------------------------------------------------------------------------
(***************************************************************************)
(* The list of LRUCache that a chain is.                                   *)
(***************************************************************************)

Item(r) == [key |-> r.key, value |-> r.value, last_use_time |-> r.last_use_time]

View(h, c, n) == [i \in 1 .. n |-> Item(h[c[i]])]

LEMMA SameItem ==
    ASSUME NEW h, NEW d, NEW S, SameData(h, d, S), NEW q \in S
    PROVE  Item(d[q]) = Item(h[q])
BY DEF SameData, Item

LEMMA ViewLen ==
    ASSUME NEW h, NEW c, NEW n \in Nat, View(h, c, n) \in Seq(LP!Node)
    PROVE  /\ Len(View(h, c, n)) = n /\ DOMAIN View(h, c, n) = 1 .. n
           /\ \A i \in 1 .. n : /\ View(h, c, n)[i] = Item(h[c[i]])
                                /\ View(h, c, n)[i] \in LP!Node
<1> DEFINE l == View(h, c, n)
<1>1. /\ DOMAIN l = 1 .. n /\ l \in Seq(LP!Node)
      /\ \A i \in 1 .. n : l[i] = Item(h[c[i]])
    BY DEF View
<1> HIDE DEF l
<1>2. Len(l) \in Nat /\ DOMAIN l = 1 .. Len(l) /\ \A i \in 1 .. Len(l) : l[i] \in LP!Node
    BY <1>1, LenProperties, ElementOfSeq
<1>3. Len(l) = n
    BY <1>1, <1>2
<1> QED  BY <1>1, <1>2, <1>3 DEF l

\* Dropping a node is LRUCache's Without.
LEMMA DropView ==
    ASSUME NEW h, NEW c, NEW n, Linked(h, c, n), LP!Good(View(h, c, n)),
           NEW j \in 1 .. n, NEW d, SameData(h, d, DOMAIN h)
    PROVE  /\ LP!Contains(View(h, c, n), h[c[j]].key)
           /\ LP!ValueOf(View(h, c, n), h[c[j]].key) = h[c[j]].value
           /\ View(d, Drop(c, j, n), n - 1) = LP!Without(View(h, c, n), h[c[j]].key)
<1> DEFINE l == View(h, c, n)
           e == Drop(c, j, n)
           w == View(d, e, n - 1)
<1>1. n \in Nat /\ l \in Seq(LP!Node) /\ LP!OneKey(l)
    BY DEF Linked, LP!Good
<1>2. /\ Len(l) = n /\ DOMAIN l = 1 .. n
      /\ \A i \in 1 .. n : l[i] = Item(h[c[i]]) /\ l[i] \in LP!Node
    BY <1>1, ViewLen
<1>3. PICK k : k = h[c[j]].key
    OBVIOUS
<1> HIDE DEF l
<1>4. l[j].key = k /\ l[j].value = h[c[j]].value
    BY <1>2, <1>3 DEF Item
<1>5. LP!Contains(l, k)
    BY <1>2, <1>4 DEF LP!Contains
<1>6. LP!IndexOf(l, k) = j
    BY <1>1, <1>2, <1>4, LP!IndexIs
<1>7. LP!ValueOf(l, k) = h[c[j]].value
    BY <1>4, <1>6 DEF LP!ValueOf
<1>8. /\ LP!Without(l, k) \in Seq(LP!Node) /\ Len(LP!Without(l, k)) = n - 1
      /\ \A i \in 1 .. n - 1 : LP!Without(l, k)[i] = IF i < j THEN l[i] ELSE l[i + 1]
    BY <1>2, <1>5, <1>6, LP!WithoutIs DEF l
<1>9. ASSUME NEW i \in 1 .. n - 1 PROVE w[i] = LP!Without(l, k)[i]
    <2>1. i \in 1 .. n /\ i + 1 \in 1 .. n /\ i \in 0 .. n /\ i \in 0 .. n + 1
          /\ i + 1 \in 0 .. n + 1
        BY <1>1
    <2>2. w[i] = Item(d[e[i]]) /\ e[i] = IF i < j THEN c[i] ELSE c[i + 1]
        BY <2>1 DEF View, Drop
    <2>3. c[i] \in DOMAIN h /\ c[i + 1] \in DOMAIN h
        BY <2>1 DEF Linked
    <2>4. Item(d[c[i]]) = l[i] /\ Item(d[c[i + 1]]) = l[i + 1]
        BY <1>2, <2>1, <2>3, SameItem
    <2> QED  BY <1>8, <2>2, <2>4
<1>10. DOMAIN w = 1 .. n - 1
    BY DEF View
<1>11. w = LP!Without(l, k)
    <2> HIDE DEF w
    <2>1. n - 1 \in Nat /\ LP!Without(l, k) = [i \in 1 .. n - 1 |-> LP!Without(l, k)[i]]
        <3>1. DOMAIN LP!Without(l, k) = 1 .. n - 1
            BY <1>8, LenProperties
        <3> QED  BY <1>1, <1>8, <3>1
    <2>2. w = [i \in 1 .. n - 1 |-> w[i]]
        BY <1>10 DEF w, View
    <2> QED  BY <1>9, <2>1, <2>2
<1> QED  BY <1>3, <1>5, <1>7, <1>11 DEF l

\* Pushing a node with the present time is LRUCache's Insert.
LEMMA PushView ==
    ASSUME NEW h, NEW c, NEW n \in Nat, View(h, c, n) \in Seq(LP!Node),
           NEW d, \A i \in 1 .. n : Item(d[c[i]]) = Item(h[c[i]]),
           NEW p, NEW k \in Keys, NEW v \in Conns, clock \in 0 .. MaxClock,
           d[p].key = k, d[p].value = v, d[p].last_use_time = clock
    PROVE  View(d, Push(c, p, n), n + 1) = LP!Insert(View(h, c, n), k, v)
<1> DEFINE l == View(h, c, n)
           e == Push(c, p, n)
           w == View(d, e, n + 1)
           x == LP!Insert(l, k, v)
<1>1. /\ Len(l) = n /\ DOMAIN l = 1 .. n /\ l \in Seq(LP!Node)
      /\ \A i \in 1 .. n : l[i] = Item(h[c[i]]) /\ l[i] \in LP!Node
    BY ViewLen
<1> HIDE DEF l
<1>2. /\ x \in Seq(LP!Node) /\ Len(x) = n + 1
      /\ x[1] = [key |-> k, value |-> v, last_use_time |-> clock]
      /\ \A i \in 2 .. n + 1 : x[i] = l[i - 1]
    BY <1>1, LP!InsertIs
<1> HIDE DEF x
<1>3. w[1] = x[1]
    <2>1. 1 \in 1 .. n + 1 /\ 1 \in 0 .. n + 2
        OBVIOUS
    <2>2. w[1] = Item(d[e[1]]) /\ e[1] = p
        BY <2>1 DEF View, Push
    <2> QED  BY <1>2, <2>2 DEF Item
<1>4. ASSUME NEW i \in 2 .. n + 1 PROVE w[i] = x[i]
    <2>1. i \in 1 .. n + 1 /\ i \in 0 .. n + 2 /\ i # 0 /\ i # 1 /\ i - 1 \in 1 .. n
        OBVIOUS
    <2>2. w[i] = Item(d[e[i]]) /\ e[i] = c[i - 1]
        BY <2>1 DEF View, Push
    <2> QED  BY <1>1, <1>2, <2>1, <2>2
<1>5. ASSUME NEW i \in 1 .. n + 1 PROVE w[i] = x[i]
    <2>1. i = 1 \/ i \in 2 .. n + 1
        OBVIOUS
    <2> HIDE DEF w
    <2> QED  BY <1>3, <1>4, <2>1
<1>6. w = [i \in 1 .. n + 1 |-> w[i]]
    BY DEF View
<1>7. x = [i \in 1 .. n + 1 |-> x[i]]
    <2>1. DOMAIN x = 1 .. n + 1
        BY <1>2, LenProperties
    <2> QED  BY <1>2, <2>1
<1>8. w = x
    <2> HIDE DEF w
    <2> QED  BY <1>5, <1>6, <1>7
<1> QED  BY <1>8 DEF l, x

-----------------------------------------------------------------------------
(***************************************************************************)
(* The memories that the cache has, and what the operations leave of them. *)
(***************************************************************************)

IsMemory(m) ==
    /\ Allocated(m) \in SUBSET Addresses /\ m.node \in [Allocated(m) -> HeapNode]
    /\ Mapped(m) \in SUBSET Keys /\ m.m_map = [k \in Mapped(m) |-> m.m_map[k]]

Covers(c, n, S) == \A q \in S : \E i \in 0 .. n + 1 : c[i] = q
Avoids(c, n, p) == \A i \in 0 .. n + 1 : c[i] # p

\* The heap holds the chain and nothing else, and the map its nodes but the sentinels.
Owned(m, c, n) ==
    /\ Covers(c, n, Allocated(m))
    /\ \A i \in 1 .. n : /\ m.node[c[i]].key \in Mapped(m)
                         /\ m.m_map[m.node[c[i]].key] = c[i]
    /\ \A k \in Mapped(m) : \E i \in 1 .. n : c[i] = m.m_map[k] /\ m.node[c[i]].key = k

Whole(m, c, n) ==
    /\ IsMemory(m) /\ Linked(m.node, c, n) /\ Owned(m, c, n)
    /\ LP!Good(View(m.node, c, n))

\* What the map leads a key to.
Data(m, k) == Item(m.node[m.m_map[k]])

LEMMA MappedNode ==
    ASSUME NEW m, NEW c, NEW n, Whole(m, c, n), NEW k \in Mapped(m)
    PROVE  \E j \in 1 .. n : /\ c[j] = m.m_map[k] /\ m.node[c[j]].key = k
                             /\ c[j] \in Allocated(m)
<1>1. PICK j \in 1 .. n : c[j] = m.m_map[k] /\ m.node[c[j]].key = k
    BY DEF Whole, Owned
<1>2. j \in 0 .. n + 1
    BY DEF Whole, Linked
<1>3. c[j] \in Allocated(m)
    BY <1>2 DEF Whole, Linked, Allocated
<1> QED  BY <1>1, <1>3

\* e has the nodes of c but the one at j, the sentinels at its ends.
Others(e, c, j, n) ==
    /\ \A i \in 0 .. n : \E x \in 0 .. n + 1 :
          x # j /\ e[i] = c[x] /\ (i \in 1 .. n - 1 => x \in 1 .. n)
    /\ \A x \in 0 .. n + 1 : x # j => \E i \in 0 .. n :
          e[i] = c[x] /\ (x \in 1 .. n => i \in 1 .. n - 1)

LEMMA DropNodes ==
    ASSUME NEW h, NEW c, NEW n, Linked(h, c, n), NEW j \in 1 .. n
    PROVE  Others(Drop(c, j, n), c, j, n)
<1> DEFINE e == Drop(c, j, n)
<1>1. n \in Nat /\ \A i \in 0 .. n : e[i] = IF i < j THEN c[i] ELSE c[i + 1]
    BY DEF Linked, Drop
<1> HIDE DEF e
<1>2. ASSUME NEW i \in 0 .. n
      PROVE  \E x \in 0 .. n + 1 : x # j /\ e[i] = c[x] /\ (i \in 1 .. n - 1 => x \in 1 .. n)
    <2>1. CASE i < j
        <3>1. i \in 0 .. n + 1 /\ i # j /\ (i \in 1 .. n - 1 => i \in 1 .. n) /\ e[i] = c[i]
            BY <1>1, <2>1
        <3> QED  BY <3>1
    <2>2. CASE ~(i < j)
        <3>1. /\ i + 1 \in 0 .. n + 1 /\ i + 1 # j /\ (i \in 1 .. n - 1 => i + 1 \in 1 .. n)
              /\ e[i] = c[i + 1]
            BY <1>1, <2>2
        <3> QED  BY <3>1
    <2> QED  BY <2>1, <2>2
<1>3. ASSUME NEW x \in 0 .. n + 1, x # j
      PROVE  \E i \in 0 .. n : e[i] = c[x] /\ (x \in 1 .. n => i \in 1 .. n - 1)
    <2>1. CASE x < j
        <3>1. x \in 0 .. n /\ (x \in 1 .. n => x \in 1 .. n - 1) /\ e[x] = c[x]
            BY <1>1, <2>1
        <3> QED  BY <3>1
    <2>2. CASE x > j
        <3>1. /\ x - 1 \in 0 .. n /\ (x \in 1 .. n => x - 1 \in 1 .. n - 1)
              /\ ~(x - 1 < j) /\ (x - 1) + 1 = x
            BY <1>1, <2>2
        <3>2. e[x - 1] = c[x]
            BY <1>1, <3>1
        <3> QED  BY <3>1, <3>2
    <2> QED  BY <1>1, <1>3, <2>1, <2>2
<1> QED  BY <1>2, <1>3 DEF e, Others

\* What Good says of the list of a memory.
LEMMA GoodView ==
    ASSUME NEW m, NEW c, NEW n, Whole(m, c, n)
    PROVE  /\ View(m.node, c, n) \in Seq(LP!Node) /\ LP!Good(View(m.node, c, n))
           /\ n \in Nat /\ Len(View(m.node, c, n)) = n
           /\ \A i \in 1 .. n : /\ View(m.node, c, n)[i] = Item(m.node[c[i]])
                                /\ View(m.node, c, n)[i] \in LP!Node
           /\ \A k : LP!Contains(View(m.node, c, n), k) <=> k \in Mapped(m)
<1> DEFINE l == View(m.node, c, n)
<1>1. l \in Seq(LP!Node) /\ LP!Good(l) /\ n \in Nat
    BY DEF Whole, Linked, LP!Good
<1>2. /\ Len(l) = n /\ DOMAIN l = 1 .. n
      /\ \A i \in 1 .. n : l[i] = Item(m.node[c[i]]) /\ l[i] \in LP!Node
    BY <1>1, ViewLen
<1> HIDE DEF l
<1>3. \A i \in 1 .. n : l[i].key = m.node[c[i]].key
    BY <1>2 DEF Item
<1>4. \A k : (\E i \in 1 .. n : m.node[c[i]].key = k) <=> k \in Mapped(m)
    BY DEF Whole, Owned
<1>5. \A k : LP!Contains(l, k) <=> k \in Mapped(m)
    BY <1>2, <1>3, <1>4 DEF LP!Contains
<1> QED  BY <1>1, <1>2, <1>5 DEF l

\* remove, of a key that is there.
LEMMA RemoveWhole ==
    ASSUME NEW m, NEW c, NEW n, Whole(m, c, n), NEW k \in Mapped(m)
    PROVE  /\ Mapped(remove(m, k)) = Mapped(m) \ {k}
           /\ \A q \in Mapped(m) \ {k} : Data(remove(m, k), q) = Data(m, q)
           /\ \E e : /\ Whole(remove(m, k), e, n - 1)
                     /\ View(remove(m, k).node, e, n - 1) =
                           LP!Without(View(m.node, c, n), k)
<1>1. PICK j \in 1 .. n : /\ c[j] = m.m_map[k] /\ m.node[c[j]].key = k
                          /\ c[j] \in Allocated(m)
    BY MappedNode
<1> DEFINE h == m.node
           S == Allocated(m)
           K == Mapped(m)
           p == c[j]
           d == del(h, p)
           e == Drop(c, j, n)
           r == remove(m, k)
           T == S \ {p}
<1>2. /\ S \in SUBSET Addresses /\ h \in [S -> HeapNode] /\ DOMAIN h = S
      /\ K \in SUBSET Keys /\ Linked(h, c, n) /\ Owned(m, c, n) /\ n \in Nat
    BY DEF Whole, IsMemory, Allocated, Linked
<1>3. /\ r.node = [q \in T |-> d[q]] /\ r.m_map = [q \in K \ {k} |-> m.m_map[q]]
    BY <1>1 DEF remove, Restrict
<1> HIDE DEF r
<1>4. Allocated(r) = T /\ Mapped(r) = K \ {k}
    BY <1>3 DEF Allocated, Mapped
<1>5. d \in [S -> HeapNode] /\ SameData(h, d, S) /\ Linked(d, e, n - 1)
    BY <1>2, DelLinks
<1> HIDE DEF d
<1>17. Others(e, c, j, n)
    BY <1>2, DropNodes
<1>6. /\ \A i \in 0 .. n : \E x \in 0 .. n + 1 :
            x # j /\ e[i] = c[x] /\ (i \in 1 .. n - 1 => x \in 1 .. n)
      /\ \A x \in 0 .. n + 1 : x # j => \E i \in 0 .. n :
            e[i] = c[x] /\ (x \in 1 .. n => i \in 1 .. n - 1)
    BY <1>17 DEF Others
<1> HIDE DEF e
<1>7. /\ \A x \in 0 .. n + 1 : c[x] \in S /\ (x # j => c[x] \in T)
      /\ j \in 0 .. n + 1 /\ \A i \in 1 .. n : i \in 0 .. n + 1
    BY <1>2 DEF Linked
<1>8. \A q \in T : /\ r.node[q] = d[q] /\ Item(r.node[q]) = Item(h[q])
                   /\ r.node[q].key = h[q].key
    <2> SUFFICES ASSUME NEW q \in T
                 PROVE  /\ r.node[q] = d[q] /\ Item(d[q]) = Item(h[q])
                        /\ d[q].key = h[q].key
        OBVIOUS
    <2>1. r.node[q] = d[q]
        BY <1>3
    <2>2. q \in S
        OBVIOUS
    <2> HIDE DEF S, h
    <2>3. Item(d[q]) = Item(h[q])
        BY <1>5, <2>2, SameItem
    <2> QED  BY <1>5, <2>1, <2>2, <2>3 DEF SameData
<1>9. \A i \in 0 .. n : e[i] \in T
    BY <1>6, <1>7
<1>10. IsMemory(r)
    <2>1. r.node \in [T -> HeapNode] /\ T \in SUBSET Addresses
        BY <1>2, <1>3, <1>5
    <2>2. r.m_map = [q \in Mapped(r) |-> r.m_map[q]]
        BY <1>3, <1>4
    <2> QED  BY <1>2, <1>4, <2>1, <2>2 DEF IsMemory
<1>11. Linked(r.node, e, n - 1)
    <2>1. DOMAIN r.node = T /\ (n - 1) + 1 = n
        BY <1>2, <1>3
    <2> HIDE DEF T
    <2>2. \A i \in 0 .. (n - 1) + 1 :
              /\ e[i] \in DOMAIN r.node /\ r.node[e[i]].next = d[e[i]].next
              /\ r.node[e[i]].pre = d[e[i]].pre
        BY <1>8, <1>9, <2>1
    <2> QED  BY <1>5, <2>2, StaysLinked
<1>12. Owned(r, e, n - 1)
    <2>1. ASSUME NEW q \in T PROVE \E i \in 0 .. (n - 1) + 1 : e[i] = q
        <3>1. PICK x \in 0 .. n + 1 : c[x] = q
            BY <1>2 DEF Owned, Covers
        <3>2. x # j /\ (n - 1) + 1 = n
            BY <1>2, <3>1
        <3> QED  BY <1>6, <3>1, <3>2
    <2>2. ASSUME NEW i \in 1 .. n - 1
          PROVE  r.node[e[i]].key \in K \ {k} /\ r.m_map[r.node[e[i]].key] = e[i]
        <3>1. i \in 0 .. n
            BY <1>2
        <3>2. PICK x \in 1 .. n : x # j /\ e[i] = c[x]
            BY <1>6, <3>1
        <3>3. PICK y : y = h[c[x]].key
            OBVIOUS
        <3>4. y \in K /\ m.m_map[y] = c[x]
            BY <1>2, <3>3 DEF Owned
        <3>5. c[x] # c[j]
            BY <1>2, <1>7, <3>2 DEF Linked
        <3>6. y # k
            BY <1>1, <3>4, <3>5
        <3>7. r.node[e[i]].key = y
            BY <1>7, <1>8, <3>2, <3>3
        <3> QED  BY <1>3, <3>2, <3>4, <3>6, <3>7
    <2>3. ASSUME NEW q \in K \ {k}
          PROVE  \E i \in 1 .. n - 1 : e[i] = r.m_map[q] /\ r.node[e[i]].key = q
        <3>1. PICK x \in 1 .. n : c[x] = m.m_map[q] /\ h[c[x]].key = q
            BY <1>2 DEF Owned
        <3>2. x # j
            BY <1>1, <3>1
        <3>3. PICK i \in 1 .. n - 1 : e[i] = c[x]
            BY <1>6, <1>7, <3>2
        <3>4. r.node[c[x]].key = q
            BY <1>7, <1>8, <3>1, <3>2
        <3> QED  BY <1>3, <3>1, <3>3, <3>4
    <2> QED  BY <1>4, <2>1, <2>2, <2>3 DEF Owned, Covers
<1>13. View(r.node, e, n - 1) = LP!Without(View(h, c, n), k)
    <2>1. View(d, e, n - 1) = LP!Without(View(h, c, n), k)
        <3>1. LP!Good(View(h, c, n))
            BY DEF Whole
        <3> QED  BY <1>1, <1>2, <1>5, <3>1, DropView DEF e
    <2>2. \A i \in 1 .. n - 1 : Item(r.node[e[i]]) = Item(d[e[i]])
        <3>1. \A i \in 1 .. n - 1 : i \in 0 .. n
            BY <1>2
        <3> QED  BY <1>8, <1>9, <3>1
    <2>3. View(r.node, e, n - 1) = View(d, e, n - 1)
        BY <2>2 DEF View
    <2> QED  BY <2>1, <2>3
<1>14. LP!Good(View(r.node, e, n - 1))
    <2>1. LP!Contains(View(h, c, n), k) /\ LP!Good(View(h, c, n))
        BY GoodView
    <2> QED  BY <1>13, <2>1, LP!WithoutKeeps
<1>15. ASSUME NEW q \in K \ {k} PROVE Data(r, q) = Data(m, q)
    <2>1. PICK x \in 1 .. n : c[x] = m.m_map[q] /\ h[c[x]].key = q
        BY <1>2 DEF Owned
    <2>2. x # j
        BY <1>1, <2>1
    <2>3. r.m_map[q] = c[x] /\ c[x] \in T
        BY <1>3, <1>7, <2>1, <2>2
    <2> QED  BY <1>8, <2>1, <2>3 DEF Data
<1>16. Whole(r, e, n - 1)
    BY <1>10, <1>11, <1>12, <1>14 DEF Whole
<1> QED  BY <1>4, <1>13, <1>15, <1>16 DEF r

\* A node outside the chain, put at its front with the present time.
Front(h, p) == updateTime(insert(h, p), p)

LEMMA FrontNode ==
    ASSUME NEW S \in SUBSET Addresses, NEW h \in [S -> HeapNode], NEW c, NEW n,
           Linked(h, c, n), NEW p \in S, Avoids(c, n, p), Covers(c, n, S \ {p}),
           clock \in 0 .. MaxClock
    PROVE  /\ Front(h, p) \in [S -> HeapNode]
           /\ Linked(Front(h, p), Push(c, p, n), n + 1)
           /\ SameData(h, Front(h, p), S \ {p})
           /\ Timed(h, Front(h, p), p)
           /\ Covers(Push(c, p, n), n + 1, S)
<1> DEFINE d == insert(h, p)
           r == updateTime(d, p)
           e == Push(c, p, n)
<1>1. DOMAIN h = S /\ n \in Nat
    BY DEF Linked
<1>2. d \in [S -> HeapNode] /\ SameData(h, d, S) /\ Linked(d, e, n + 1)
    BY <1>1, InsertLinks DEF Avoids
<1> HIDE DEF d
<1>3. /\ r \in [S -> HeapNode] /\ SameData(d, r, S \ {p})
      /\ Timed(d, r, p) /\ SameLinks(d, r, S)
    BY <1>2, SetTime
<1> HIDE DEF r
<1>4. Linked(r, e, n + 1)
    <2>1. DOMAIN d = S /\ DOMAIN r = S
        BY <1>2, <1>3
    <2>2. \A i \in 0 .. (n + 1) + 1 : e[i] \in S
        BY <1>2, <2>1 DEF Linked
    <2> HIDE DEF e
    <2> QED  BY <1>2, <1>3, <2>1, <2>2, StaysLinked DEF SameLinks
<1>5. SameData(h, r, S \ {p}) /\ Timed(h, r, p)
    BY <1>2, <1>3 DEF SameData, Timed
<1>6. ASSUME NEW q \in S PROVE \E i \in 0 .. n + 2 : e[i] = q
    <2>1. CASE q = p
        <3>1. 1 \in 0 .. n + 2 /\ e[1] = p
            BY <1>1 DEF Push
        <3> QED  BY <2>1, <3>1
    <2>2. CASE q # p
        <3>1. PICK i \in 0 .. n + 1 : c[i] = q
            BY <2>2 DEF Covers
        <3>2. CASE i = 0
            <4>1. 0 \in 0 .. n + 2 /\ e[0] = m_head /\ c[0] = m_head
                BY <1>1 DEF Push, Linked
            <4> QED  BY <3>1, <3>2, <4>1
        <3>3. CASE i # 0
            <4>1. i + 1 \in 0 .. n + 2 /\ e[i + 1] = c[i]
                BY <1>1, <3>3 DEF Push
            <4> QED  BY <3>1, <4>1
        <3> QED  BY <3>2, <3>3
    <2> QED  BY <2>1, <2>2
<1>7. Covers(e, n + 1, S)
    <2>1. (n + 1) + 1 = n + 2
        BY <1>1
    <2> QED  BY <1>6, <2>1 DEF Covers
<1> QED  BY <1>3, <1>4, <1>5, <1>7 DEF Front, r, d

LEMMA PushNodes ==
    ASSUME NEW c, NEW p, NEW n \in Nat
    PROVE  /\ Push(c, p, n)[1] = p
           /\ \A i \in 1 .. n : i + 1 \in 2 .. n + 1 /\ Push(c, p, n)[i + 1] = c[i]
           /\ \A i \in 2 .. n + 1 : i - 1 \in 1 .. n /\ Push(c, p, n)[i] = c[i - 1]
BY DEF Push

\* get, of a key that is there.
LEMMA TouchWhole ==
    ASSUME NEW m, NEW c, NEW n, Whole(m, c, n), NEW k \in Mapped(m),
           clock \in 0 .. MaxClock
    PROVE  LET v == LP!ValueOf(View(m.node, c, n), k)
               r == Touch(m, m.m_map[k])
           IN  /\ Mapped(r) = Mapped(m) /\ v \in Conns
               /\ Data(m, k).value = v
               /\ Data(r, k) = [key |-> k, value |-> v, last_use_time |-> clock]
               /\ \A q \in Mapped(m) \ {k} : Data(r, q) = Data(m, q)
               /\ \E e : /\ Whole(r, e, n)
                         /\ View(r.node, e, n) =
                              LP!Insert(LP!Without(View(m.node, c, n), k), k, v)
<1>1. PICK j \in 1 .. n : /\ c[j] = m.m_map[k] /\ m.node[c[j]].key = k
                          /\ c[j] \in Allocated(m)
    BY MappedNode
<1> DEFINE h == m.node
           S == Allocated(m)
           K == Mapped(m)
           p == c[j]
           d == del(h, p)
           e == Drop(c, j, n)
           f == Push(e, p, n - 1)
           l == View(h, c, n)
           v == LP!ValueOf(l, k)
           r == Touch(m, m.m_map[k])
<1>2. /\ S \in SUBSET Addresses /\ h \in [S -> HeapNode] /\ DOMAIN h = S
      /\ K \in SUBSET Keys /\ Linked(h, c, n) /\ Owned(m, c, n) /\ n \in Nat
    BY DEF Whole, IsMemory, Allocated, Linked
<1>24. m.m_map = [q \in K |-> m.m_map[q]] /\ n - 1 \in Nat /\ (n - 1) + 1 = n
    BY <1>2 DEF Whole, IsMemory
<1>3. r.node = Front(d, p) /\ r.m_map = m.m_map
    BY <1>1 DEF Touch, Front
<1> HIDE DEF r
<1>4. /\ LP!Good(l) /\ LP!Contains(l, k) /\ l[j] = Item(h[p]) /\ l[j] \in LP!Node
      /\ l \in Seq(LP!Node)
    BY GoodView
<1>5. d \in [S -> HeapNode] /\ SameData(h, d, S) /\ Linked(d, e, n - 1)
    BY <1>2, DelLinks
<1>6. v = h[p].value /\ View(d, e, n - 1) = LP!Without(l, k)
    BY <1>1, <1>2, <1>4, <1>5, DropView
<1> HIDE DEF d, v
<1>25. Others(e, c, j, n)
    BY <1>2, DropNodes
<1>7. /\ \A i \in 0 .. n : \E x \in 0 .. n + 1 :
            x # j /\ e[i] = c[x] /\ (i \in 1 .. n - 1 => x \in 1 .. n)
      /\ \A x \in 0 .. n + 1 : x # j => \E i \in 0 .. n :
            e[i] = c[x] /\ (x \in 1 .. n => i \in 1 .. n - 1)
    BY <1>25 DEF Others
<1> HIDE DEF e
<1>8. /\ \A x \in 0 .. n + 1 : c[x] \in S /\ (x # j => c[x] # p)
      /\ j \in 0 .. n + 1 /\ \A i \in 1 .. n : i \in 0 .. n + 1
    BY <1>2 DEF Linked
<1>9. /\ Front(d, p) \in [S -> HeapNode] /\ Linked(Front(d, p), f, n)
      /\ SameData(d, Front(d, p), S \ {p})
      /\ Timed(d, Front(d, p), p)
      /\ Covers(f, n, S)
    <2>1. Avoids(e, n - 1, p)
        BY <1>7, <1>8, <1>24 DEF Avoids
    <2>2. Covers(e, n - 1, S \ {p})
        <3> SUFFICES ASSUME NEW q \in S \ {p} PROVE \E i \in 0 .. n : e[i] = q
            BY <1>24 DEF Covers
        <3>1. PICK x \in 0 .. n + 1 : c[x] = q
            BY <1>2 DEF Owned, Covers
        <3>2. x # j
            BY <3>1
        <3> QED  BY <1>7, <3>1, <3>2
    <2>3. p \in S
        BY <1>1
    <2> HIDE DEF S, p, h
    <2>4. PICK x : x = n - 1
        OBVIOUS
    <2>5. Linked(d, e, x) /\ Avoids(e, x, p) /\ Covers(e, x, S \ {p})
        BY <1>5, <2>1, <2>2, <2>4
    <2>6. /\ Front(d, p) \in [S -> HeapNode] /\ Linked(Front(d, p), Push(e, p, x), x + 1)
          /\ SameData(d, Front(d, p), S \ {p})
          /\ Timed(d, Front(d, p), p)
          /\ Covers(Push(e, p, x), x + 1, S)
        BY <1>2, <1>5, <2>3, <2>5, FrontNode
    <2> QED  BY <1>24, <2>4, <2>6
<1>10. /\ SameData(h, r.node, S \ {p}) /\ r.node[p].key = k /\ r.node[p].value = v
       /\ r.node[p].last_use_time = clock
    BY <1>1, <1>3, <1>5, <1>6, <1>9 DEF SameData, Timed
<1>11. /\ f[1] = p
       /\ \A i \in 1 .. n - 1 : i + 1 \in 2 .. (n - 1) + 1 /\ f[i + 1] = e[i]
       /\ \A i \in 2 .. (n - 1) + 1 : i - 1 \in 1 .. n - 1 /\ f[i] = e[i - 1]
    BY <1>24, PushNodes
<1> HIDE DEF f
<1>12. Allocated(r) = S /\ Mapped(r) = K
    <2>1. DOMAIN r.node = S
        BY <1>3, <1>9
    <2> QED  BY <1>3, <2>1 DEF Allocated, Mapped
<1>13. IsMemory(r)
    BY <1>2, <1>3, <1>9, <1>12, <1>24 DEF IsMemory
<1>14. \A q \in S : r.node[q].key = h[q].key
    BY <1>1, <1>10 DEF SameData
<1>15. \A q \in S \ {p} : Item(r.node[q]) = Item(h[q])
    BY <1>10, SameItem
<1>16. Owned(r, f, n)
    <2>1. Covers(f, n, S)
        BY <1>9
    <2>2. ASSUME NEW i \in 1 .. n
          PROVE  r.node[f[i]].key \in K /\ r.m_map[r.node[f[i]].key] = f[i]
        <3>1. PICK x \in 1 .. n : f[i] = c[x]
            <4>1. CASE i = 1
                BY <1>11, <4>1
            <4>2. CASE i # 1
                <5>1. i - 1 \in 1 .. n - 1 /\ i - 1 \in 0 .. n /\ f[i] = e[i - 1]
                    BY <1>2, <1>11, <4>2
                <5>2. PICK x \in 0 .. n + 1 : e[i - 1] = c[x] /\ x \in 1 .. n
                    BY <1>7, <5>1
                <5> QED  BY <5>1, <5>2
            <4> QED  BY <4>1, <4>2
        <3>2. PICK y : y = h[c[x]].key
            OBVIOUS
        <3>3. y \in K /\ m.m_map[y] = c[x]
            BY <1>2, <3>2 DEF Owned
        <3>4. r.node[f[i]].key = y
            BY <1>8, <1>14, <3>1, <3>2
        <3> QED  BY <1>3, <3>1, <3>3, <3>4
    <2>3. ASSUME NEW q \in K
          PROVE  \E i \in 1 .. n : f[i] = r.m_map[q] /\ r.node[f[i]].key = q
        <3>1. PICK x \in 1 .. n : c[x] = m.m_map[q] /\ h[c[x]].key = q
            BY <1>2 DEF Owned
        <3>2. \E i \in 1 .. n : f[i] = c[x]
            <4>1. CASE x = j
                <5>1. 1 \in 1 .. n
                    BY <1>2
                <5> QED  BY <1>11, <4>1, <5>1
            <4>2. CASE x # j
                <5>1. PICK i \in 1 .. n - 1 : e[i] = c[x]
                    BY <1>7, <1>8, <4>2
                <5>2. i + 1 \in 1 .. n /\ f[i + 1] = e[i]
                    BY <1>2, <1>11
                <5> QED  BY <5>1, <5>2
            <4> QED  BY <4>1, <4>2
        <3>3. r.node[c[x]].key = q
            BY <1>8, <1>14, <3>1
        <3> QED  BY <1>3, <3>1, <3>2, <3>3
    <2> QED  BY <1>12, <2>1, <2>2, <2>3 DEF Owned
<1>17. k \in Keys /\ v \in Conns
    <2>1. l[j].value = h[p].value
        BY <1>4 DEF Item
    <2> QED  BY <1>2, <1>4, <1>6, <2>1 DEF LP!Node
<1> DEFINE w == LP!Without(l, k)
<1>18. LP!Good(w) /\ ~LP!Contains(w, k) /\ w \in Seq(LP!Node)
    <2>1. LP!Good(w) /\ LP!Nodes(w) = {i \in LP!Nodes(l) : i.key # k}
        BY <1>4, LP!WithoutKeeps
    <2> HIDE DEF w
    <2>2. ~LP!Contains(w, k)
        BY <2>1 DEF LP!Contains, LP!Nodes
    <2> QED  BY <2>1, <2>2 DEF LP!Good
<1> HIDE DEF l, w
<1>19. View(r.node, f, n) = LP!Insert(w, k, v)
    <2>1. View(d, e, n - 1) = w
        BY <1>6 DEF w
    <2>2. \A i \in 1 .. n - 1 : Item(r.node[e[i]]) = Item(d[e[i]])
        <3> SUFFICES ASSUME NEW i \in 1 .. n - 1
                     PROVE  Item(r.node[e[i]]) = Item(d[e[i]])
            OBVIOUS
        <3>1. i \in 0 .. n
            BY <1>2
        <3>2. e[i] \in S \ {p}
            BY <1>7, <1>8, <3>1
        <3> QED  BY <1>3, <1>9, <3>2, SameItem
    <2>3. View(r.node, f, (n - 1) + 1) = LP!Insert(w, k, v)
        BY <1>2, <1>10, <1>17, <1>18, <2>1, <2>2, PushView DEF f
    <2> QED  BY <1>2, <2>3
<1>20. LP!Good(View(r.node, f, n))
    BY <1>17, <1>18, <1>19, LP!InsertAdds
<1>21. Whole(r, f, n)
    BY <1>3, <1>9, <1>13, <1>16, <1>20 DEF Whole
<1>22. ASSUME NEW q \in K \ {k} PROVE Data(r, q) = Data(m, q)
    <2>1. PICK x \in 1 .. n : c[x] = m.m_map[q] /\ h[c[x]].key = q
        BY <1>2 DEF Owned
    <2>2. x # j
        BY <1>1, <2>1
    <2>3. r.m_map[q] = c[x] /\ c[x] \in S \ {p}
        BY <1>3, <1>8, <2>1, <2>2
    <2> QED  BY <1>15, <2>1, <2>3 DEF Data
<1>23. /\ Data(r, k) = [key |-> k, value |-> v, last_use_time |-> clock]
       /\ Data(m, k).value = v
    BY <1>1, <1>3, <1>6, <1>10 DEF Data, Item
<1> QED  BY <1>12, <1>17, <1>19, <1>21, <1>22, <1>23 DEF r, v, w, l

\* There is room for another node while some key has none.
LEMMA AddressIsFree ==
    ASSUME NEW m, NEW c, NEW n, Whole(m, c, n), NEW k \in Keys \ Mapped(m)
    PROVE  FreeAddress(m) \in Addresses \ Allocated(m)
<1> DEFINE h == m.node
           S == Allocated(m)
           K == Keys \ {k}
           f == [i \in 1 .. n |-> h[c[i]].key]
<1>1. /\ S \in SUBSET Addresses /\ DOMAIN h = S /\ n \in Nat /\ Mapped(m) \in SUBSET K
      /\ c \in [0 .. n + 1 -> S] /\ Covers(c, n, S) /\ Owned(m, c, n)
      /\ \A i, j \in 0 .. n + 1 : c[i] = c[j] => i = j
    BY DEF Whole, IsMemory, Linked, Owned, Allocated
<1>2. f \in Injection(1 .. n, K)
    <2>1. f \in [1 .. n -> K] /\ \A i \in 1 .. n : m.m_map[f[i]] = c[i]
        BY <1>1 DEF Owned
    <2>2. \A i, j \in 1 .. n : f[i] = f[j] => i = j
        <3> SUFFICES ASSUME NEW i \in 1 .. n, NEW j \in 1 .. n, f[i] = f[j] PROVE i = j
            OBVIOUS
        <3>1. c[i] = c[j] /\ i \in 0 .. n + 1 /\ j \in 0 .. n + 1
            BY <1>1, <2>1
        <3> QED  BY <1>1, <3>1
    <2> HIDE DEF f, K
    <2> QED  BY <2>1, <2>2 DEF Injection, IsInjective
<1> HIDE DEF f
<1>3. n <= Cardinality(Keys) - 1
    <2>1. IsFiniteSet(K) /\ Cardinality(K) = Cardinality(Keys) - 1
        BY FS_RemoveElement
    <2> HIDE DEF K
    <2>2. Cardinality(1 .. n) <= Cardinality(K)
        BY <1>2, <2>1, FS_Injection
    <2>3. Cardinality(1 .. n) = n
        BY <1>1, FS_Interval
    <2> QED  BY <2>1, <2>2, <2>3
<1>4. Cardinality(S) <= n + 2
    <2> HIDE DEF S
    <2>1. c \in Surjection(0 .. n + 1, S)
        BY <1>1 DEF Surjection, Range, Covers
    <2>2. IsFiniteSet(0 .. n + 1) /\ Cardinality(0 .. n + 1) = n + 2
        BY <1>1, FS_Interval
    <2> QED  BY <2>1, <2>2, FS_Surjection
<1>5. S # Addresses
    <2>1. Cardinality(S) \in Nat /\ Cardinality(Keys) \in Nat /\ Cardinality(Addresses) \in Nat
        BY <1>1, FS_CardinalityType, FS_Subset
    <2> HIDE DEF S
    <2> QED  BY <1>1, <1>3, <1>4, <2>1
<1> QED  BY <1>1, <1>5 DEF FreeAddress

\* put, of a key that is not there.
LEMMA AddWhole ==
    ASSUME NEW m, NEW c, NEW n, Whole(m, c, n), NEW k \in Keys \ Mapped(m),
           NEW v \in Conns, clock \in 0 .. MaxClock
    PROVE  /\ Mapped(Add(m, k, v)) = Mapped(m) \union {k}
           /\ Data(Add(m, k, v), k) = [key |-> k, value |-> v, last_use_time |-> clock]
           /\ \A q \in Mapped(m) : Data(Add(m, k, v), q) = Data(m, q)
           /\ \E e : /\ Whole(Add(m, k, v), e, n + 1)
                     /\ View(Add(m, k, v).node, e, n + 1) =
                           LP!Insert(View(m.node, c, n), k, v)
<1> DEFINE h == m.node
           S == Allocated(m)
           K == Mapped(m)
           p == FreeAddress(m)
           T == S \union {p}
           d == NewNode(m, p, k, v)
           f == Push(c, p, n)
           l == View(h, c, n)
           r == Add(m, k, v)
<1>1. p \in Addresses /\ p \notin S
    BY AddressIsFree
<1>2. /\ S \in SUBSET Addresses /\ h \in [S -> HeapNode] /\ DOMAIN h = S
      /\ K \in SUBSET Keys /\ Linked(h, c, n) /\ Owned(m, c, n) /\ n \in Nat
    BY DEF Whole, IsMemory, Allocated, Linked
<1>3. /\ r.node = Front(d, p)
      /\ r.m_map = [j \in K \union {k} |-> IF j = k THEN p ELSE m.m_map[j]]
    BY DEF Add, Front
<1>4. l \in Seq(LP!Node) /\ LP!Good(l) /\ ~LP!Contains(l, k)
    BY GoodView
<1> HIDE DEF r, p
<1>5. Node(k, v) \in HeapNode /\ Node(k, v).key = k /\ Node(k, v).value = v
    BY DEF Node, HeapNode, Pointers
<1>6. /\ d \in [T -> HeapNode] /\ T \in SUBSET Addresses /\ p \in T
      /\ \A q \in S : d[q] = h[q] /\ Item(d[q]) = Item(h[q])
      /\ d[p].key = k /\ d[p].value = v
    <2>1. d = [a \in T |-> IF a = p THEN Node(k, v) ELSE h[a]]
        BY DEF NewNode
    <2>2. d \in [T -> HeapNode]
        BY <1>2, <1>5, <2>1
    <2>3. d[p] = Node(k, v) /\ \A q \in S : d[q] = h[q]
        BY <1>1, <2>1
    <2> QED  BY <1>1, <1>2, <1>5, <2>2, <2>3
<1> HIDE DEF d
<1>7. \A x \in 0 .. n + 1 : c[x] \in S
    BY <1>2 DEF Linked
<1>8. Linked(d, c, n) /\ Avoids(c, n, p) /\ Covers(c, n, T \ {p})
    <2>1. DOMAIN d = T
        BY <1>6
    <2>2. \A i \in 0 .. n + 1 : /\ c[i] \in DOMAIN d /\ d[c[i]].next = h[c[i]].next
                                /\ d[c[i]].pre = h[c[i]].pre
        BY <1>6, <1>7, <2>1
    <2>3. Linked(d, c, n)
        BY <1>2, <2>2, StaysLinked
    <2>4. Avoids(c, n, p)
        BY <1>1, <1>7 DEF Avoids
    <2>5. T \ {p} = S
        BY <1>1
    <2> QED  BY <1>2, <2>3, <2>4, <2>5 DEF Owned
<1>9. /\ r.node \in [T -> HeapNode] /\ Linked(r.node, f, n + 1)
      /\ SameData(d, r.node, T \ {p}) /\ Timed(d, r.node, p) /\ Covers(f, n + 1, T)
    <2>1. T \in SUBSET Addresses /\ d \in [T -> HeapNode] /\ p \in T
        BY <1>6
    <2> HIDE DEF T
    <2>2. Front(d, p) \in [T -> HeapNode] /\ Linked(Front(d, p), f, n + 1)
        BY <1>8, <2>1, FrontNode
    <2>3. /\ SameData(d, Front(d, p), T \ {p}) /\ Timed(d, Front(d, p), p)
          /\ Covers(f, n + 1, T)
        BY <1>8, <2>1, FrontNode
    <2> QED  BY <1>3, <2>2, <2>3
<1>10. /\ r.node[p].key = k /\ r.node[p].value = v /\ r.node[p].last_use_time = clock
       /\ \A q \in S : Item(r.node[q]) = Item(h[q]) /\ r.node[q].key = h[q].key
    <2>1. \A q \in S : q \in T \ {p}
        BY <1>1
    <2>2. \A q \in S : Item(r.node[q]) = Item(d[q])
        BY <1>9, <2>1, SameItem
    <2>3. \A q \in S : r.node[q].key = d[q].key
        BY <1>9, <2>1 DEF SameData
    <2> QED  BY <1>6, <1>9, <2>2, <2>3 DEF Timed
<1>11. /\ f[1] = p
       /\ \A i \in 1 .. n : i + 1 \in 2 .. n + 1 /\ f[i + 1] = c[i]
       /\ \A i \in 2 .. n + 1 : i - 1 \in 1 .. n /\ f[i] = c[i - 1]
    BY <1>2, PushNodes
<1> HIDE DEF f
<1>12. Allocated(r) = T /\ Mapped(r) = K \union {k}
    <2>1. DOMAIN r.node = T
        BY <1>9
    <2> QED  BY <1>3, <2>1 DEF Allocated, Mapped
<1>13. IsMemory(r)
    <2>1. r.m_map = [j \in K \union {k} |-> r.m_map[j]]
        BY <1>3
    <2> QED  BY <1>2, <1>6, <1>9, <1>12, <2>1 DEF IsMemory
<1>14. Owned(r, f, n + 1)
    <2>1. ASSUME NEW i \in 1 .. n + 1
          PROVE  /\ r.node[f[i]].key \in K \union {k}
                 /\ r.m_map[r.node[f[i]].key] = f[i]
        <3>1. CASE i = 1
            BY <1>3, <1>10, <1>11, <3>1
        <3>2. CASE i # 1
            <4>1. PICK x \in 1 .. n : f[i] = c[x]
                BY <1>2, <1>11, <3>2
            <4>2. PICK y : y = h[c[x]].key
                OBVIOUS
            <4>3. y \in K /\ m.m_map[y] = c[x]
                BY <1>2, <4>2 DEF Owned
            <4>4. r.node[f[i]].key = y
                <5>1. x \in 0 .. n + 1
                    BY <1>2
                <5> QED  BY <1>7, <1>10, <4>1, <4>2, <5>1
            <4> QED  BY <1>3, <4>1, <4>3, <4>4
        <3> QED  BY <3>1, <3>2
    <2>2. ASSUME NEW q \in K \union {k}
          PROVE  \E i \in 1 .. n + 1 : f[i] = r.m_map[q] /\ r.node[f[i]].key = q
        <3>1. CASE q = k
            <4>1. 1 \in 1 .. n + 1
                BY <1>2
            <4> QED  BY <1>3, <1>10, <1>11, <3>1, <4>1
        <3>2. CASE q # k
            <4>1. PICK x \in 1 .. n : c[x] = m.m_map[q] /\ h[c[x]].key = q
                BY <1>2, <3>2 DEF Owned
            <4>2. x \in 0 .. n + 1 /\ x + 1 \in 1 .. n + 1 /\ f[x + 1] = c[x]
                BY <1>2, <1>11
            <4>3. r.node[c[x]].key = q
                BY <1>7, <1>10, <4>1, <4>2
            <4> QED  BY <1>3, <3>2, <4>1, <4>2, <4>3
        <3> QED  BY <3>1, <3>2
    <2> QED  BY <1>9, <1>12, <2>1, <2>2 DEF Owned
<1>15. View(r.node, f, n + 1) = LP!Insert(l, k, v)
    <2>1. \A i \in 1 .. n : Item(r.node[c[i]]) = Item(h[c[i]])
        <3>1. \A i \in 1 .. n : i \in 0 .. n + 1
            BY <1>2
        <3> QED  BY <1>7, <1>10, <3>1
    <2>2. PICK g : g = r.node
        OBVIOUS
    <2>3. \A i \in 1 .. n : Item(g[c[i]]) = Item(h[c[i]])
        BY <2>1, <2>2
    <2>4. g[p].key = k /\ g[p].value = v /\ g[p].last_use_time = clock
        BY <1>10, <2>2
    <2>5. n \in Nat
        BY <1>2
    <2>6. View(g, Push(c, p, n), n + 1) = LP!Insert(View(h, c, n), k, v)
        <3> HIDE DEF h
        <3> QED  BY <1>4, <2>3, <2>4, <2>5, PushView
    <2> QED  BY <2>2, <2>6 DEF f
<1>16. LP!Good(View(r.node, f, n + 1))
    BY <1>4, <1>15, LP!InsertAdds
<1>17. Whole(r, f, n + 1)
    BY <1>9, <1>13, <1>14, <1>16 DEF Whole
<1>18. ASSUME NEW q \in K PROVE Data(r, q) = Data(m, q)
    <2>1. PICK x \in 1 .. n : c[x] = m.m_map[q] /\ h[c[x]].key = q
        BY <1>2 DEF Owned
    <2>2. x \in 0 .. n + 1 /\ q # k
        BY <1>2
    <2>3. r.m_map[q] = c[x] /\ c[x] \in S
        BY <1>3, <1>7, <2>1, <2>2
    <2> QED  BY <1>10, <2>1, <2>3 DEF Data
<1>19. Data(r, k) = [key |-> k, value |-> v, last_use_time |-> clock]
    BY <1>3, <1>10 DEF Data, Item
<1> QED  BY <1>12, <1>15, <1>17, <1>18, <1>19 DEF r

-----------------------------------------------------------------------------
(***************************************************************************)
(* The nodes that next leads to.                                           *)
(***************************************************************************)

LEMMA LeastOne ==
    ASSUME NEW n \in Nat, NEW S \in SUBSET (0 .. n), S # {}
    PROVE  \E i \in S : \A j \in S : i <= j
<1> DEFINE T == {0 .. i : i \in S}
           R == StrictSubsetOrdering(0 .. n)
<1>1. IsWellFoundedOn(R, FiniteSubsetsOf(0 .. n))
    BY FS_StrictSubsetOrderingWellFounded
<1>2. T \subseteq FiniteSubsetsOf(0 .. n) /\ T # {}
    <2>1. ASSUME NEW i \in S PROVE 0 .. i \in FiniteSubsetsOf(0 .. n)
        <3>1. i \in Nat /\ i <= n /\ 0 .. i \subseteq 0 .. n
            OBVIOUS
        <3>2. IsFiniteSet(0 .. i)
            BY <3>1, FS_Interval
        <3> QED  BY <3>1, <3>2 DEF FiniteSubsetsOf
    <2> QED  BY <2>1
<1>3. PICK x \in T : \A y \in T : <<y, x>> \notin R
    <2> HIDE DEF T, R
    <2> QED  BY <1>1, <1>2, WFMin
<1>4. PICK i \in S : x = 0 .. i
    OBVIOUS
<1>5. ASSUME NEW j \in S, j < i PROVE FALSE
    <2>1. 0 .. j \in T /\ 0 .. i \in T
        OBVIOUS
    <2>2. 0 .. j \subseteq 0 .. i /\ i \in 0 .. i /\ i \notin 0 .. j
        BY <1>5
    <2>3. 0 .. j \subseteq 0 .. n /\ 0 .. i \subseteq 0 .. n
        OBVIOUS
    <2>4. <<0 .. j, 0 .. i>> \in R
        BY <2>2, <2>3 DEF StrictSubsetOrdering
    <2> QED  BY <1>3, <1>4, <2>1, <2>4
<1>6. \A j \in S : i <= j
    BY <1>5
<1> QED  BY <1>6

\* The addresses that next leads to are those of the chain.
LEMMA FollowChain ==
    ASSUME NEW h, NEW c, NEW n, Linked(h, c, n), NEW at,
           at = [i \in 0 .. n |-> IF i = 0 THEN m_head ELSE h[at[i - 1]].next]
    PROVE  \A i \in 0 .. n : at[i] = c[i]
<1> DEFINE S == {i \in 0 .. n : at[i] # c[i]}
<1>1. n \in Nat /\ c[0] = m_head /\ \A i \in 0 .. n : h[c[i]].next = c[i + 1]
    BY DEF Linked
<1>2. at[0] = m_head /\ \A i \in 1 .. n : at[i] = h[at[i - 1]].next
    BY <1>1
<1>3. ASSUME S # {} PROVE FALSE
    <2>1. PICK i \in S : \A j \in S : i <= j
        <3>1. S \in SUBSET (0 .. n)
            OBVIOUS
        <3> HIDE DEF S
        <3> QED  BY <1>1, <1>3, <3>1, LeastOne
    <2>2. i # 0
        BY <1>1, <1>2
    <2>3. i \in 1 .. n /\ i - 1 \in 0 .. n /\ (i - 1) + 1 = i /\ i - 1 < i
        BY <1>1, <2>2
    <2>4. at[i - 1] = c[i - 1]
        BY <2>1, <2>3
    <2>5. at[i] = c[i]
        BY <1>1, <1>2, <2>3, <2>4
    <2> QED  BY <2>5
<1> QED  BY <1>3

LEMMA NodesAre ==
    ASSUME NEW m, NEW c, NEW n, Whole(m, c, n)
    PROVE  NodesOf(m) = View(m.node, c, n) /\ Cardinality(Mapped(m)) = n
<1> DEFINE h == m.node
           K == Mapped(m)
           f == [i \in 1 .. n |-> h[c[i]].key]
<1>1. /\ Linked(h, c, n) /\ Owned(m, c, n) /\ n \in Nat
      /\ \A i, j \in 0 .. n + 1 : c[i] = c[j] => i = j
    BY DEF Whole, Linked
<1>2. Cardinality(K) = n
    <2>1. f \in [1 .. n -> K] /\ \A i \in 1 .. n : m.m_map[f[i]] = c[i]
        BY <1>1 DEF Owned
    <2>2. \A i, j \in 1 .. n : f[i] = f[j] => i = j
        <3> SUFFICES ASSUME NEW i \in 1 .. n, NEW j \in 1 .. n, f[i] = f[j] PROVE i = j
            OBVIOUS
        <3>1. c[i] = c[j] /\ i \in 0 .. n + 1 /\ j \in 0 .. n + 1
            BY <1>1, <2>1
        <3> QED  BY <1>1, <3>1
    <2>3. \A k \in K : \E i \in 1 .. n : f[i] = k
        BY <1>1 DEF Owned
    <2> HIDE DEF f, K
    <2>4. f \in Bijection(1 .. n, K)
        BY <2>1, <2>2, <2>3, Fun_IsBij
    <2>5. ExistsBijection(1 .. n, K)
        BY <2>4 DEF ExistsBijection
    <2>6. IsFiniteSet(1 .. n) /\ Cardinality(1 .. n) = n
        BY <1>1, FS_Interval
    <2> QED  BY <2>5, <2>6, FS_Bijection
<1> HIDE DEF f
<1> DEFINE P(g) == g = [i \in 0 .. n |-> IF i = 0 THEN m_head ELSE h[g[i - 1]].next]
           at == CHOOSE g : P(g)
<1>3. P([i \in 0 .. n |-> c[i]])
    <2> DEFINE g == [i \in 0 .. n |-> c[i]]
    <2>1. ASSUME NEW i \in 0 .. n
          PROVE  c[i] = IF i = 0 THEN m_head ELSE h[g[i - 1]].next
        <3>1. CASE i = 0
            BY <3>1 DEF Whole, Linked
        <3>2. CASE i # 0
            <4>1. i - 1 \in 0 .. n /\ (i - 1) + 1 = i
                BY <1>1, <3>2
            <4>2. h[c[i - 1]].next = c[i]
                BY <1>1, <4>1 DEF Linked
            <4> QED  BY <3>2, <4>1, <4>2
        <3> QED  BY <3>1, <3>2
    <2> QED  BY <2>1
<1>4. P(at)
    <2> HIDE DEF P
    <2> QED  BY <1>3
<1> HIDE DEF at
<1>5. \A i \in 0 .. n : at[i] = c[i]
    <2> HIDE DEF h
    <2> QED  BY <1>1, <1>4, FollowChain
<1>6. NodesOf(m) = [i \in 1 .. n |-> Item(h[at[i]])]
    BY <1>2 DEF NodesOf, at, Item
<1>7. \A i \in 1 .. n : at[i] = c[i]
    BY <1>1, <1>5
<1>8. View(h, c, n) = [i \in 1 .. n |-> Item(h[at[i]])]
    BY <1>7 DEF View
<1> QED  BY <1>2, <1>6, <1>8

-----------------------------------------------------------------------------
(***************************************************************************)
(* checkList.                                                              *)
(***************************************************************************)

\* The end of the loop is a node that has not expired, and no node has; a turn removes
\* a node that checkList of LRUCache removes.
LEMMA LastNode ==
    ASSUME NEW m, NEW c, NEW n, Whole(m, c, n), clock \in 0 .. MaxClock
    PROVE  /\ n = 0 => ~LastExpired(m)
           /\ n > 0 =>
                /\ LastExpired(m) <=> LP!Expired(View(m.node, c, n)[n])
                /\ m.node[Last(m)].key = View(m.node, c, n)[n].key
                /\ m.node[Last(m)].key \in Mapped(m)
                /\ m.m_map[m.node[Last(m)].key] = Last(m)
<1>1. /\ n \in Nat /\ c[0] = m_head /\ c[n + 1] = m_tail
      /\ m.node[c[n + 1]].pre = c[n] /\ n \in 0 .. n + 1 /\ 0 \in 0 .. n + 1
      /\ \A i, j \in 0 .. n + 1 : c[i] = c[j] => i = j
    BY DEF Whole, Linked
<1>2. Last(m) = c[n]
    BY <1>1 DEF Last
<1>3. CASE n = 0
    BY <1>1, <1>2, <1>3 DEF LastExpired
<1>4. CASE n > 0
    <2>1. n \in 1 .. n /\ c[n] # m_head
        BY <1>1, <1>4
    <2>2. View(m.node, c, n)[n] = Item(m.node[c[n]])
        BY <2>1, GoodView
    <2>3. m.node[c[n]].key \in Mapped(m) /\ m.m_map[m.node[c[n]].key] = c[n]
        BY <2>1 DEF Whole, Owned
    <2>4. LastExpired(m) <=> LP!Expired(View(m.node, c, n)[n])
        BY <1>2, <2>1, <2>2 DEF LastExpired, LP!Expired, Item
    <2> QED  BY <1>2, <1>4, <2>2, <2>3, <2>4 DEF Item
<1> QED  BY <1>1, <1>3, <1>4

LEMMA CheckEnds ==
    ASSUME NEW m, NEW c, NEW n, Whole(m, c, n), clock \in 0 .. MaxClock, ~LastExpired(m)
    PROVE  /\ LP!CheckList(View(m.node, c, n)) = View(m.node, c, n)
           /\ \A k \in Mapped(m) : clock - Data(m, k).last_use_time <= LiveTime
<1> DEFINE l == View(m.node, c, n)
           w == LP!CheckList(l)
<1>1. /\ l \in Seq(LP!Node) /\ LP!Good(l) /\ n \in Nat /\ Len(l) = n
      /\ \A i \in 1 .. n : l[i] = Item(m.node[c[i]]) /\ l[i] \in LP!Node
    BY GoodView
<1>2. n > 0 => ~LP!Expired(l[n])
    BY LastNode
<1> HIDE DEF l
<1>3. PICK x \in 0 .. Len(l) :
        /\ \A i \in 1 .. Len(l) : i <= x <=> ~LP!Expired(l[i])
        /\ w \in Seq(LP!Node) /\ Len(w) = x
        /\ \A i \in 1 .. x : w[i] = l[i]
    BY <1>1, LP!CheckIs
<1> HIDE DEF w
<1>4. x = n
    <2>1. CASE n = 0
        BY <1>1, <1>3, <2>1
    <2>2. CASE n > 0
        <3>1. n \in 1 .. Len(l)
            BY <1>1, <2>2
        <3> QED  BY <1>1, <1>2, <1>3, <2>2, <3>1
    <2> QED  BY <1>1, <2>1, <2>2
<1>5. w = l
    <2>1. DOMAIN w = 1 .. n /\ DOMAIN l = 1 .. n
        BY <1>1, <1>3, <1>4, LenProperties
    <2>2. w = [i \in 1 .. n |-> w[i]] /\ l = [i \in 1 .. n |-> l[i]]
        BY <1>1, <1>3, <2>1
    <2> QED  BY <1>3, <1>4, <2>2
<1>6. ASSUME NEW k \in Mapped(m) PROVE clock - Data(m, k).last_use_time <= LiveTime
    <2>1. PICK j \in 1 .. n : c[j] = m.m_map[k]
        BY MappedNode
    <2>2. ~LP!Expired(l[j])
        BY <1>1, <1>3, <1>4
    <2>3. l[j] = Data(m, k) /\ l[j] \in LP!Node
        BY <1>1, <2>1 DEF Data
    <2>4. l[j].last_use_time \in Int
        BY <2>3 DEF LP!Node
    <2> QED  BY <2>2, <2>3, <2>4 DEF LP!Expired
<1> QED  BY <1>5, <1>6 DEF l, w

LEMMA CheckTurns ==
    ASSUME NEW m, NEW c, NEW n, Whole(m, c, n), clock \in 0 .. MaxClock, LastExpired(m)
    PROVE  LET k == m.node[Last(m)].key
               l == View(m.node, c, n)
           IN  /\ k \in Mapped(m) /\ clock - Data(m, k).last_use_time > LiveTime
               /\ LP!CheckList(LP!Without(l, k)) = LP!CheckList(l)
<1> DEFINE l == View(m.node, c, n)
           k == m.node[Last(m)].key
           o == LP!Without(l, k)
           w == LP!CheckList(l)
           v == LP!CheckList(o)
<1>1. /\ l \in Seq(LP!Node) /\ LP!Good(l) /\ n \in Nat /\ Len(l) = n
      /\ \A i \in 1 .. n : l[i] = Item(m.node[c[i]]) /\ l[i] \in LP!Node
    BY GoodView
<1>2. /\ n > 0 /\ LP!Expired(l[n]) /\ k = l[n].key
      /\ k \in Mapped(m) /\ m.m_map[k] = Last(m)
    BY <1>1, LastNode
<1>3. Data(m, k) = Item(m.node[Last(m)]) /\ clock - Data(m, k).last_use_time > LiveTime
    BY <1>2 DEF Data, Item, LastExpired
<1>4. LP!Contains(l, k)
    BY <1>2, GoodView
<1> HIDE DEF l, k
<1>5. LP!IndexOf(l, k) = n
    <2>1. n \in DOMAIN l
        BY <1>1, <1>2, LenProperties
    <2> QED  BY <1>1, <1>2, <2>1, LP!IndexIs DEF LP!Good
<1>6. /\ o \in Seq(LP!Node) /\ Len(o) = n - 1 /\ LP!Good(o)
      /\ \A i \in 1 .. n - 1 : o[i] = l[i]
    <2>1. /\ o \in Seq(LP!Node) /\ Len(o) = Len(l) - 1
          /\ \A i \in 1 .. Len(l) - 1 : o[i] = IF i < n THEN l[i] ELSE l[i + 1]
        BY <1>1, <1>4, <1>5, LP!WithoutIs
    <2>2. LP!Good(o)
        BY <1>1, <1>4, LP!WithoutKeeps
    <2> QED  BY <1>1, <2>1, <2>2
<1> HIDE DEF o
<1>7. PICK x \in 0 .. Len(l) :
        /\ \A i \in 1 .. Len(l) : i <= x <=> ~LP!Expired(l[i])
        /\ w \in Seq(LP!Node) /\ Len(w) = x
        /\ \A i \in 1 .. x : w[i] = l[i]
    BY <1>1, LP!CheckIs
<1>8. PICK y \in 0 .. Len(o) :
        /\ \A i \in 1 .. Len(o) : i <= y <=> ~LP!Expired(o[i])
        /\ v \in Seq(LP!Node) /\ Len(v) = y
        /\ \A i \in 1 .. y : v[i] = o[i]
    BY <1>6, LP!CheckIs
<1> HIDE DEF w, v
<1>9. \A i \in 1 .. n - 1 : i <= x <=> i <= y
    <2> SUFFICES ASSUME NEW i \in 1 .. n - 1 PROVE i <= x <=> i <= y
        OBVIOUS
    <2>1. i \in 1 .. Len(l) /\ i \in 1 .. Len(o) /\ o[i] = l[i]
        BY <1>1, <1>6
    <2> QED  BY <1>7, <1>8, <2>1
<1>10. x < n
    <2>1. n \in 1 .. Len(l)
        BY <1>1, <1>2
    <2> QED  BY <1>1, <1>2, <1>7, <2>1
<1>11. x = y
    <2>1. x \in 0 .. n - 1 /\ y \in 0 .. n - 1
        BY <1>1, <1>6, <1>10
    <2>2. CASE x < y
        BY <1>9, <2>1, <2>2
    <2>3. CASE y < x
        BY <1>9, <2>1, <2>3
    <2> QED  BY <2>1, <2>2, <2>3
<1>12. w = v
    <2>1. DOMAIN w = 1 .. x /\ DOMAIN v = 1 .. x
        BY <1>7, <1>8, <1>11, LenProperties
    <2>2. w = [i \in 1 .. x |-> w[i]] /\ v = [i \in 1 .. x |-> v[i]]
        BY <1>7, <1>8, <2>1
    <2>3. \A i \in 1 .. x : w[i] = v[i]
        <3>1. \A i \in 1 .. x : i \in 1 .. n - 1
            BY <1>1, <1>10
        <3> QED  BY <1>6, <1>7, <1>8, <1>11, <3>1
    <2> QED  BY <2>2, <2>3
<1> QED  BY <1>2, <1>3, <1>12 DEF l, k, w, v, o

LEMMA WholeThen ==
    ASSUME NEW c, NEW n, Whole(mem', c, n), clock' = clock
    PROVE  Whole(mem, c, n)'
BY DEF Whole, LP!Good, LP!Past

-----------------------------------------------------------------------------
(***************************************************************************)
(* The list that the pointers implement.                                   *)
(***************************************************************************)

\* What List has as its list.
AtList == IF Idle THEN nodes ELSE ListOf!CheckList(nodes)

\* The three instances of LRUCache say the same of a list.
LEMMA SameOperators ==
    ASSUME NEW l, NEW k, NEW v
    PROVE  /\ ListOf!CheckList(l) = LP!CheckList(l)
           /\ List!Contains(l, k) = LP!Contains(l, k)
           /\ List!ValueOf(l, k) = LP!ValueOf(l, k)
           /\ List!AfterGet(l, k) = LP!AfterGet(l, k)
           /\ List!AfterPut(l, k, v) = LP!AfterPut(l, k, v)
           /\ List!AfterRemove(l, k) = LP!AfterRemove(l, k)
BY DEF ListOf!CheckList, ListOf!Expired, LP!CheckList, LP!Expired, List!CheckList,
       List!Expired, List!Contains, LP!Contains, List!ValueOf, LP!ValueOf,
       List!IndexOf, LP!IndexOf, List!AfterGet, LP!AfterGet, List!AfterPut,
       LP!AfterPut, List!AfterRemove, LP!AfterRemove, List!Insert, LP!Insert,
       List!Without, LP!Without

LEMMA ListGet ==
    ASSUME NEW k \in Keys, AtList' = LP!AfterGet(AtList, k), clock' = clock,
           Answer' = IF LP!Contains(AtList, k) THEN LP!ValueOf(AtList', k) ELSE NULL
    PROVE  List!Next
<1>1. List!get(k)
    BY SameOperators DEF List!get, AtList
<1> QED  BY <1>1 DEF List!Next

LEMMA ListPut ==
    ASSUME NEW k \in Keys, NEW c \in Conns, AtList' = LP!AfterPut(AtList, k, c),
           clock' = clock, Answer' = Answer
    PROVE  List!Next
<1>1. List!put(k, c)
    BY SameOperators DEF List!put, AtList
<1> QED  BY <1>1 DEF List!Next

LEMMA ListRemove ==
    ASSUME NEW k \in Keys, AtList' = LP!AfterRemove(AtList, k),
           clock' = clock, Answer' = Answer
    PROVE  List!Next
<1>1. List!remove(k)
    BY SameOperators DEF List!remove, AtList
<1> QED  BY <1>1 DEF List!Next

LEMMA ListTick ==
    ASSUME AtList' = AtList, clock < MaxClock, clock' = clock + 1, Answer' = Answer
    PROVE  List!Next
<1>1. List!Tick
    BY DEF List!Tick, AtList
<1> QED  BY <1>1 DEF List!Next

LEMMA ListStutters ==
    ASSUME AtList' = AtList, clock' = clock, Answer' = Answer
    PROVE  UNCHANGED List!vars
BY DEF List!vars, AtList

\* The list after a step that leaves the clock.
LEMMA ListThen ==
    ASSUME NEW l, nodes' = l, clock' = clock
    PROVE  /\ Idle' => AtList' = l
           /\ ~Idle' => AtList' = LP!CheckList(l)
BY DEF AtList, ListOf!CheckList, ListOf!Expired, LP!CheckList, LP!Expired

\* The node that get moved to the front is there after checkList.
LEMMA FrontValue ==
    ASSUME NEW l, LP!Good(l), NEW k \in Keys, NEW v \in Conns, ~LP!Contains(l, k),
           clock \in 0 .. MaxClock
    PROVE  LP!ValueOf(LP!CheckList(LP!Insert(l, k, v)), k) = v
<1> DEFINE i == LP!Insert(l, k, v)
           w == LP!CheckList(i)
<1>1. /\ LP!Good(i) /\ Len(i) = Len(l) + 1 /\ Len(l) \in Nat
      /\ i[1] = [key |-> k, value |-> v, last_use_time |-> clock]
    BY LP!InsertAdds, LP!InsertIs, LenProperties DEF LP!Good
<1>2. ~LP!Expired(i[1])
    BY <1>1 DEF LP!Expired
<1> HIDE DEF i
<1>3. PICK x \in 0 .. Len(i) :
        /\ \A j \in 1 .. Len(i) : j <= x <=> ~LP!Expired(i[j])
        /\ w \in Seq(LP!Node) /\ Len(w) = x
        /\ \A j \in 1 .. x : w[j] = i[j]
    BY <1>1, LP!CheckIs
<1>4. LP!Good(w)
    BY <1>1, LP!CheckKeepsFresh
<1> HIDE DEF w
<1>5. 1 \in 1 .. x /\ w[1] = i[1]
    BY <1>1, <1>2, <1>3
<1>6. LP!IndexOf(w, w[1].key) = 1
    <2>1. 1 \in DOMAIN w
        BY <1>3, <1>5, LenProperties
    <2> QED  BY <1>4, <2>1, LP!IndexIs DEF LP!Good
<1> QED  BY <1>1, <1>5, <1>6 DEF LP!ValueOf, w, i

-----------------------------------------------------------------------------
(***************************************************************************)
(* The steps.                                                              *)
(***************************************************************************)

\* The key that get has found has the present time, so that checkList keeps it.
Inv ==
    /\ clock \in 0 .. MaxClock
    /\ result \in Conns \union {NULL}
    /\ call \in [op : {"none", "put", "miss"}, key : {NULL}] \union [op : {"hit"}, key : Keys]
    /\ call.op = "hit" => /\ call.key \in Mapped(mem)
                          /\ Data(mem, call.key).last_use_time = clock
    /\ \E c, n : Whole(mem, c, n)

\* What a step has to show.
Step == Inv' /\ [List!Next]_(List!vars)

LEMMA AnswerIs ==
    /\ call.op = "hit" => Answer = Data(mem, call.key).value
    /\ call.op = "miss" => Answer = NULL
    /\ call.op \notin {"hit", "miss"} => Answer = result
BY DEF Answer, Data, Item

LEMMA IdleList ==
    ASSUME NEW c, NEW n, Whole(mem, c, n)
    PROVE  /\ nodes = View(mem.node, c, n)
           /\ Idle => AtList = View(mem.node, c, n)
           /\ ~Idle => AtList = LP!CheckList(View(mem.node, c, n))
<1>1. nodes = View(mem.node, c, n)
    BY NodesAre DEF nodes
<1> QED  BY <1>1, SameOperators DEF AtList

LEMMA NodesThen ==
    ASSUME NEW c, NEW n, Whole(mem', c, n)
    PROVE  nodes' = View(mem'.node, c, n)
<1>1. NodesOf(mem') = View(mem'.node, c, n)
    BY NodesAre
<1> QED  BY <1>1 DEF nodes, NodesOf, Mapped

LEMMA HitStep ==
    ASSUME Inv, NEW k \in Mapped(mem), get(k)
    PROVE  Step
<1>1. /\ Idle /\ clock \in 0 .. MaxClock /\ clock' = clock /\ result' = result
      /\ mem' = Touch(mem, mem.m_map[k]) /\ call' = [op |-> "hit", key |-> k]
    BY DEF get, Inv
<1>2. PICK c, n : Whole(mem, c, n)
    BY DEF Inv
<1>3. k \in Keys
    BY <1>2 DEF Whole, IsMemory
<1> DEFINE l == View(mem.node, c, n)
           v == LP!ValueOf(l, k)
           w == LP!Without(l, k)
<1>4. /\ Mapped(mem') = Mapped(mem) /\ v \in Conns
      /\ Data(mem', k) = [key |-> k, value |-> v, last_use_time |-> clock]
      /\ \E e : Whole(mem', e, n) /\ View(mem'.node, e, n) = LP!Insert(w, k, v)
    BY <1>1, <1>2, TouchWhole
<1>5. PICK e : Whole(mem', e, n) /\ View(mem'.node, e, n) = LP!Insert(w, k, v)
    BY <1>4
<1>6. LP!Good(l) /\ LP!Contains(l, k)
    BY <1>2, GoodView
<1>7. LP!Good(w) /\ ~LP!Contains(w, k)
    <2>1. LP!Good(w) /\ LP!Nodes(w) = {i \in LP!Nodes(l) : i.key # k}
        BY <1>6, LP!WithoutKeeps
    <2> HIDE DEF w
    <2> QED  BY <2>1 DEF LP!Contains, LP!Nodes
<1>8. AtList = l
    BY <1>1, <1>2, IdleList
<1>9. AtList' = LP!CheckList(LP!Insert(w, k, v))
    <2>1. nodes' = LP!Insert(w, k, v)
        BY <1>5, NodesThen
    <2>2. ~Idle'
        BY <1>1 DEF Idle, NoCall
    <2> HIDE DEF w, v
    <2> QED  BY <1>1, <2>1, <2>2, ListThen
<1>10. AtList' = LP!AfterGet(AtList, k)
    BY <1>6, <1>8, <1>9 DEF LP!AfterGet
<1>11. Answer' = IF LP!Contains(AtList, k) THEN LP!ValueOf(AtList', k) ELSE NULL
    <2>1. Answer' = v
        <3>1. Answer' = Data(mem', k).value
            BY <1>1 DEF Answer, Data, Item
        <3> QED  BY <1>4, <3>1
    <2>2. LP!ValueOf(AtList', k) = v
        <3> HIDE DEF w, v
        <3> QED  BY <1>1, <1>3, <1>4, <1>7, <1>9, FrontValue
    <2> QED  BY <1>6, <1>8, <2>1, <2>2
<1>12. List!Next
    BY <1>1, <1>3, <1>10, <1>11, ListGet
<1>13. Inv'
    <2>1. Whole(mem, e, n)'
        BY <1>1, <1>5, WholeThen
    <2>2. call'.op = "hit" /\ call'.key = k
        BY <1>1
    <2>3. k \in Mapped(mem') /\ Data(mem', k).last_use_time = clock'
        BY <1>1, <1>4
    <2>4. (call.op = "hit" => /\ call.key \in Mapped(mem)
                              /\ Data(mem, call.key).last_use_time = clock)'
        BY <2>2, <2>3 DEF Mapped, Data, Item
    <2> QED  BY <1>1, <1>3, <2>1, <2>4 DEF Inv
<1> QED  BY <1>12, <1>13 DEF Step

LEMMA MissStep ==
    ASSUME Inv, NEW k \in Keys, k \notin Mapped(mem), get(k)
    PROVE  Step
<1>1. /\ Idle /\ clock \in 0 .. MaxClock /\ clock' = clock /\ result' = result
      /\ mem' = mem /\ call' = [op |-> "miss", key |-> NULL]
    BY DEF get, Inv
<1>2. PICK c, n : Whole(mem, c, n)
    BY DEF Inv
<1> DEFINE l == View(mem.node, c, n)
<1>3. ~LP!Contains(l, k)
    BY <1>2, GoodView
<1>4. AtList = l
    BY <1>1, <1>2, IdleList
<1>5. AtList' = LP!CheckList(l)
    <2>1. nodes' = l
        BY <1>1, <1>2, NodesThen
    <2>2. ~Idle'
        BY <1>1 DEF Idle, NoCall
    <2> HIDE DEF l
    <2> QED  BY <1>1, <2>1, <2>2, ListThen
<1>6. AtList' = LP!AfterGet(AtList, k)
    BY <1>3, <1>4, <1>5 DEF LP!AfterGet
<1>7. Answer' = NULL
    BY <1>1 DEF Answer
<1>8. List!Next
    BY <1>1, <1>3, <1>4, <1>6, <1>7, ListGet
<1>9. Inv'
    <2>1. Whole(mem, c, n)'
        BY <1>1, <1>2, WholeThen
    <2> QED  BY <1>1, <2>1 DEF Inv
<1> QED  BY <1>8, <1>9 DEF Step

\* remove, whether the key is there or not.
LEMMA RemoveLeaves ==
    ASSUME NEW m, NEW c, NEW n, Whole(m, c, n), NEW k
    PROVE  /\ Mapped(remove(m, k)) = Mapped(m) \ {k}
           /\ \E e, x : /\ Whole(remove(m, k), e, x)
                        /\ View(remove(m, k).node, e, x) =
                              LP!AfterRemove(View(m.node, c, n), k)
<1>1. LP!Contains(View(m.node, c, n), k) <=> k \in Mapped(m)
    BY GoodView
<1>2. CASE k \in Mapped(m)
    BY <1>1, <1>2, RemoveWhole DEF LP!AfterRemove
<1>3. CASE k \notin Mapped(m)
    <2>1. remove(m, k) = m
        BY <1>3 DEF remove
    <2>2. View(m.node, c, n) = LP!AfterRemove(View(m.node, c, n), k)
        BY <1>1, <1>3 DEF LP!AfterRemove
    <2> QED  BY <1>3, <2>1, <2>2
<1> QED  BY <1>2, <1>3

LEMMA PutStep ==
    ASSUME Inv, NEW k \in Keys, NEW v \in Conns, put(k, v)
    PROVE  Step
<1> DEFINE r == remove(mem, k)
<1>1. /\ Idle /\ clock \in 0 .. MaxClock /\ clock' = clock /\ result' = result
      /\ mem' = Add(r, k, v) /\ call' = [op |-> "put", key |-> NULL]
    BY DEF put, Inv
<1>2. PICK c, n : Whole(mem, c, n)
    BY DEF Inv
<1> DEFINE l == View(mem.node, c, n)
           w == LP!AfterRemove(l, k)
<1>3. Mapped(r) = Mapped(mem) \ {k}
    BY <1>2, RemoveLeaves
<1>4. PICK e, x : Whole(r, e, x) /\ View(r.node, e, x) = w
    BY <1>2, RemoveLeaves
<1> HIDE DEF r
<1>5. PICK f : /\ Whole(mem', f, x + 1)
               /\ View(mem'.node, f, x + 1) = LP!Insert(w, k, v)
    <2>1. k \in Keys \ Mapped(r)
        BY <1>3
    <2> HIDE DEF w
    <2> QED  BY <1>1, <1>4, <2>1, AddWhole
<1>6. AtList = l
    BY <1>1, <1>2, IdleList
<1>7. AtList' = LP!CheckList(LP!Insert(w, k, v))
    <2>1. nodes' = LP!Insert(w, k, v)
        BY <1>5, NodesThen
    <2>2. ~Idle'
        BY <1>1 DEF Idle, NoCall
    <2> HIDE DEF w
    <2> QED  BY <1>1, <2>1, <2>2, ListThen
<1>8. AtList' = LP!AfterPut(AtList, k, v)
    BY <1>6, <1>7 DEF LP!AfterPut, LP!AfterRemove
<1>9. Answer' = Answer
    <2>1. call.op = "none"
        BY <1>1 DEF Idle, NoCall
    <2> QED  BY <1>1, <2>1 DEF Answer
<1>10. List!Next
    BY <1>1, <1>8, <1>9, ListPut
<1>11. Inv'
    <2>1. Whole(mem, f, x + 1)'
        BY <1>1, <1>5, WholeThen
    <2> QED  BY <1>1, <2>1 DEF Inv
<1> QED  BY <1>10, <1>11 DEF Step

LEMMA TurnStep ==
    ASSUME Inv, checkList
    PROVE  Step
<1> DEFINE k == mem.node[Last(mem)].key
           r == remove(mem, k)
<1>1. /\ ~Idle /\ LastExpired(mem) /\ clock \in 0 .. MaxClock /\ clock' = clock
      /\ result' = result /\ mem' = r /\ call' = call
    BY DEF checkList, Inv
<1>2. PICK c, n : Whole(mem, c, n)
    BY DEF Inv
<1> DEFINE l == View(mem.node, c, n)
<1>3. /\ k \in Mapped(mem) /\ clock - Data(mem, k).last_use_time > LiveTime
      /\ LP!CheckList(LP!Without(l, k)) = LP!CheckList(l)
    BY <1>1, <1>2, CheckTurns
<1> HIDE DEF k
<1>4. /\ Mapped(r) = Mapped(mem) \ {k}
      /\ \A q \in Mapped(mem) \ {k} : Data(r, q) = Data(mem, q)
      /\ \E e : Whole(r, e, n - 1) /\ View(r.node, e, n - 1) = LP!Without(l, k)
    BY <1>2, <1>3, RemoveWhole
<1>5. PICK e : Whole(mem', e, n - 1) /\ View(mem'.node, e, n - 1) = LP!Without(l, k)
    BY <1>1, <1>4
<1>6. AtList = LP!CheckList(l)
    BY <1>1, <1>2, IdleList
<1>7. AtList' = AtList
    <2>1. nodes' = LP!Without(l, k)
        BY <1>5, NodesThen
    <2>2. ~Idle'
        BY <1>1 DEF Idle, NoCall
    <2>3. AtList' = LP!CheckList(LP!Without(l, k))
        <3> HIDE DEF l
        <3> QED  BY <1>1, <2>1, <2>2, ListThen
    <2> QED  BY <1>3, <1>6, <2>3
<1>8. call.op = "hit" => /\ call.key \in Mapped(mem') /\ Data(mem', call.key) = Data(mem, call.key)
                         /\ Data(mem, call.key).last_use_time = clock
    <2> SUFFICES ASSUME call.op = "hit"
                 PROVE  /\ call.key \in Mapped(r) /\ Data(r, call.key) = Data(mem, call.key)
                        /\ Data(mem, call.key).last_use_time = clock
        BY <1>1
    <2>1. call.key \in Mapped(mem) /\ Data(mem, call.key).last_use_time = clock
        BY DEF Inv
    <2>2. call.key # k
        <3>1. ~(clock - clock > LiveTime)
            BY <1>1
        <3> QED  BY <1>3, <2>1, <3>1
    <2> QED  BY <1>4, <2>1, <2>2
<1>9. Answer' = Answer
    <2>1. CASE call.op = "hit"
        <3>1. Answer' = Data(mem', call.key).value
            BY <1>1, <2>1 DEF Answer, Data, Item
        <3> QED  BY <1>8, <2>1, <3>1, AnswerIs
    <2>2. CASE call.op # "hit"
        BY <1>1, <2>2 DEF Answer
    <2> QED  BY <2>1, <2>2
<1>10. UNCHANGED List!vars
    BY <1>1, <1>7, <1>9, ListStutters
<1>11. Inv'
    <2>1. Whole(mem, e, n - 1)'
        BY <1>1, <1>5, WholeThen
    <2>2. (call.op = "hit" => /\ call.key \in Mapped(mem)
                              /\ Data(mem, call.key).last_use_time = clock)'
        BY <1>1, <1>8 DEF Mapped, Data, Item
    <2> HIDE DEF r
    <2> QED  BY <1>1, <2>1, <2>2 DEF Inv
<1> QED  BY <1>10, <1>11 DEF Step

LEMMA ReturnStep ==
    ASSUME Inv, Return
    PROVE  Step
<1>1. /\ ~Idle /\ ~LastExpired(mem) /\ clock \in 0 .. MaxClock /\ clock' = clock
      /\ mem' = mem /\ call' = NoCall /\ result' = Answer
    BY DEF Return, Inv
<1>2. PICK c, n : Whole(mem, c, n)
    BY DEF Inv
<1> DEFINE l == View(mem.node, c, n)
<1>3. AtList = LP!CheckList(l) /\ LP!CheckList(l) = l
    BY <1>1, <1>2, IdleList, CheckEnds
<1>4. AtList' = AtList
    <2>1. nodes' = l
        BY <1>1, <1>2, NodesThen
    <2>2. Idle'
        BY <1>1 DEF Idle, NoCall
    <2>3. AtList' = l
        <3> HIDE DEF l
        <3> QED  BY <1>1, <2>1, <2>2, ListThen
    <2> QED  BY <1>3, <2>3
<1>5. Answer' = Answer
    <2>1. call'.op = "none"
        BY <1>1 DEF NoCall
    <2>2. Answer' = result'
        BY <2>1 DEF Answer
    <2> QED  BY <1>1, <2>2
<1>6. UNCHANGED List!vars
    BY <1>1, <1>4, <1>5, ListStutters
<1>7. Inv'
    <2>1. Whole(mem, c, n)'
        BY <1>1, <1>2, WholeThen
    <2>2. Answer \in Conns \union {NULL}
        <3>1. CASE call.op = "hit"
            <4>1. call.key \in Mapped(mem)
                BY <3>1 DEF Inv
            <4>2. PICK j \in 1 .. n : c[j] = mem.m_map[call.key]
                BY <1>2, <4>1, MappedNode
            <4>3. Item(mem.node[c[j]]) \in LP!Node
                BY <1>2, GoodView
            <4>4. Data(mem, call.key) \in LP!Node
                BY <4>2, <4>3 DEF Data
            <4> QED  BY <3>1, <4>4, AnswerIs DEF LP!Node
        <3>2. CASE call.op # "hit"
            BY <3>2, AnswerIs DEF Inv
        <3> QED  BY <3>1, <3>2
    <2> QED  BY <1>1, <2>1, <2>2 DEF Inv, NoCall
<1> QED  BY <1>6, <1>7 DEF Step

LEMMA RemoveStep ==
    ASSUME Inv, NEW k \in Keys, Remove(k)
    PROVE  Step
<1>1. /\ Idle /\ clock \in 0 .. MaxClock /\ clock' = clock /\ result' = result
      /\ mem' = remove(mem, k) /\ call' = call /\ call.op = "none"
    BY DEF Remove, Inv, Idle, NoCall
<1>2. PICK c, n : Whole(mem, c, n)
    BY DEF Inv
<1> DEFINE l == View(mem.node, c, n)
<1>3. PICK e, x : Whole(mem', e, x) /\ View(mem'.node, e, x) = LP!AfterRemove(l, k)
    BY <1>1, <1>2, RemoveLeaves
<1>4. AtList = l
    BY <1>1, <1>2, IdleList
<1>5. AtList' = LP!AfterRemove(AtList, k)
    <2>1. nodes' = LP!AfterRemove(l, k)
        BY <1>3, NodesThen
    <2>2. Idle'
        BY <1>1 DEF Idle, NoCall
    <2>3. AtList' = LP!AfterRemove(l, k)
        <3> HIDE DEF l
        <3> QED  BY <1>1, <2>1, <2>2, ListThen
    <2> QED  BY <1>4, <2>3
<1>6. Answer' = Answer
    BY <1>1 DEF Answer
<1>7. List!Next
    BY <1>1, <1>5, <1>6, ListRemove
<1>8. Inv'
    <2>1. Whole(mem, e, x)'
        BY <1>1, <1>3, WholeThen
    <2> QED  BY <1>1, <2>1 DEF Inv
<1> QED  BY <1>7, <1>8 DEF Step

LEMMA TickStep ==
    ASSUME Inv, Tick
    PROVE  Step
<1>1. /\ Idle /\ clock \in 0 .. MaxClock /\ clock < MaxClock /\ clock' = clock + 1
      /\ mem' = mem /\ call' = call /\ result' = result /\ call.op = "none"
    BY DEF Tick, Inv, Idle, NoCall
<1>2. PICK c, n : Whole(mem, c, n)
    BY DEF Inv
<1> DEFINE l == View(mem.node, c, n)
<1>3. AtList' = AtList
    BY <1>1 DEF AtList, Idle, NoCall, nodes, NodesOf, Mapped
<1>4. Answer' = Answer
    BY <1>1 DEF Answer
<1>5. List!Next
    BY <1>1, <1>3, <1>4, ListTick
<1>6. Inv'
    <2>1. LP!Good(l)' 
        <3>1. \A i \in DOMAIN l : l[i].last_use_time \in Int
            <4>1. \A i \in DOMAIN l : l[i] \in LP!Node
                BY <1>2, GoodView, LenProperties, ElementOfSeq
            <4> QED  BY <4>1 DEF LP!Node
        <3>2. LP!Good(l) /\ l' = l
            BY <1>1, <1>2, GoodView
        <3> HIDE DEF l
        <3> QED  BY <1>1, <3>1, <3>2 DEF LP!Good, LP!Past
    <2>2. Whole(mem, c, n)'
        BY <1>1, <1>2, <2>1 DEF Whole
    <2> QED  BY <1>1, <2>2 DEF Inv
<1> QED  BY <1>5, <1>6 DEF Step

LEMMA NextStep == Inv /\ [Next]_vars => Step
<1> SUFFICES ASSUME Inv, [Next]_vars PROVE Step
    OBVIOUS
<1>1. CASE UNCHANGED vars
    <2>1. mem' = mem /\ clock' = clock /\ call' = call /\ result' = result
        BY <1>1 DEF vars
    <2>2. Inv'
        <3>1. PICK c, n : Whole(mem, c, n)
            BY DEF Inv
        <3>2. Whole(mem, c, n)'
            BY <2>1, <3>1, WholeThen
        <3> QED  BY <2>1, <3>2 DEF Inv, Mapped, Data
    <2>3. AtList' = AtList /\ Answer' = Answer
        BY <2>1 DEF AtList, Idle, Answer, nodes, NodesOf, Mapped, ListOf!CheckList,
                    ListOf!Expired
    <2> QED  BY <2>1, <2>2, <2>3, ListStutters DEF Step
<1>2. CASE Next
    <2>1. ASSUME NEW k \in Keys, get(k) PROVE Step
        BY <2>1, HitStep, MissStep
    <2> QED  BY <1>2, <2>1, PutStep, TurnStep, ReturnStep, RemoveStep, TickStep DEF Next
<1> QED  BY <1>1, <1>2

\* The chain at first: the two sentinels.
LEMMA InitList == Init => Inv /\ List!Init
<1> SUFFICES ASSUME Init PROVE Inv /\ List!Init
    OBVIOUS
<1> DEFINE c == [i \in 0 .. 1 |-> IF i = 0 THEN m_head ELSE m_tail]
<1>1. /\ clock = 0 /\ call = NoCall /\ result = NULL /\ Mapped(mem) = {}
      /\ mem.m_map = [k \in {} |-> NULL] /\ Allocated(mem) = {m_head, m_tail}
      /\ DOMAIN mem.node = {m_head, m_tail}
    BY DEF Init, Mapped, Allocated
<1>2. /\ mem.node \in [{m_head, m_tail} -> HeapNode]
      /\ mem.node[m_head].next = m_tail /\ mem.node[m_tail].pre = m_head
    BY DEF Init, Node, HeapNode, Pointers, m_head, m_tail
<1>3. IsMemory(mem)
    BY <1>1, <1>2 DEF IsMemory
<1>4. Linked(mem.node, c, 0)
    <2>1. c \in [0 .. 0 + 1 -> {m_head, m_tail}] /\ c[0] = m_head /\ c[0 + 1] = m_tail
        OBVIOUS
    <2>2. \A i, j \in 0 .. 0 + 1 : c[i] = c[j] => i = j
        BY DEF m_head, m_tail
    <2>3. \A i \in 0 .. 0 : i = 0
        OBVIOUS
    <2> HIDE DEF c
    <2> QED  BY <1>1, <1>2, <2>1, <2>2, <2>3 DEF Linked
<1>5. Owned(mem, c, 0)
    <2>1. Covers(c, 0, {m_head, m_tail})
        <3>1. 0 \in 0 .. 0 + 1 /\ 1 \in 0 .. 0 + 1 /\ c[0] = m_head /\ c[1] = m_tail
            OBVIOUS
        <3> QED  BY <3>1 DEF Covers
    <2> QED  BY <1>1, <2>1 DEF Owned
<1> HIDE DEF c
<1>6. View(mem.node, c, 0) = <<>> /\ <<>> \in Seq(LP!Node)
    BY DEF View
<1>7. LP!Good(View(mem.node, c, 0))
    <2>1. DOMAIN View(mem.node, c, 0) = {}
        BY DEF View
    <2> QED  BY <1>6, <2>1 DEF LP!Good, LP!OneKey, LP!Ordered, LP!Past
<1>8. Whole(mem, c, 0)
    BY <1>3, <1>4, <1>5, <1>7 DEF Whole
<1>9. Inv
    BY <1>1, <1>8, LRUAssumption DEF Inv, NoCall
<1>10. AtList = <<>> /\ Answer = NULL
    <2>1. AtList = <<>>
        BY <1>1, <1>6, <1>8, IdleList DEF Idle
    <2>2. call.op = "none"
        BY <1>1 DEF NoCall
    <2> QED  BY <1>1, <2>1, <2>2, AnswerIs
<1>11. List!Init
    BY <1>1, <1>10 DEF List!Init, AtList
<1> QED  BY <1>9, <1>11

LEMMA InvAlways == Spec => []Inv
<1>1. Step => Inv'
    BY DEF Step
<1> QED  BY <1>1, InitList, NextStep, PTL DEF Spec

-----------------------------------------------------------------------------
(***************************************************************************)
(* The theorems.                                                           *)
(***************************************************************************)

\* The nodes that next leads to have keys, connections and times, whatever is asked
\* of the cache, and a get in checkList has a key.
THEOREM PointersTypeCorrect == Spec => []TypeOK
<1>1. ASSUME Inv PROVE TypeOK
    <2>1. PICK c, n : Whole(mem, c, n)
        BY <1>1 DEF Inv
    <2>2. nodes \in Seq(LP!Node)
        BY <2>1, IdleList, GoodView
    <2> QED  BY <1>1, <2>2 DEF Inv, TypeOK, ListOf!TypeOK, ListOf!Node, LP!Node
<1> QED  BY <1>1, InvAlways, PTL

\* No pointer of an allocated node leads to a deleted one, and the way back from where
\* it leads is the way it came: del and insert move all four pointers they have to.
THEOREM PointersMatch == Spec => []LinksMatch
<1>1. ASSUME Inv PROVE LinksMatch
    <2>1. PICK c, n : Whole(mem, c, n)
        BY <1>1 DEF Inv
    <2>2. /\ Linked(mem.node, c, n) /\ Covers(c, n, Allocated(mem)) /\ n \in Nat
          /\ \A i \in 0 .. n + 1 : c[i] \in Allocated(mem)
          /\ c[0] = m_head /\ c[n + 1] = m_tail
          /\ \A i \in 0 .. n : mem.node[c[i]].next = c[i + 1] /\ mem.node[c[i + 1]].pre = c[i]
        BY <2>1 DEF Whole, Owned, Linked, Allocated
    <2>3. ASSUME NEW p \in Allocated(mem), p # m_tail
          PROVE  /\ mem.node[p].next \in Allocated(mem)
                 /\ mem.node[mem.node[p].next].pre = p
        <3>1. PICK i \in 0 .. n + 1 : c[i] = p
            BY <2>2 DEF Covers
        <3>2. i \in 0 .. n /\ i + 1 \in 0 .. n + 1
            BY <2>2, <2>3, <3>1
        <3> QED  BY <2>2, <3>1, <3>2
    <2>4. ASSUME NEW p \in Allocated(mem), p # m_head
          PROVE  /\ mem.node[p].pre \in Allocated(mem)
                 /\ mem.node[mem.node[p].pre].next = p
        <3>1. PICK i \in 0 .. n + 1 : c[i] = p
            BY <2>2 DEF Covers
        <3>2. i - 1 \in 0 .. n /\ i - 1 \in 0 .. n + 1 /\ (i - 1) + 1 = i
            BY <2>2, <2>4, <3>1
        <3>3. mem.node[p].pre = c[i - 1]
            BY <2>2, <3>1, <3>2
        <3> QED  BY <2>2, <3>1, <3>2, <3>3
    <2> QED  BY <2>3, <2>4 DEF LinksMatch
<1> QED  BY <1>1, InvAlways, PTL

\* The heap has the nodes of the map and the sentinels and no other, each under its
\* key: put over a present key, remove and checkList neither leak a node nor leave an
\* entry for a deleted one.
THEOREM NothingLeaks == Spec => []MapOwnsHeap
<1>1. ASSUME Inv PROVE MapOwnsHeap
    <2>1. PICK c, n : Whole(mem, c, n)
        BY <1>1 DEF Inv
    <2>2. /\ Covers(c, n, Allocated(mem)) /\ n \in Nat
          /\ \A i \in 0 .. n + 1 : c[i] \in Allocated(mem)
          /\ c[0] = m_head /\ c[n + 1] = m_tail
        BY <2>1 DEF Whole, Owned, Linked, Allocated
    <2>3. /\ \A i \in 1 .. n : /\ mem.node[c[i]].key \in Mapped(mem)
                               /\ mem.m_map[mem.node[c[i]].key] = c[i]
          /\ \A k \in Mapped(mem) : \E i \in 1 .. n :
                c[i] = mem.m_map[k] /\ mem.node[c[i]].key = k
        BY <2>1 DEF Whole, Owned
    <2>4. ASSUME NEW p \in Allocated(mem), p # m_head, p # m_tail
          PROVE  \E k \in Mapped(mem) : mem.m_map[k] = p
        <3>1. PICK i \in 0 .. n + 1 : c[i] = p
            BY <2>2 DEF Covers
        <3>2. i \in 1 .. n
            BY <2>2, <2>4, <3>1
        <3> QED  BY <2>3, <3>1, <3>2
    <2>5. ASSUME NEW k \in Mapped(mem)
          PROVE  mem.m_map[k] \in Allocated(mem) /\ mem.node[mem.m_map[k]].key = k
        <3>1. PICK i \in 1 .. n : c[i] = mem.m_map[k] /\ mem.node[c[i]].key = k
            BY <2>3
        <3>2. i \in 0 .. n + 1
            BY <2>2
        <3> QED  BY <2>2, <3>1, <3>2
    <2>6. m_head \in Allocated(mem) /\ m_tail \in Allocated(mem)
        <3>1. 0 \in 0 .. n + 1 /\ n + 1 \in 0 .. n + 1
            BY <2>2
        <3> QED  BY <2>2, <3>1
    <2>7. Range(mem.m_map) = {mem.m_map[k] : k \in Mapped(mem)}
        BY DEF Range, Mapped
    <2>8. Allocated(mem) = {m_head, m_tail} \union Range(mem.m_map)
        <3> HIDE DEF m_head, m_tail
        <3> QED  BY <2>4, <2>5, <2>6, <2>7
    <2> QED  BY <2>5, <2>8 DEF MapOwnsHeap
<1> QED  BY <1>1, InvAlways, PTL

\* The way that next leads is in the order of the last requests, also while checkList
\* removes nodes.
THEOREM PointersOrderedByUse == Spec => []OrderedByUse
<1>1. ASSUME Inv PROVE OrderedByUse
    <2>1. PICK c, n : Whole(mem, c, n)
        BY <1>1 DEF Inv
    <2>2. LP!Good(nodes)
        BY <2>1, IdleList, GoodView
    <2> QED  BY <2>2 DEF OrderedByUse, ListOf!OrderedByUse, LP!Good, LP!Ordered
<1> QED  BY <1>1, InvAlways, PTL

\* The pointers implement the list: get, put and remove leave the nodes that LRUCache
\* leaves, in the same order, get returns the same connection, and the turns of
\* checkList are not seen.
THEOREM PointersImplementList == Spec => ListSpec
<1>1. Step => [List!Next]_(List!vars)
    BY DEF Step
<1> QED  BY <1>1, InitList, NextStep, InvAlways, PTL DEF Spec, ListSpec, List!Spec

-----------------------------------------------------------------------------
(***************************************************************************)
(* The map of the users.                                                   *)
(***************************************************************************)

\* What m_map leads to, whoever is online.
AllValue == [k \in Mapped(mem) |-> mem.node[mem.m_map[k]].value]
AllUse   == [k \in Mapped(mem) |-> mem.node[mem.m_map[k]].last_use_time]

\* What Users has as its map.
TheirValue == [k \in Online |-> mem.node[mem.m_map[k]].value]
TheirUse   == [k \in Online |-> mem.node[mem.m_map[k]].last_use_time]

LEMMA NodesSay ==
    ASSUME NEW c, NEW n, Whole(mem, c, n)
    PROVE  LP!Says(View(mem.node, c, n), AllValue, AllUse)
<1> DEFINE l == View(mem.node, c, n)
<1>1. /\ LP!Good(l) /\ l \in Seq(LP!Node) /\ Len(l) = n /\ n \in Nat
      /\ \A i \in 1 .. n : l[i] = Item(mem.node[c[i]])
      /\ \A k : LP!Contains(l, k) <=> k \in Mapped(mem)
    BY GoodView
<1>2. \A i \in 1 .. n : /\ mem.node[c[i]].key \in Mapped(mem)
                        /\ mem.m_map[mem.node[c[i]].key] = c[i]
    BY DEF Whole, Owned
<1> HIDE DEF l
<1>3. DOMAIN l = 1 .. n
    BY <1>1, LenProperties
<1>4. LP!KeysIn(l) = Mapped(mem)
    BY <1>1, LP!ContainsKey
<1>5. ASSUME NEW i \in 1 .. n
      PROVE  AllValue[l[i].key] = l[i].value /\ AllUse[l[i].key] = l[i].last_use_time
    BY <1>1, <1>2 DEF AllValue, AllUse, Item
<1>6. \A x \in LP!Nodes(l) : AllValue[x.key] = x.value /\ AllUse[x.key] = x.last_use_time
    BY <1>3, <1>5 DEF LP!Nodes
<1> QED  BY <1>4, <1>6 DEF LP!Says, AllValue, AllUse, l

\* The map that LRUCache makes of the list is the map of m_map.
SameMap == TheirValue = LP!Value(AtList) /\ TheirUse = LP!LastUse(AtList)

LEMMA MapIsList == ASSUME Inv PROVE SameMap
<1>1. PICK c, n : Whole(mem, c, n)
    BY DEF Inv
<1> DEFINE l == View(mem.node, c, n)
<1>2. LP!Good(l) /\ LP!Says(l, AllValue, AllUse) /\ LP!OneKey(l) /\ clock \in 0 .. MaxClock
    BY <1>1, GoodView, NodesSay DEF Inv, LP!Good
<1>3. CASE Idle
    <2>1. TheirValue = AllValue /\ TheirUse = AllUse
        BY <1>3 DEF TheirValue, TheirUse, AllValue, AllUse, Online
    <2>2. AtList = l
        BY <1>1, <1>3, IdleList
    <2> HIDE DEF l
    <2> QED  BY <1>2, <2>1, <2>2, LP!SaysOnlyOne DEF SameMap
<1>4. CASE ~Idle
    <2>1. Online = LP!Users!Fresh(AllUse)
        BY <1>4 DEF Online, AllUse, LP!Users!Fresh
    <2>2. Online \subseteq Mapped(mem)
        BY DEF Online
    <2>3. /\ TheirValue = LP!Users!Restrict(AllValue, LP!Users!Fresh(AllUse))
          /\ TheirUse = LP!Users!Restrict(AllUse, LP!Users!Fresh(AllUse))
        BY <2>1, <2>2 DEF TheirValue, TheirUse, AllValue, AllUse, LP!Users!Restrict
    <2>4. AtList = LP!CheckList(l)
        BY <1>1, <1>4, IdleList
    <2> HIDE DEF l
    <2> QED  BY <1>2, <2>3, <2>4, LP!CheckSays DEF SameMap
<1> QED  BY <1>3, <1>4

\* What LRUCache, of AtList, gives to its instance of OnlineUsers.
ListValue == [k \in LQ!KeysIn(AtList) |-> LQ!ValueOf(AtList, k)]
ListUse   == [k \in LQ!KeysIn(AtList) |-> AtList[LQ!IndexOf(AtList, k)].last_use_time]

LEMMA ListMap == ASSUME SameMap PROVE ListValue = TheirValue /\ ListUse = TheirUse
BY DEF SameMap, ListValue, ListUse, LP!Value, LP!LastUse, LQ!KeysIn, LP!KeysIn,
       LQ!ValueOf, LP!ValueOf, LQ!IndexOf, LP!IndexOf

\* The two instances of OnlineUsers say the same, for they have the same map.
Same == ListValue = TheirValue /\ ListUse = TheirUse

LEMMA SameInit == Same /\ LQ!Users!Init => Users!Init
BY DEF LQ!Users!Init, Users!Init, TheirValue, TheirUse, ListValue, ListUse, AtList, Same

\* What Keep leaves of v.
Kept(v, u) == [k \in {j \in DOMAIN u : clock - u[j] <= LiveTime} |-> v[k]]

LEMMA SameHit == ASSUME Same, Same', NEW k, LQ!Users!Hit(k) PROVE Users!Hit(k)
<1>1. /\ k \in DOMAIN ListValue /\ Answer' = ListValue[k] /\ clock' = clock
      /\ ListValue' = Kept(ListValue, [ListUse EXCEPT ![k] = clock])
      /\ ListUse' = Kept([ListUse EXCEPT ![k] = clock], [ListUse EXCEPT ![k] = clock])
    BY DEF LQ!Users!Hit, LQ!Users!Online, LQ!Users!Keep, LQ!Users!Restrict,
           LQ!Users!Fresh, Kept, ListValue, ListUse, AtList
<1>2. /\ k \in DOMAIN TheirValue /\ Answer' = TheirValue[k] /\ clock' = clock
      /\ TheirValue' = Kept(TheirValue, [TheirUse EXCEPT ![k] = clock])
      /\ TheirUse' = Kept([TheirUse EXCEPT ![k] = clock], [TheirUse EXCEPT ![k] = clock])
    BY <1>1 DEF Same
<1> QED  BY <1>2 DEF Users!Hit, Users!Online, Users!Keep, Users!Restrict, Users!Fresh,
                     Kept, TheirValue, TheirUse

LEMMA SameMiss == ASSUME Same, Same', NEW k, LQ!Users!Miss(k) PROVE Users!Miss(k)
<1>1. /\ k \notin DOMAIN ListValue /\ Answer' = NULL /\ clock' = clock
      /\ ListValue' = Kept(ListValue, ListUse) /\ ListUse' = Kept(ListUse, ListUse)
    BY DEF LQ!Users!Miss, LQ!Users!Online, LQ!Users!Keep, LQ!Users!Restrict,
           LQ!Users!Fresh, Kept, ListValue, ListUse, AtList
<1>2. /\ k \notin DOMAIN TheirValue /\ Answer' = NULL /\ clock' = clock
      /\ TheirValue' = Kept(TheirValue, TheirUse) /\ TheirUse' = Kept(TheirUse, TheirUse)
    BY <1>1 DEF Same
<1> QED  BY <1>2 DEF Users!Miss, Users!Online, Users!Keep, Users!Restrict, Users!Fresh,
                     Kept, TheirValue, TheirUse

\* The map f of S, with x for k.
With(S, f, k, x) == [j \in S \union {k} |-> IF j = k THEN x ELSE f[j]]

LEMMA SamePut == ASSUME Same, Same', NEW k, NEW c, LQ!Users!Put(k, c) PROVE Users!Put(k, c)
<1> DEFINE LV == With(DOMAIN ListValue, ListValue, k, c)
           LU == With(DOMAIN ListValue, ListUse, k, clock)
           TV == With(DOMAIN TheirValue, TheirValue, k, c)
           TU == With(DOMAIN TheirValue, TheirUse, k, clock)
<1>1. /\ ListValue' = Kept(LV, LU) /\ ListUse' = Kept(LU, LU)
      /\ clock' = clock /\ Answer' = Answer
    BY DEF LQ!Users!Put, LQ!Users!Online, LQ!Users!Keep, LQ!Users!Restrict,
           LQ!Users!Fresh, Kept, With, ListValue, ListUse, AtList
<1>2. /\ TheirValue' = Kept(TV, TU) /\ TheirUse' = Kept(TU, TU)
    BY <1>1 DEF Same
<1> QED  BY <1>1, <1>2 DEF Users!Put, Users!Online, Users!Keep, Users!Restrict,
                           Users!Fresh, Kept, With, TheirValue, TheirUse

LEMMA SameRemove == ASSUME Same, Same', NEW k, LQ!Users!Remove(k) PROVE Users!Remove(k)
<1>1. /\ ListValue' = Restrict(ListValue, DOMAIN ListValue \ {k})
      /\ ListUse' = Restrict(ListUse, DOMAIN ListValue \ {k})
      /\ clock' = clock /\ Answer' = Answer
    BY DEF LQ!Users!Remove, LQ!Users!Online, LQ!Users!Restrict, Restrict, ListValue,
           ListUse, AtList
<1>2. /\ TheirValue' = Restrict(TheirValue, DOMAIN TheirValue \ {k})
      /\ TheirUse' = Restrict(TheirUse, DOMAIN TheirValue \ {k})
    BY <1>1 DEF Same
<1> QED  BY <1>1, <1>2 DEF Users!Remove, Users!Online, Users!Restrict, Restrict,
                           TheirValue, TheirUse

LEMMA SameTick == ASSUME Same, Same', LQ!Users!Tick PROVE Users!Tick
<1>1. /\ ListValue' = ListValue /\ ListUse' = ListUse /\ clock < MaxClock
      /\ clock' = clock + 1 /\ Answer' = Answer
    BY DEF LQ!Users!Tick, ListValue, ListUse, AtList
<1>2. TheirValue' = TheirValue /\ TheirUse' = TheirUse
    BY <1>1 DEF Same
<1> QED  BY <1>1, <1>2 DEF Users!Tick, TheirValue, TheirUse

LEMMA SameStep ==
    Same /\ Same' /\ [LQ!Users!Next]_(LQ!Users!vars) => [Users!Next]_(Users!vars)
<1>1. CASE LQ!Users!Next
    BY <1>1, SameHit, SameMiss, SamePut, SameRemove, SameTick
       DEF LQ!Users!Next, Users!Next
<1>2. ASSUME Same, Same', UNCHANGED LQ!Users!vars PROVE UNCHANGED Users!vars
    <2>1. /\ ListValue' = ListValue /\ ListUse' = ListUse /\ clock' = clock
          /\ Answer' = Answer
        BY <1>2 DEF LQ!Users!vars, ListValue, ListUse, AtList
    <2>2. TheirValue' = TheirValue /\ TheirUse' = TheirUse
        BY <1>2, <2>1 DEF Same
    <2> QED  BY <2>1, <2>2 DEF Users!vars, TheirValue, TheirUse
<1> QED  BY <1>1, <1>2

\* List is LQ.
LEMMA ListIs ==
    /\ List!Init => LQ!Init
    /\ [List!Next]_(List!vars) => [LQ!Next]_(LQ!vars)
<1>1. List!Init => LQ!Init
    BY DEF List!Init, LQ!Init
<1>2. [List!Next]_(List!vars) => [LQ!Next]_(LQ!vars)
    BY DEF List!Next, LQ!Next, List!vars, LQ!vars, List!get, LQ!get, List!put, LQ!put,
           List!remove, LQ!remove, List!Tick, LQ!Tick, List!AfterGet, LQ!AfterGet,
           List!AfterPut, LQ!AfterPut, List!AfterRemove, LQ!AfterRemove,
           List!CheckList, LQ!CheckList, List!Expired, LQ!Expired, List!Contains,
           LQ!Contains, List!ValueOf, LQ!ValueOf, List!IndexOf, LQ!IndexOf, List!Insert,
           LQ!Insert, List!Without, LQ!Without
<1> QED  BY <1>1, <1>2

\* m_map and the nodes it leads to are the map with expiry: what LRUCache's list is, and
\* the pointers implement that list.
THEOREM PointersImplementUsers == Spec => UsersSpec
<1>1. Inv => Same
    BY MapIsList, ListMap DEF Same
<1>2. Step => [List!Next]_(List!vars)
    BY DEF Step
<1>3. Spec => LQ!Spec
    BY <1>2, InitList, NextStep, InvAlways, ListIs, PTL DEF Spec, LQ!Spec
<1>4. LQ!Spec => LQ!UsersSpec
    BY LQ!CacheImplementsUsers
<1> QED
    BY <1>1, <1>3, <1>4, InvAlways, SameInit, SameStep, PTL
       DEF LQ!UsersSpec, LQ!Users!Spec, UsersSpec, Users!Spec
=============================================================================
