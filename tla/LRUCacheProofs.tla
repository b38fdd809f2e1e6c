--------------------------- MODULE LRUCacheProofs ---------------------------
(***************************************************************************)
(* The list of LRUCache is the map with expiry of OnlineUsers, for all     *)
(* accounts, connections and times.                                        *)
(***************************************************************************)
EXTENDS LRUCache, SequenceTheorems, FiniteSetTheorems, TLAPS

USE LRUAssumption

-----------------------------------------------------------------------------
(***************************************************************************)
(* The lists that the cache has.                                           *)
(***************************************************************************)

OneKey(l) == \A i, j \in DOMAIN l : l[i].key = l[j].key => i = j

\* The times do not rise from front to tail, and none is in the future.
Ordered(l) ==
    \A i, j \in DOMAIN l : i < j => l[i].last_use_time >= l[j].last_use_time
Past(l) == \A i \in DOMAIN l : l[i].last_use_time <= clock

Good(l) == l \in Seq(Node) /\ OneKey(l) /\ Ordered(l) /\ Past(l)

Nodes(l) == {l[i] : i \in DOMAIN l}

Inv ==
    /\ Good(list)
    /\ clock \in 0 .. MaxClock
    /\ result \in Conns \union {NULL}

-----------------------------------------------------------------------------
(***************************************************************************)
(* What the operations leave of the nodes.                                 *)
(***************************************************************************)

LEMMA IndexIs ==
    ASSUME NEW l, OneKey(l), NEW i \in DOMAIN l
    PROVE  IndexOf(l, l[i].key) = i
BY DEF IndexOf, OneKey

\* The nodes of k's map entries, for a key that is there.
LEMMA IndexType ==
    ASSUME NEW l, NEW k, Contains(l, k)
    PROVE  IndexOf(l, k) \in DOMAIN l /\ l[IndexOf(l, k)].key = k
BY DEF IndexOf, Contains

\* A part of a list that keeps its order has what the list has.
LEMMA PartIsGood ==
    ASSUME NEW l, Good(l), NEW m \in Seq(Node), NEW at \in [1 .. Len(m) -> 1 .. Len(l)],
           \A i \in 1 .. Len(m) : m[i] = l[at[i]],
           \A i, j \in 1 .. Len(m) : i < j => at[i] < at[j]
    PROVE  Good(m)
<1>1. DOMAIN m = 1 .. Len(m) /\ DOMAIN l = 1 .. Len(l) /\ Len(m) \in Nat /\ Len(l) \in Nat
    BY LenProperties DEF Good
<1>2. OneKey(m)
    <2> SUFFICES ASSUME NEW i \in 1 .. Len(m), NEW j \in 1 .. Len(m), m[i].key = m[j].key
                 PROVE  i = j
        BY <1>1 DEF OneKey
    <2>1. at[i] = at[j]
        BY <1>1 DEF Good, OneKey
    <2>2. at[i] \in Nat /\ at[j] \in Nat
        BY <1>1
    <2> QED  BY <1>1, <2>1, <2>2
<1>3. Ordered(m)
    BY <1>1 DEF Ordered, Good
<1>4. Past(m)
    BY <1>1 DEF Past, Good
<1> QED  BY <1>2, <1>3, <1>4 DEF Good

\* del closes the gap that the node leaves.
LEMMA WithoutIs ==
    ASSUME NEW l, Good(l), NEW k, Contains(l, k)
    PROVE  /\ IndexOf(l, k) \in 1 .. Len(l) /\ l[IndexOf(l, k)].key = k
           /\ Without(l, k) \in Seq(Node) /\ Len(Without(l, k)) = Len(l) - 1
           /\ \A i \in 1 .. Len(l) - 1 :
                 Without(l, k)[i] = IF i < IndexOf(l, k) THEN l[i] ELSE l[i + 1]
<1> DEFINE x == IndexOf(l, k)
           a == SubSeq(l, 1, x - 1)
           b == SubSeq(l, x + 1, Len(l))
           m == a \o b
<1>1. DOMAIN l = 1 .. Len(l) /\ Len(l) \in Nat /\ \A i \in 1 .. Len(l) : l[i] \in Node
    BY LenProperties, ElementOfSeq DEF Good
<1>2. x \in 1 .. Len(l) /\ l[x].key = k
    BY <1>1, IndexType
<1> HIDE DEF x
<1>3. /\ a \in Seq(Node) /\ Len(a) = x - 1
      /\ \A i \in 1 .. x - 1 : a[i] = l[i]
    BY <1>1, <1>2, SubSeqProperties
<1>4. /\ b \in Seq(Node) /\ Len(b) = Len(l) - x
      /\ \A i \in 1 .. Len(l) - x : b[i] = l[x + i]
    <2>1. /\ b \in Seq(Node)
          /\ Len(b) = IF x + 1 <= Len(l) THEN Len(l) - (x + 1) + 1 ELSE 0
          /\ \A i \in 1 .. Len(l) - (x + 1) + 1 : b[i] = l[(x + 1) + i - 1]
        BY <1>1, <1>2, SubSeqProperties
    <2> HIDE DEF b
    <2> HIDE DEF a, m
    <2>2. Len(b) = Len(l) - x /\ Len(l) - (x + 1) + 1 = Len(l) - x
        <3>1. Len(l) \in Nat /\ x \in Nat /\ x <= Len(l)
            BY <1>1, <1>2
        <3> QED  BY <2>1, <3>1
    <2>3. ASSUME NEW i \in 1 .. Len(l) - x PROVE b[i] = l[x + i]
        <3>1. (x + 1) + i - 1 = x + i
            BY <1>1, <1>2
        <3> QED  BY <2>1, <2>2, <3>1
    <2> QED  BY <2>1, <2>2, <2>3
<1> HIDE DEF a, b
<1>5. /\ m \in Seq(Node) /\ Len(m) = Len(l) - 1
      /\ \A i \in 1 .. Len(l) - 1 : m[i] = IF i <= x - 1 THEN a[i] ELSE b[i - (x - 1)]
    <2>1. /\ m \in Seq(Node) /\ Len(m) = Len(a) + Len(b)
          /\ \A i \in 1 .. Len(a) + Len(b) : m[i] = IF i <= Len(a) THEN a[i] ELSE b[i - Len(a)]
        BY <1>3, <1>4, ConcatProperties
    <2> HIDE DEF m
    <2> QED  BY <1>1, <1>2, <1>3, <1>4, <2>1
<1> HIDE DEF m
<1>6. ASSUME NEW i \in 1 .. Len(l) - 1 PROVE m[i] = IF i < x THEN l[i] ELSE l[i + 1]
    <2>1. CASE i < x
        BY <1>1, <1>2, <1>3, <1>5, <2>1
    <2>2. CASE ~(i < x)
        <3>1. /\ i - (x - 1) \in 1 .. Len(l) - x /\ x + (i - (x - 1)) = i + 1
              /\ ~(i <= x - 1)
            BY <1>1, <1>2, <2>2
        <3>2. m[i] = b[i - (x - 1)]
            BY <1>5, <3>1
        <3>3. b[i - (x - 1)] = l[x + (i - (x - 1))]
            BY <1>4, <3>1
        <3> QED  BY <2>2, <3>1, <3>2, <3>3
    <2> QED  BY <2>1, <2>2
<1> QED  BY <1>2, <1>5, <1>6 DEF Without, m, a, b, x

\* del unlinks the node of its key, and no other.
LEMMA WithoutKeeps ==
    ASSUME NEW l, Good(l), NEW k, Contains(l, k)
    PROVE  /\ Good(Without(l, k))
           /\ Nodes(Without(l, k)) = {n \in Nodes(l) : n.key # k}
<1> DEFINE x == IndexOf(l, k)
           m == Without(l, k)
           at == [i \in 1 .. Len(m) |-> IF i < x THEN i ELSE i + 1]
<1>1. DOMAIN l = 1 .. Len(l) /\ Len(l) \in Nat /\ \A i \in 1 .. Len(l) : l[i] \in Node
    BY LenProperties, ElementOfSeq DEF Good
<1>2. x \in 1 .. Len(l) /\ l[x].key = k
    BY WithoutIs
<1>5. /\ m \in Seq(Node) /\ Len(m) = Len(l) - 1
      /\ \A i \in 1 .. Len(l) - 1 : m[i] = IF i < x THEN l[i] ELSE l[i + 1]
    BY WithoutIs
<1> HIDE DEF x, m
<1>6. /\ at \in [1 .. Len(m) -> 1 .. Len(l)]
      /\ \A i, j \in 1 .. Len(m) : i < j => at[i] < at[j]
    BY <1>1, <1>2, <1>5
<1>7. \A i \in 1 .. Len(m) : m[i] = l[at[i]]
    BY <1>1, <1>2, <1>5
<1>8. \A i \in 1 .. Len(m) : at[i] # x
    BY <1>1, <1>2, <1>5
<1>9. \A j \in 1 .. Len(l) \ {x} : \E i \in 1 .. Len(m) : at[i] = j
    <2> TAKE j \in 1 .. Len(l) \ {x}
    <2>1. CASE j < x
        <3>1. j \in 1 .. Len(m) /\ at[j] = j
            BY <1>1, <1>2, <1>5, <2>1
        <3> QED  BY <3>1
    <2>2. CASE j > x
        <3>1. j - 1 \in 1 .. Len(m) /\ at[j - 1] = j
            BY <1>1, <1>2, <1>5, <2>2
        <3> QED  BY <3>1
    <2> QED  BY <1>1, <1>2, <2>1, <2>2
<1> HIDE DEF at
<1>10. Good(m)
    BY <1>5, <1>6, <1>7, PartIsGood
<1>11. Nodes(m) = {n \in Nodes(l) : n.key # k}
    <2>1. DOMAIN m = 1 .. Len(m)
        BY <1>5, LenProperties
    <2>2. \A i \in 1 .. Len(l) : l[i].key = k => i = x
        BY <1>1, <1>2 DEF Good, OneKey
    <2>3. ASSUME NEW i \in 1 .. Len(m) PROVE m[i] \in Nodes(l) /\ m[i].key # k
        BY <1>1, <1>6, <1>7, <1>8, <2>2 DEF Nodes
    <2>4. ASSUME NEW j \in 1 .. Len(l), l[j].key # k PROVE l[j] \in Nodes(m)
        <3>1. j \in 1 .. Len(l) \ {x}
            BY <1>2, <2>4
        <3>2. PICK i \in 1 .. Len(m) : at[i] = j
            BY <1>9, <3>1
        <3>3. m[i] = l[j]
            BY <1>7, <3>2
        <3> QED  BY <2>1, <3>3 DEF Nodes
    <2> QED  BY <1>1, <2>1, <2>3, <2>4 DEF Nodes
<1> QED  BY <1>10, <1>11 DEF m

LEMMA InsertIs ==
    ASSUME NEW l \in Seq(Node), NEW k \in Keys, NEW v \in Conns, clock \in 0 .. MaxClock
    PROVE  /\ Insert(l, k, v) \in Seq(Node) /\ Len(Insert(l, k, v)) = Len(l) + 1
           /\ Insert(l, k, v)[1] = [key |-> k, value |-> v, last_use_time |-> clock]
           /\ \A i \in 2 .. Len(l) + 1 : Insert(l, k, v)[i] = l[i - 1]
<1> DEFINE n == [key |-> k, value |-> v, last_use_time |-> clock]
           m == <<n>> \o l
<1>1. Len(l) \in Nat /\ n \in Node
    BY LenProperties DEF Node
<1> HIDE DEF n
<1>2. <<n>> \in Seq(Node) /\ Len(<<n>>) = 1 /\ <<n>>[1] = n
    BY <1>1
<1>3. /\ m \in Seq(Node) /\ Len(m) = Len(l) + 1
      /\ m[1] = n /\ \A i \in 2 .. Len(l) + 1 : m[i] = l[i - 1]
    BY <1>1, <1>2, ConcatProperties
<1> QED  BY <1>3 DEF Insert, n, m

\* insert puts a node with the present time at the front.
LEMMA InsertAdds ==
    ASSUME NEW l, Good(l), NEW k \in Keys, NEW v \in Conns, ~Contains(l, k),
           clock \in 0 .. MaxClock
    PROVE  /\ Good(Insert(l, k, v))
           /\ Nodes(Insert(l, k, v)) =
                 {[key |-> k, value |-> v, last_use_time |-> clock]} \union Nodes(l)
<1> DEFINE n == [key |-> k, value |-> v, last_use_time |-> clock]
           m == Insert(l, k, v)
<1>1. /\ DOMAIN l = 1 .. Len(l) /\ Len(l) \in Nat /\ l \in Seq(Node)
      /\ \A i \in 1 .. Len(l) : l[i] \in Node
    BY LenProperties, ElementOfSeq DEF Good
<1>2. n \in Node /\ n.key = k /\ n.last_use_time = clock
    BY DEF Node
<1>4. /\ m \in Seq(Node) /\ Len(m) = Len(l) + 1
      /\ m[1] = n /\ \A i \in 2 .. Len(m) : m[i] = l[i - 1]
    BY <1>1, InsertIs
<1> HIDE DEF n, m
<1>5. DOMAIN m = 1 .. Len(m)
    BY <1>4, LenProperties
<1>6. \A i \in 1 .. Len(l) : l[i].key # k
    BY <1>1 DEF Contains
<1>7. \A i \in 1 .. Len(l) : l[i].last_use_time <= clock
    BY <1>1 DEF Good, Past
<1>8. \A i \in 2 .. Len(m) : i - 1 \in 1 .. Len(l)
    BY <1>1, <1>4
<1>9. OneKey(m)
    <2> SUFFICES ASSUME NEW i \in 1 .. Len(m), NEW j \in 1 .. Len(m), m[i].key = m[j].key
                 PROVE  i = j
        BY <1>5 DEF OneKey
    <2>1. CASE i = 1 /\ j # 1
        BY <1>1, <1>2, <1>4, <1>6, <1>8, <2>1
    <2>2. CASE i # 1 /\ j = 1
        BY <1>1, <1>2, <1>4, <1>6, <1>8, <2>2
    <2>3. CASE i # 1 /\ j # 1
        <3>1. /\ i - 1 \in 1 .. Len(l) /\ j - 1 \in 1 .. Len(l)
              /\ l[i - 1].key = l[j - 1].key
            BY <1>1, <1>4, <1>8, <2>3
        <3>2. i - 1 = j - 1
            BY <1>1, <3>1 DEF Good, OneKey
        <3> QED  BY <1>1, <1>4, <3>2
    <2> QED  BY <2>1, <2>2, <2>3
<1>10. Ordered(m)
    <2> SUFFICES ASSUME NEW i \in 1 .. Len(m), NEW j \in 1 .. Len(m), i < j
                 PROVE  m[i].last_use_time >= m[j].last_use_time
        BY <1>5 DEF Ordered
    <2>1. j \in 2 .. Len(m) /\ j - 1 \in 1 .. Len(l)
        BY <1>1, <1>4
    <2>2. l[j - 1].last_use_time \in Int
        BY <1>1, <2>1 DEF Node
    <2>3. CASE i = 1
        BY <1>2, <1>4, <1>7, <2>1, <2>2, <2>3
    <2>4. CASE i # 1
        <3>1. i - 1 \in 1 .. Len(l) /\ i - 1 < j - 1 /\ m[i] = l[i - 1]
            BY <1>1, <1>4, <2>4
        <3> QED  BY <1>1, <1>4, <2>1, <3>1 DEF Good, Ordered
    <2> QED  BY <2>3, <2>4
<1>11. Past(m)
    <2> SUFFICES ASSUME NEW i \in 1 .. Len(m) PROVE m[i].last_use_time <= clock
        BY <1>5 DEF Past
    <2>1. CASE i = 1
        BY <1>2, <1>4, <2>1
    <2>2. CASE i # 1
        BY <1>1, <1>4, <1>7, <1>8, <2>2
    <2> QED  BY <2>1, <2>2
<1>12. Nodes(m) = {n} \union Nodes(l)
    <2>1. ASSUME NEW i \in 1 .. Len(m) PROVE m[i] \in {n} \union Nodes(l)
        BY <1>1, <1>4, <1>8 DEF Nodes
    <2>2. n \in Nodes(m)
        BY <1>1, <1>4, <1>5 DEF Nodes
    <2>3. ASSUME NEW j \in 1 .. Len(l) PROVE l[j] \in Nodes(m)
        <3>1. j + 1 \in 2 .. Len(m) /\ m[j + 1] = l[j]
            BY <1>1, <1>4
        <3> QED  BY <1>5, <3>1 DEF Nodes
    <2> QED  BY <1>1, <1>5, <2>1, <2>2, <2>3 DEF Nodes
<1> QED  BY <1>4, <1>9, <1>10, <1>11, <1>12 DEF Good, m, n

\* The nodes that have not expired are the first ones.
LEMMA CheckIs ==
    ASSUME NEW l, Good(l), clock \in 0 .. MaxClock
    PROVE  \E x \in 0 .. Len(l) :
              /\ \A i \in 1 .. Len(l) : i <= x <=> ~Expired(l[i])
              /\ CheckList(l) \in Seq(Node) /\ Len(CheckList(l)) = x
              /\ \A i \in 1 .. x : CheckList(l)[i] = l[i]
<1> DEFINE F == {i \in 1 .. Len(l) : ~Expired(l[i])}
           c == Cardinality(F)
           Last(n) == /\ \A i \in n + 1 .. Len(l) : Expired(l[i])
                      /\ n > 0 => ~Expired(l[n])
           x == CHOOSE n \in 0 .. Len(l) : Last(n)
           m == SubSeq(l, 1, x)
<1>1. DOMAIN l = 1 .. Len(l) /\ Len(l) \in Nat /\ \A i \in 1 .. Len(l) : l[i] \in Node
    BY LenProperties, ElementOfSeq DEF Good
<1>2. \A i, j \in 1 .. Len(l) : i < j /\ ~Expired(l[j]) => ~Expired(l[i])
    <2> SUFFICES ASSUME NEW i \in 1 .. Len(l), NEW j \in 1 .. Len(l), i < j,
                        ~Expired(l[j])
                 PROVE  ~Expired(l[i])
        OBVIOUS
    <2>1. /\ l[i].last_use_time \in Int /\ l[j].last_use_time \in Int
          /\ l[i].last_use_time >= l[j].last_use_time
        BY <1>1 DEF Node, Good, Ordered
    <2> QED  BY <2>1 DEF Expired
<1>3. \E n \in 0 .. Len(l) : Last(n)
    <2>1. IsFiniteSet(F) /\ c \in Nat /\ c <= Len(l)
        <3>1. IsFiniteSet(1 .. Len(l)) /\ Cardinality(1 .. Len(l)) = Len(l)
            BY <1>1, FS_Interval
        <3>2. F \in SUBSET (1 .. Len(l))
            OBVIOUS
        <3> HIDE DEF F
        <3>3. IsFiniteSet(F) /\ Cardinality(F) <= Cardinality(1 .. Len(l))
            BY <3>1, <3>2, FS_Subset
        <3> QED  BY <3>1, <3>3, FS_CardinalityType
    <2>2. ASSUME NEW i \in 1 .. Len(l) PROVE i <= c <=> ~Expired(l[i])
        <3>1. CASE ~Expired(l[i])
            <4>1. 1 .. i \subseteq F
                BY <1>1, <1>2, <3>1
            <4>2. Cardinality(1 .. i) = i
                BY FS_Interval
            <4>3. i <= c
                <5> HIDE DEF F
                <5> QED  BY <2>1, <4>1, <4>2, FS_Subset
            <4> QED  BY <3>1, <4>3
        <3>2. CASE Expired(l[i])
            <4>1. F \subseteq 1 .. i - 1
                BY <1>1, <1>2, <3>2
            <4>2. IsFiniteSet(1 .. i - 1) /\ Cardinality(1 .. i - 1) = i - 1
                BY FS_Interval
            <4>3. c <= i - 1
                <5> HIDE DEF F
                <5> QED  BY <4>1, <4>2, FS_Subset
            <4> HIDE DEF c
            <4> QED  BY <1>1, <2>1, <3>2, <4>3
        <3> QED  BY <3>1, <3>2
    <2> HIDE DEF c
    <2>3. Last(c)
        BY <1>1, <2>1, <2>2
    <2> QED  BY <2>1, <2>3
<1>4. x \in 0 .. Len(l) /\ Last(x)
    BY <1>3
<1>5. CheckList(l) = m
    BY DEF CheckList
<1> HIDE DEF x
<1>6. \A i \in 1 .. Len(l) : i <= x <=> ~Expired(l[i])
    BY <1>1, <1>2, <1>4
<1>7. /\ m \in Seq(Node) /\ Len(m) = x
      /\ \A i \in 1 .. x : m[i] = l[i]
    BY <1>1, <1>4, SubSeqProperties
<1> HIDE DEF m
<1> QED  BY <1>4, <1>5, <1>6, <1>7

\* checkList removes the nodes that have expired, and no other.
LEMMA CheckKeepsFresh ==
    ASSUME NEW l, Good(l), clock \in 0 .. MaxClock
    PROVE  /\ Good(CheckList(l))
           /\ Nodes(CheckList(l)) = {n \in Nodes(l) : ~Expired(n)}
<1> DEFINE m == CheckList(l)
           at == [i \in 1 .. Len(m) |-> i]
<1>1. DOMAIN l = 1 .. Len(l) /\ Len(l) \in Nat /\ \A i \in 1 .. Len(l) : l[i] \in Node
    BY LenProperties, ElementOfSeq DEF Good
<1>2. PICK x \in 0 .. Len(l) :
        /\ \A i \in 1 .. Len(l) : i <= x <=> ~Expired(l[i])
        /\ m \in Seq(Node) /\ Len(m) = x
        /\ \A i \in 1 .. x : m[i] = l[i]
    BY CheckIs
<1>4. x \in 0 .. Len(l)
    OBVIOUS
<1>6. \A i \in 1 .. Len(l) : i <= x <=> ~Expired(l[i])
    BY <1>2
<1>7. /\ m \in Seq(Node) /\ Len(m) = x
      /\ \A i \in 1 .. x : m[i] = l[i]
    BY <1>2
<1> HIDE DEF m
<1>8. Good(m)
    <2>1. /\ at \in [1 .. Len(m) -> 1 .. Len(l)]
          /\ \A i \in 1 .. Len(m) : m[i] = l[at[i]]
          /\ \A i, j \in 1 .. Len(m) : i < j => at[i] < at[j]
        BY <1>1, <1>4, <1>7
    <2> HIDE DEF at
    <2> QED  BY <1>7, <2>1, PartIsGood
<1>9. Nodes(m) = {n \in Nodes(l) : ~Expired(n)}
    <2>1. DOMAIN m = 1 .. x
        BY <1>7, LenProperties
    <2>2. ASSUME NEW i \in 1 .. x PROVE m[i] \in Nodes(l) /\ ~Expired(m[i])
        BY <1>1, <1>4, <1>6, <1>7 DEF Nodes
    <2>3. ASSUME NEW i \in 1 .. Len(l), ~Expired(l[i]) PROVE l[i] \in Nodes(m)
        BY <1>1, <1>4, <1>6, <1>7, <2>1, <2>3 DEF Nodes
    <2> QED  BY <1>1, <2>1, <2>2, <2>3 DEF Nodes
<1> QED  BY <1>8, <1>9 DEF m

-----------------------------------------------------------------------------
(***************************************************************************)
(* The list as a map.                                                      *)
(***************************************************************************)

Value(l)   == [k \in KeysIn(l) |-> ValueOf(l, k)]
LastUse(l) == [k \in KeysIn(l) |-> l[IndexOf(l, k)].last_use_time]

\* v and u have what the nodes of l have.
Says(l, v, u) ==
    /\ v = [k \in KeysIn(l) |-> v[k]] /\ u = [k \in KeysIn(l) |-> u[k]]
    /\ \A n \in Nodes(l) : v[n.key] = n.value /\ u[n.key] = n.last_use_time

LEMMA KeysOfNodes == ASSUME NEW l PROVE KeysIn(l) = {n.key : n \in Nodes(l)}
BY DEF KeysIn, Nodes

LEMMA ListSays == ASSUME NEW l, OneKey(l) PROVE Says(l, Value(l), LastUse(l))
<1>1. ASSUME NEW i \in DOMAIN l
      PROVE  /\ l[i].key \in KeysIn(l)
             /\ Value(l)[l[i].key] = l[i].value
             /\ LastUse(l)[l[i].key] = l[i].last_use_time
    <2>1. IndexOf(l, l[i].key) = i
        BY IndexIs
    <2>2. l[i].key \in KeysIn(l)
        BY DEF KeysIn
    <2> QED  BY <2>1, <2>2 DEF Value, LastUse, ValueOf
<1> QED  BY <1>1 DEF Says, Nodes, Value, LastUse

\* Nothing else says the same.
LEMMA SaysOnlyOne ==
    ASSUME NEW l, OneKey(l), NEW v, NEW u, Says(l, v, u)
    PROVE  v = Value(l) /\ u = LastUse(l)
<1>1. ASSUME NEW k \in KeysIn(l)
      PROVE  v[k] = Value(l)[k] /\ u[k] = LastUse(l)[k]
    <2>1. PICK n \in Nodes(l) : n.key = k
        BY KeysOfNodes
    <2> QED  BY <2>1, ListSays DEF Says
<1> QED  BY <1>1, ListSays DEF Says

\* checkList keeps the users that are fresh.
LEMMA CheckSays ==
    ASSUME NEW l, Good(l), clock \in 0 .. MaxClock, NEW v, NEW u, Says(l, v, u)
    PROVE  /\ Value(CheckList(l)) = Users!Restrict(v, Users!Fresh(u))
           /\ LastUse(CheckList(l)) = Users!Restrict(u, Users!Fresh(u))
<1> DEFINE m == CheckList(l)
<1>1. Good(m) /\ Nodes(m) = {n \in Nodes(l) : ~Expired(n)}
    BY CheckKeepsFresh
<1>2. \A n \in Nodes(l) : n \in Node /\ n.key \in KeysIn(l)
    BY KeysOfNodes, LenProperties, ElementOfSeq DEF Nodes, Good
<1>3. \A n \in Nodes(l) : Expired(n) <=> ~(clock - u[n.key] <= LiveTime)
    BY <1>2 DEF Says, Expired, Node
<1>4. DOMAIN u = KeysIn(l) /\ DOMAIN v = KeysIn(l)
    BY DEF Says
<1>5. \A k \in KeysIn(l) : \E n \in Nodes(l) : n.key = k
    BY KeysOfNodes
<1> HIDE DEF m
<1>6. KeysIn(m) = Users!Fresh(u)
    BY <1>1, <1>2, <1>3, <1>4, <1>5, KeysOfNodes DEF Users!Fresh
<1>7. Says(m, Users!Restrict(v, Users!Fresh(u)), Users!Restrict(u, Users!Fresh(u)))
    BY <1>1, <1>2, <1>3, <1>4, <1>6, KeysOfNodes DEF Says, Users!Restrict, Users!Fresh
<1> QED  BY <1>1, <1>7, SaysOnlyOne DEF Good, m

-----------------------------------------------------------------------------
(***************************************************************************)
(* The list before checkList.                                              *)
(***************************************************************************)

LEMMA ContainsKey == ASSUME NEW l, NEW k PROVE Contains(l, k) <=> k \in KeysIn(l)
BY DEF Contains, KeysIn

\* del, for a key that is there.
LEMMA WithoutSays ==
    ASSUME NEW l, Good(l), NEW k \in KeysIn(l)
    PROVE  /\ Good(Without(l, k)) /\ KeysIn(Without(l, k)) = KeysIn(l) \ {k}
           /\ Nodes(Without(l, k)) = {n \in Nodes(l) : n.key # k}
<1>1. /\ Good(Without(l, k))
      /\ Nodes(Without(l, k)) = {n \in Nodes(l) : n.key # k}
    BY ContainsKey, WithoutKeeps
<1> QED  BY <1>1, KeysOfNodes

\* insert, for a key that is not.
LEMMA InsertSays ==
    ASSUME NEW l, Good(l), NEW k \in Keys, k \notin KeysIn(l), NEW c \in Conns,
           clock \in 0 .. MaxClock, NEW v, NEW u,
           v = [j \in KeysIn(l) \union {k} |-> v[j]], v[k] = c,
           u = [j \in KeysIn(l) \union {k} |-> u[j]], u[k] = clock,
           \A n \in Nodes(l) : v[n.key] = n.value /\ u[n.key] = n.last_use_time
    PROVE  Good(Insert(l, k, c)) /\ Says(Insert(l, k, c), v, u)
<1> DEFINE m == Insert(l, k, c)
           new == [key |-> k, value |-> c, last_use_time |-> clock]
<1>1. Good(m) /\ Nodes(m) = {new} \union Nodes(l)
    BY ContainsKey, InsertAdds
<1>2. new.key = k /\ new.value = c /\ new.last_use_time = clock
    OBVIOUS
<1> HIDE DEF m, new
<1>3. KeysIn(m) = {n.key : n \in Nodes(m)} /\ KeysIn(l) = {n.key : n \in Nodes(l)}
    BY KeysOfNodes
<1>4. KeysIn(m) = KeysIn(l) \union {k}
    BY <1>1, <1>2, <1>3
<1>5. Says(m, v, u)
    BY <1>1, <1>2, <1>4 DEF Says
<1> QED  BY <1>1, <1>5 DEF m

LEMMA ValueType ==
    ASSUME NEW l, Good(l), NEW k \in KeysIn(l)
    PROVE  ValueOf(l, k) \in Conns
<1>1. IndexOf(l, k) \in DOMAIN l
    BY ContainsKey, IndexType
<1>2. l[IndexOf(l, k)] \in Node
    BY <1>1, LenProperties, ElementOfSeq DEF Good
<1> QED  BY <1>2 DEF ValueOf, Node

-----------------------------------------------------------------------------
(***************************************************************************)
(* The steps.                                                              *)
(***************************************************************************)

\* What a step has to show.
Step == Inv' /\ [Users!Next]_(Users!vars)

LEMMA MappedOnes ==
    /\ Users!vars = <<Value(list), LastUse(list), clock, result>>
    /\ DOMAIN Value(list) = KeysIn(list) /\ DOMAIN LastUse(list) = KeysIn(list)
BY DEF Users!vars, Value, LastUse

LEMMA GetStep == ASSUME Inv, NEW k \in Keys, get(k) PROVE Step
<1>1. Good(list) /\ clock \in 0 .. MaxClock /\ clock' = clock
    BY DEF Inv, get
<1>2. CASE k \in KeysIn(list)
    <2> DEFINE v == Value(list)
               u == [LastUse(list) EXCEPT ![k] = clock]
               l == Without(list, k)
               m == Insert(l, k, ValueOf(list, k))
    <2>1. /\ Good(l) /\ KeysIn(l) = KeysIn(list) \ {k}
          /\ Nodes(l) = {n \in Nodes(list) : n.key # k}
        BY <1>1, <1>2, WithoutSays
    <2>2. v[k] = ValueOf(list, k) /\ ValueOf(list, k) \in Conns
        BY <1>1, <1>2, ValueType DEF Value
    <2>3. /\ v = [j \in KeysIn(l) \union {k} |-> v[j]]
          /\ u = [j \in KeysIn(l) \union {k} |-> u[j]] /\ u[k] = clock
        BY <1>2, <2>1 DEF Value, LastUse
    <2>4. \A n \in Nodes(l) : v[n.key] = n.value /\ u[n.key] = n.last_use_time
        <3>1. Says(list, v, LastUse(list))
            BY <1>1, ListSays DEF Good
        <3> QED  BY <2>1, <3>1, KeysOfNodes DEF Says, LastUse
    <2> HIDE DEF v, u, l
    <2>5. Good(m) /\ Says(m, v, u)
        BY <1>1, <2>1, <2>2, <2>3, <2>4, InsertSays
    <2>6. list' = CheckList(m) /\ result' = ValueOf(list', k)
        BY <1>2, ContainsKey DEF get, AfterGet, l
    <2> HIDE DEF m
    <2>7. /\ Value(list') = Users!Restrict(v, Users!Fresh(u))
          /\ LastUse(list') = Users!Restrict(u, Users!Fresh(u))
        BY <1>1, <2>5, <2>6, CheckSays
    <2>8. k \in Users!Fresh(u)
        BY <1>1, <1>2, <2>1, <2>3 DEF Users!Fresh
    <2>9. k \in KeysIn(list') /\ result' = v[k]
        <3>1. DOMAIN Value(list') = Users!Fresh(u) /\ Value(list')[k] = v[k]
            BY <2>7, <2>8 DEF Users!Restrict
        <3> QED  BY <2>6, <2>8, <3>1 DEF Value
    <2>10. Inv'
        <3>1. Good(list')
            BY <1>1, <2>5, <2>6, CheckKeepsFresh
        <3>2. Good(list)'
            BY <1>1, <3>1 DEF Good, OneKey, Ordered, Past
        <3> QED  BY <1>1, <2>2, <2>9, <3>2 DEF Inv
    <2>11. Users!Hit(k)
        BY <1>1, <1>2, <2>7, <2>9, MappedOnes
           DEF Users!Hit, Users!Keep, Users!Online, Value, LastUse, v, u
    <2> QED  BY <2>10, <2>11 DEF Step, Users!Next
<1>3. CASE k \notin KeysIn(list)
    <2>1. list' = CheckList(list) /\ result' = NULL
        BY <1>3, ContainsKey DEF get, AfterGet
    <2>2. Says(list, Value(list), LastUse(list))
        BY <1>1, ListSays DEF Good
    <2>3. /\ Value(list') = Users!Restrict(Value(list), Users!Fresh(LastUse(list)))
          /\ LastUse(list') = Users!Restrict(LastUse(list), Users!Fresh(LastUse(list)))
        BY <1>1, <2>1, <2>2, CheckSays
    <2>4. Inv'
        <3>1. Good(list')
            BY <1>1, <2>1, CheckKeepsFresh
        <3>2. Good(list)'
            BY <1>1, <3>1 DEF Good, OneKey, Ordered, Past
        <3> QED  BY <1>1, <2>1, <3>2 DEF Inv
    <2>5. Users!Miss(k)
        BY <1>1, <1>3, <2>1, <2>3, MappedOnes
           DEF Users!Miss, Users!Keep, Users!Online, Value, LastUse
    <2> QED  BY <2>4, <2>5 DEF Step, Users!Next
<1> QED  BY <1>2, <1>3

LEMMA PutStep == ASSUME Inv, NEW k \in Keys, NEW c \in Conns, put(k, c) PROVE Step
<1> DEFINE v == [j \in KeysIn(list) \union {k} |-> IF j = k THEN c ELSE Value(list)[j]]
           u == [j \in KeysIn(list) \union {k} |->
                    IF j = k THEN clock ELSE LastUse(list)[j]]
           l == IF Contains(list, k) THEN Without(list, k) ELSE list
           m == Insert(l, k, c)
<1>1. Good(list) /\ clock \in 0 .. MaxClock /\ clock' = clock /\ result' = result
    BY DEF Inv, put
<1>2. /\ Good(l) /\ KeysIn(l) = KeysIn(list) \ {k}
      /\ Nodes(l) = {n \in Nodes(list) : n.key # k}
    <2>1. CASE k \in KeysIn(list)
        BY <1>1, <2>1, WithoutSays, ContainsKey
    <2>2. CASE k \notin KeysIn(list)
        <3>1. l = list /\ KeysIn(list) \ {k} = KeysIn(list)
            BY <2>2, ContainsKey
        <3>2. \A n \in Nodes(list) : n.key # k
            BY <2>2, KeysOfNodes
        <3> HIDE DEF l
        <3> QED  BY <1>1, <3>1, <3>2
    <2> QED  BY <2>1, <2>2
<1>3. list' = CheckList(m)
    BY DEF put, AfterPut
<1> HIDE DEF l
<1>4. Good(m) /\ Says(m, v, u)
    <2>1. KeysIn(l) \union {k} = KeysIn(list) \union {k}
        BY <1>2
    <2>2. /\ v = [j \in KeysIn(l) \union {k} |-> v[j]] /\ v[k] = c
          /\ u = [j \in KeysIn(l) \union {k} |-> u[j]] /\ u[k] = clock
        BY <2>1
    <2>3. \A n \in Nodes(l) : v[n.key] = n.value /\ u[n.key] = n.last_use_time
        <3>1. Says(list, Value(list), LastUse(list))
            BY <1>1, ListSays DEF Good
        <3>2. \A n \in Nodes(l) : n \in Nodes(list) /\ n.key # k /\ n.key \in KeysIn(list)
            BY <1>2, KeysOfNodes
        <3> QED  BY <3>1, <3>2 DEF Says
    <2> HIDE DEF v, u
    <2> QED  BY <1>1, <1>2, <2>2, <2>3, InsertSays
<1> HIDE DEF m
<1>5. /\ Value(list') = Users!Restrict(v, Users!Fresh(u))
      /\ LastUse(list') = Users!Restrict(u, Users!Fresh(u))
    <2> HIDE DEF v, u
    <2> QED  BY <1>1, <1>3, <1>4, CheckSays
<1>6. Inv'
    <2>1. Good(list')
        BY <1>1, <1>3, <1>4, CheckKeepsFresh
    <2>2. Good(list)'
        BY <1>1, <2>1 DEF Good, OneKey, Ordered, Past
    <2> QED  BY <1>1, <2>2 DEF Inv
<1>7. Users!Put(k, c)
    <2>1. Users!Keep(v, u)
        BY <1>1, <1>5 DEF Users!Keep, Value, LastUse
    <2> QED  BY <1>1, <2>1, MappedOnes DEF Users!Put, Users!Online, Value, LastUse
<1> QED  BY <1>6, <1>7 DEF Step, Users!Next

LEMMA RemoveStep == ASSUME Inv, NEW k \in Keys, remove(k) PROVE Step
<1>1. Good(list) /\ clock \in 0 .. MaxClock /\ clock' = clock /\ result' = result
    BY DEF Inv, remove
<1>2. /\ Good(list') /\ KeysIn(list') = KeysIn(list) \ {k}
      /\ Nodes(list') = {n \in Nodes(list) : n.key # k}
    <2>1. CASE k \in KeysIn(list)
        BY <1>1, <2>1, WithoutSays, ContainsKey DEF remove, AfterRemove
    <2>2. CASE k \notin KeysIn(list)
        <3>1. list' = list /\ KeysIn(list) \ {k} = KeysIn(list)
            BY <2>2, ContainsKey DEF remove, AfterRemove
        <3>2. \A n \in Nodes(list) : n.key # k
            BY <2>2, KeysOfNodes
        <3> QED  BY <1>1, <3>1, <3>2
    <2> QED  BY <2>1, <2>2
<1>3. Inv'
    <2>1. Good(list)'
        BY <1>1, <1>2 DEF Good, OneKey, Ordered, Past
    <2> QED  BY <1>1, <2>1 DEF Inv
<1> DEFINE v == Users!Restrict(Value(list), KeysIn(list) \ {k})
           u == Users!Restrict(LastUse(list), KeysIn(list) \ {k})
<1>4. Says(list', v, u)
    <2>1. Says(list, Value(list), LastUse(list))
        BY <1>1, ListSays DEF Good
    <2>2. \A n \in Nodes(list') : n \in Nodes(list) /\ n.key \in KeysIn(list) \ {k}
        BY <1>2, KeysOfNodes
    <2> QED  BY <1>2, <2>1, <2>2 DEF Says, Users!Restrict
<1>5. v = Value(list') /\ u = LastUse(list')
    <2> HIDE DEF v, u
    <2> QED  BY <1>2, <1>4, SaysOnlyOne DEF Good
<1>6. Users!Remove(k)
    BY <1>1, <1>5, MappedOnes DEF Users!Remove, Users!Online, Value, LastUse
<1> QED  BY <1>3, <1>6 DEF Step, Users!Next

LEMMA TickStep == ASSUME Inv, Tick PROVE Step
<1>1. Good(list) /\ clock \in 0 .. MaxClock /\ clock' = clock + 1
      /\ clock < MaxClock /\ list' = list /\ result' = result
    BY DEF Inv, Tick
<1>2. Past(list)'
    <2>1. \A i \in DOMAIN list : list[i].last_use_time \in Int
        <3>1. \A i \in DOMAIN list : list[i] \in Node
            BY <1>1, LenProperties, ElementOfSeq DEF Good
        <3> QED  BY <3>1 DEF Node
    <2> QED  BY <1>1, <2>1 DEF Good, Past
<1>3. Inv'
    BY <1>1, <1>2 DEF Inv, Good, OneKey, Ordered
<1>4. Users!Tick
    BY <1>1 DEF Users!Tick, ValueOf, IndexOf, KeysIn
<1> QED  BY <1>3, <1>4 DEF Step, Users!Next

LEMMA InitUsers == Init => Inv /\ Users!Init
<1> SUFFICES ASSUME Init PROVE Inv /\ Users!Init
    OBVIOUS
<1>1. DOMAIN list = {} /\ list \in Seq(Node)
    BY EmptySeq DEF Init
<1>2. Inv
    BY <1>1 DEF Init, Inv, Good, OneKey, Ordered, Past
<1>3. Users!Init
    BY <1>1 DEF Init, Users!Init, KeysIn
<1> QED  BY <1>2, <1>3

LEMMA NextStep == Inv /\ [Next]_vars => Step
<1> SUFFICES ASSUME Inv, [Next]_vars PROVE Step
    OBVIOUS
<1>1. CASE UNCHANGED vars
    <2>1. list' = list /\ clock' = clock /\ result' = result
        BY <1>1 DEF vars
    <2>2. Inv'
        BY <2>1 DEF Inv, Good, OneKey, Ordered, Past
    <2>3. UNCHANGED Users!vars
        BY <2>1 DEF Users!vars, KeysIn, ValueOf, IndexOf
    <2> QED  BY <2>2, <2>3 DEF Step
<1> QED  BY <1>1, GetStep, PutStep, RemoveStep, TickStep DEF Next

LEMMA InvAlways == Spec => []Inv
<1>1. Step => Inv'
    BY DEF Step
<1> QED  BY <1>1, InitUsers, NextStep, PTL DEF Spec

-----------------------------------------------------------------------------
(***************************************************************************)
(* The theorems.                                                           *)
(***************************************************************************)

\* Every node has a key, a connection and a time, whatever is asked of the cache.
THEOREM ListTypeCorrect == Spec => []TypeOK
<1>1. Inv => TypeOK
    BY DEF Inv, Good, TypeOK
<1> QED  BY <1>1, InvAlways, PTL

\* put removes the node of a present key before it inserts the new one, and get moves
\* the node it finds: no account is in the list twice.
THEOREM OneNodeForEachKey == Spec => []OneNodePerKey
<1>1. Inv => OneNodePerKey
    BY DEF Inv, Good, OneKey, OneNodePerKey
<1> QED  BY <1>1, InvAlways, PTL

\* The list is in the order of the last requests, as readme.md:38 says, so checkList
\* may stop at the first node that has not expired.
THEOREM ListOrderedByUse == Spec => []OrderedByUse
<1>1. Inv => OrderedByUse
    BY DEF Inv, Good, Ordered, OrderedByUse
<1> QED  BY <1>1, InvAlways, PTL

\* The list implements the map with expiry: get, put and remove leave exactly the users
\* that OnlineUsers leaves, with the connection that was put last.
THEOREM CacheImplementsUsers == Spec => UsersSpec
<1>1. Step => [Users!Next]_(Users!vars)
    BY DEF Step
<1> QED  BY <1>1, InitUsers, NextStep, InvAlways, PTL DEF Spec, UsersSpec, Users!Spec
=============================================================================
