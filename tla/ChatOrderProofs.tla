-------------------------- MODULE ChatOrderProofs --------------------------
(***************************************************************************)
(* Every client receives the chat messages in the order in which the       *)
(* server took them, and none twice.  A message is numbered when its       *)
(* functor is posted; its number goes from m_FunctorList to functors, from *)
(* there to the output buffers and from those to the clients, and at each  *)
(* of these places and between them the numbers increase.  And nobody who  *)
(* is online misses one: it leaves the lists for all their output buffers. *)
(***************************************************************************)
EXTENDS ChatServerProofs

\* The number of the message of functor f, and 0 if it is not a chat message.
Num(f) == IF f.fn = "all" THEN f.m.n ELSE 0

\* k comes before every number on list fs.
Before(k, fs) == \A i \in 1 .. Len(fs) : Num(fs[i]) # 0 => k < Num(fs[i])

Rising(fs) ==
    \A i, j \in 1 .. Len(fs) :
        i < j /\ Num(fs[i]) # 0 /\ Num(fs[j]) # 0 => Num(fs[i]) < Num(fs[j])

RisingMessages(ms) ==
    \A i, j \in 1 .. Len(ms) :
        i < j /\ ms[i].n # 0 /\ ms[j].n # 0 => ms[i].n < ms[j].n

\* Number k has left the lists of functors.
Passed(k) == Before(k, functors) /\ Before(k, m_FunctorList) /\ k <= posted

ListsRise ==
    /\ Rising(functors)
    /\ Rising(m_FunctorList)
    /\ \A i \in 1 .. Len(functors) :
          Num(functors[i]) <= posted /\ Before(Num(functors[i]), m_FunctorList)
    /\ \A i \in 1 .. Len(m_FunctorList) : Num(m_FunctorList[i]) <= posted

RisingNumbers(ns) ==
    \A i, j \in 1 .. Len(ns) : i < j /\ ns[i] # 0 /\ ns[j] # 0 => ns[i] < ns[j]

\* The numbers that client c has.
Had(c) == {delivered[c][i] : i \in 1 .. Len(delivered[c])}

BufferRises(c) ==
    /\ RisingNumbers(delivered[c])
    /\ RisingMessages(outBuffer[c])
    /\ \A i \in 1 .. Len(outBuffer[c]) : Passed(outBuffer[c][i].n)
    /\ \A k \in Had(c) : Passed(k)
    /\ \A k \in Had(c), i \in 1 .. Len(outBuffer[c]) :
          outBuffer[c][i].n # 0 => k < outBuffer[c][i].n

Ordered == ListsRise /\ \A c \in Conns : BufferRises(c)

OrderInv == Inv /\ Ordered

-----------------------------------------------------------------------------

LEMMA NumType == ASSUME NEW f \in FunctorSet PROVE Num(f) \in Nat
BY FunctorKind DEF Num, MessageSet

LEMMA Numbers ==
    ASSUME Inv
    PROVE  /\ functors \in Seq(FunctorSet) /\ m_FunctorList \in Seq(FunctorSet) /\ posted \in Nat
           /\ \A i \in 1 .. Len(functors) : Num(functors[i]) \in Nat
           /\ \A i \in 1 .. Len(m_FunctorList) : Num(m_FunctorList[i]) \in Nat
           /\ \A c \in Conns : outBuffer[c] \in Seq(MessageSet) /\ delivered[c] \in Seq(Nat)
           /\ \A c \in Conns : Had(c) \subseteq Nat
           /\ \A c \in Conns : \A i \in 1 .. Len(outBuffer[c]) : outBuffer[c][i].n \in Nat
<1>1. functors \in Seq(FunctorSet) /\ m_FunctorList \in Seq(FunctorSet) /\ posted \in Nat
    BY DEF Inv, Typed, ServerTypes
<1>2. \A i \in 1 .. Len(functors) : functors[i] \in FunctorSet
    BY <1>1, ElementOfSeq
<1>3. \A i \in 1 .. Len(m_FunctorList) : m_FunctorList[i] \in FunctorSet
    BY <1>1, ElementOfSeq
<1>4. \A c \in Conns : outBuffer[c] \in Seq(MessageSet) /\ delivered[c] \in Seq(Nat)
    BY Types
<1>5. ASSUME NEW c \in Conns, NEW i \in 1 .. Len(outBuffer[c]) PROVE outBuffer[c][i].n \in Nat
    <2>1. outBuffer[c][i] \in MessageSet
        BY <1>4, ElementOfSeq
    <2> QED  BY <2>1 DEF MessageSet
<1>6. \A c \in Conns : Had(c) \subseteq Nat
    BY <1>4, ElementOfSeq DEF Had
<1> QED  BY <1>1, <1>2, <1>3, <1>4, <1>5, <1>6, NumType

\* A step that leaves the messages where they are.
LEMMA SameMessages ==
    ASSUME Ordered, UNCHANGED <<functors, m_FunctorList, posted, outBuffer, delivered>>
    PROVE  Ordered'
BY DEF Ordered, ListsRise, BufferRises, Rising, RisingMessages, RisingNumbers, Had, Passed,
       Before, Num

LEMMA SwapOrder == ASSUME OrderInv, Swap PROVE Ordered'
<1>1. /\ functors = <<>> /\ functors' = m_FunctorList /\ m_FunctorList' = <<>>
      /\ UNCHANGED <<posted, outBuffer, delivered>>
    BY DEF Swap, OrderInv, Inv, Typed, MainOrder, connVars, clientVars
<1>2. Len(<<>>) = 0
    BY EmptySeq
<1>3. \A k : Before(k, <<>>)
    BY <1>2 DEF Before
<1>4. ListsRise'
    BY <1>1, <1>2, <1>3 DEF OrderInv, Ordered, ListsRise, Rising, Before, Num
<1>5. \A k : Passed(k) => Passed(k)'
    BY <1>1, <1>2 DEF Passed, Before, Num
<1>6. ASSUME NEW c \in Conns PROVE BufferRises(c)'
    <2>1. BufferRises(c) /\ outBuffer'[c] = outBuffer[c] /\ delivered'[c] = delivered[c]
        BY <1>1 DEF OrderInv, Ordered
    <2>2. Had(c)' = Had(c)
        BY <2>1 DEF Had
    <2> QED  BY <1>5, <2>1, <2>2 DEF BufferRises, RisingMessages, RisingNumbers
<1> QED  BY <1>4, <1>6 DEF Ordered

\* The functor at the head has run and put its message into the buffers of some.
LEMMA RunOrder ==
    ASSUME OrderInv, main = "run", Running, NEW cs, NEW m,
           \A c \in Conns : outBuffer'[c] = IF c \in cs THEN Append(outBuffer[c], m)
                                            ELSE outBuffer[c],
           cs # {} => m \in MessageSet /\ m.n = Num(Functor)
    PROVE  Ordered'
<1> DEFINE k0 == Num(Functor)
<1>1. /\ functors # <<>> /\ functors \in Seq(FunctorSet)
      /\ functors' = Tail(functors) /\ UNCHANGED <<m_FunctorList, posted, delivered>>
    BY Ran, Numbers DEF OrderInv, Running, clientVars
<1>2. /\ Functor = functors[1] /\ 1 \in 1 .. Len(functors) /\ Len(functors) \in Nat
      /\ \A i \in 1 .. Len(functors') : i + 1 \in 1 .. Len(functors)
                                        /\ functors'[i] = functors[i + 1]
      /\ Len(functors') = Len(functors) - 1
    BY <1>1, HeadTail, LenProperties DEF Functor
<1>3. /\ posted \in Nat
      /\ \A i \in 1 .. Len(functors) : Num(functors[i]) \in Nat
      /\ \A i \in 1 .. Len(m_FunctorList) : Num(m_FunctorList[i]) \in Nat
    BY Numbers DEF OrderInv
<1>4. \A i \in 1 .. Len(functors') : Num(functors'[i]) = Num(functors[i + 1])
    BY <1>2
<1>5. ListsRise'
    <2>1. Rising(functors')
        <3> SUFFICES ASSUME NEW i \in 1 .. Len(functors'), NEW j \in 1 .. Len(functors'), i < j,
                            Num(functors'[i]) # 0, Num(functors'[j]) # 0
                     PROVE  Num(functors'[i]) < Num(functors'[j])
            BY DEF Rising
        <3>1. i + 1 \in 1 .. Len(functors) /\ j + 1 \in 1 .. Len(functors) /\ i + 1 < j + 1
            BY <1>2
        <3>2. /\ Num(functors'[i]) = Num(functors[i + 1])
              /\ Num(functors'[j]) = Num(functors[j + 1])
            BY <1>4
        <3>3. Rising(functors)
            BY DEF OrderInv, Ordered, ListsRise
        <3> HIDE DEF Num
        <3> QED  BY <3>1, <3>2, <3>3 DEF Rising
    <2>2. \A i \in 1 .. Len(functors') :
              Num(functors'[i]) <= posted /\ Before(Num(functors'[i]), m_FunctorList)
        BY <1>2, <1>4 DEF OrderInv, Ordered, ListsRise
    <2>3. /\ Rising(m_FunctorList)
          /\ \A i \in 1 .. Len(m_FunctorList) : Num(m_FunctorList[i]) <= posted
        BY DEF OrderInv, Ordered, ListsRise
    <2>4. Rising(functors)' /\ Rising(m_FunctorList)'
        BY <1>1, <2>1, <2>3 DEF Rising, Num
    <2>5. (\A i \in 1 .. Len(functors) :
              Num(functors[i]) <= posted /\ Before(Num(functors[i]), m_FunctorList))'
        BY <1>1, <2>2 DEF Before, Num
    <2>6. (\A i \in 1 .. Len(m_FunctorList) : Num(m_FunctorList[i]) <= posted)'
        BY <1>1, <2>3 DEF Num
    <2> QED  BY <2>4, <2>5, <2>6 DEF ListsRise
<1>6. \A k : Passed(k) => Passed(k)'
    <2> SUFFICES ASSUME NEW k, Passed(k) PROVE Passed(k)'
        OBVIOUS
    <2>1. Before(k, functors) /\ Before(k, m_FunctorList) /\ k <= posted
        BY DEF Passed
    <2>2. \A i \in 1 .. Len(functors') : Num(functors'[i]) # 0 => k < Num(functors'[i])
        BY <1>2, <1>4, <2>1 DEF Before
    <2> QED  BY <1>1, <2>1, <2>2 DEF Passed, Before, Num
<1>7. \A k : k = k0 => Passed(k)'
    <2>1. \A i \in 1 .. Len(functors') : Num(functors'[i]) # 0 => k0 < Num(functors'[i])
        <3> SUFFICES ASSUME NEW i \in 1 .. Len(functors'), Num(functors'[i]) # 0
                     PROVE  k0 < Num(functors'[i])
            OBVIOUS
        <3>1. i + 1 \in 1 .. Len(functors) /\ 1 < i + 1 /\ Num(functors'[i]) = Num(functors[i + 1])
            BY <1>2, <1>4
        <3>2. Rising(functors)
            BY DEF OrderInv, Ordered, ListsRise
        <3>3. k0 = Num(functors[1]) /\ k0 \in Nat /\ Num(functors[i + 1]) \in Nat
            BY <1>2, <1>3, <3>1
        <3> HIDE DEF k0
        <3> QED  BY <1>2, <3>1, <3>2, <3>3 DEF Rising
    <2>2. k0 <= posted /\ Before(k0, m_FunctorList)
        BY <1>2 DEF OrderInv, Ordered, ListsRise
    <2> SUFFICES ASSUME NEW k, k = k0 PROVE Passed(k)'
        OBVIOUS
    <2>3. /\ k <= posted /\ Before(k, m_FunctorList)
          /\ \A i \in 1 .. Len(functors') : Num(functors'[i]) # 0 => k < Num(functors'[i])
        BY <2>1, <2>2
    <2> HIDE DEF k0
    <2> QED  BY <1>1, <2>3 DEF Passed, Before, Num
<1>8. ASSUME NEW c \in Conns PROVE BufferRises(c)'
    <2> DEFINE b == outBuffer[c]
    <2>1. b \in Seq(MessageSet) /\ Len(b) \in Nat /\ Had(c) \subseteq Nat
          /\ \A i \in 1 .. Len(b) : b[i].n \in Nat
        BY Numbers, LenProperties DEF OrderInv
    <2>2. /\ RisingNumbers(delivered[c]) /\ RisingMessages(b) /\ \A i \in 1 .. Len(b) : Passed(b[i].n)
          /\ \A k \in Had(c) : Passed(k)
          /\ \A k \in Had(c), i \in 1 .. Len(b) : b[i].n # 0 => k < b[i].n
        BY DEF OrderInv, Ordered, BufferRises
    <2>3. CASE c \notin cs
        BY <1>1, <1>6, <2>2, <2>3 DEF BufferRises, RisingMessages, RisingNumbers, Had
    <2>4. CASE c \in cs
        <3> DEFINE b1 == Append(b, m)
        <3>1. m \in MessageSet /\ m.n = k0 /\ k0 \in Nat
            BY <1>2, <1>3, <2>4
        <3>2. /\ Len(b1) = Len(b) + 1 /\ b1[Len(b) + 1] = m
              /\ \A i \in 1 .. Len(b) : b1[i] = b[i]
            BY <2>1, <3>1, Appended
        <3>3. outBuffer'[c] = b1
            BY <2>4
        <3> HIDE DEF b1
        <3>4. \A k : Passed(k) /\ k0 # 0 => k < k0
            <4>1. \A k : Before(k, functors) /\ Num(functors[1]) # 0 => k < Num(functors[1])
                BY <1>2 DEF Before
            <4> QED  BY <1>2, <4>1 DEF Passed
        <3> HIDE DEF b, k0
        <3>5. \A i \in 1 .. Len(b1) : i \in 1 .. Len(b) \/ i = Len(b) + 1
            BY <2>1, <3>2
        <3>6. \A k : (\E i \in 1 .. Len(b1) : k = b1[i].n) => Passed(k)'
            <4> SUFFICES ASSUME NEW k, NEW i \in 1 .. Len(b1), k = b1[i].n PROVE Passed(k)'
                OBVIOUS
            <4>1. Passed(k) \/ k = k0
                BY <2>2, <3>1, <3>2, <3>5
            <4> QED  BY <1>6, <1>7, <4>1
        <3>7. RisingMessages(b1)
            <4> SUFFICES ASSUME NEW i \in 1 .. Len(b1), NEW j \in 1 .. Len(b1), i < j,
                                b1[i].n # 0, b1[j].n # 0
                         PROVE  b1[i].n < b1[j].n
                BY DEF RisingMessages
            <4>1. i \in 1 .. Len(b) /\ b1[i] = b[i]
                BY <2>1, <3>2
            <4>2. CASE j \in 1 .. Len(b)
                BY <2>2, <3>2, <4>1, <4>2 DEF RisingMessages
            <4>3. CASE j = Len(b) + 1
                BY <2>2, <3>1, <3>2, <3>4, <4>1, <4>3
            <4> QED  BY <3>5, <4>2, <4>3
        <3>8. \A k \in Had(c), i \in 1 .. Len(b1) : b1[i].n # 0 => k < b1[i].n
            <4> SUFFICES ASSUME NEW k \in Had(c), NEW i \in 1 .. Len(b1), b1[i].n # 0
                         PROVE  k < b1[i].n
                OBVIOUS
            <4>1. CASE i \in 1 .. Len(b)
                BY <2>2, <3>2, <4>1
            <4>2. CASE i = Len(b) + 1
                BY <2>2, <3>1, <3>2, <3>4, <4>2
            <4> QED  BY <3>5, <4>1, <4>2
        <3>9. \A k \in Had(c) : Passed(k)'
            BY <1>6, <2>2
        <3>10. (\A i \in 1 .. Len(outBuffer[c]) : Passed(outBuffer[c][i].n))'
            <4>1. \A i \in 1 .. Len(outBuffer'[c]) : \A k : k = outBuffer'[c][i].n => Passed(k)'
                BY <3>3, <3>6
            <4> QED  BY <4>1 DEF Passed
        <3>11. RisingMessages(outBuffer[c])'
            BY <3>3, <3>7 DEF RisingMessages
        <3>12. (\A k \in Had(c) : Passed(k))'
            BY <1>1, <3>9 DEF Had
        <3>13. (\A k \in Had(c), i \in 1 .. Len(outBuffer[c]) :
                   outBuffer[c][i].n # 0 => k < outBuffer[c][i].n)'
            BY <1>1, <3>3, <3>8 DEF Had
        <3>14. RisingNumbers(delivered[c])'
            BY <1>1, <2>2 DEF RisingNumbers
        <3> QED  BY <3>10, <3>11, <3>12, <3>13, <3>14 DEF BufferRises
    <2> QED  BY <2>3, <2>4
<1> QED  BY <1>5, <1>8 DEF Ordered

LEMMA RunFunctorOrder == ASSUME OrderInv, RunFunctor PROVE Ordered'
<1>1. main = "run" /\ Running
    BY DEF RunFunctor, SendTextToOneUser_, SendTextToAllUser, RemoveOnlineUser, CloseFunctor
<1>2. Functor \in FunctorSet
    BY <1>1, Ran DEF OrderInv
<1>3. Functor.fn \in {"one", "all"} => Functor.m \in MessageSet /\ Functor.m.n = Num(Functor)
    BY <1>2, FunctorKind DEF FunctorSet, NewFunctorSet, PlainSet, Num
<1>4. CASE SendTextToOneUser_
    BY <1>1, <1>3, <1>4, RunOrder DEF SendTextToOneUser_, SendTo
<1>5. ASSUME NEW p, SendTextToAllUser(p) PROVE Ordered'
    BY <1>1, <1>3, <1>5, RunOrder DEF SendTextToAllUser, SendTo
<1>6. CASE RemoveOnlineUser \/ CloseFunctor
    <2> DEFINE nobody == {}
    <2>1. \A c \in Conns : outBuffer'[c] = IF c \in nobody THEN Append(outBuffer[c], Functor)
                                           ELSE outBuffer[c]
        BY <1>6 DEF RemoveOnlineUser, CloseFunctor
    <2>2. nobody = {}
        OBVIOUS
    <2> HIDE DEF nobody
    <2> QED  BY <1>1, <2>1, <2>2, RunOrder
<1> QED  BY <1>4, <1>5, <1>6 DEF RunFunctor

\* What is posted has a greater number than all that was posted before.
LEMMA AddFunctorOrder == ASSUME OrderInv, NEW w \in Workers, AddFunctor(w) PROVE Ordered'
<1> DEFINE f == Op(w).f
           chat == f.fn = "all" /\ f.m.kind = "SEND"
           h == IF chat THEN [f EXCEPT !.m.n = posted'] ELSE f
           fs == m_FunctorList
<1>1. /\ todo[w] # <<>> /\ Op(w).do = "addFunctor"
      /\ UNCHANGED <<functors, outBuffer, delivered>>
      /\ fs' = Append(fs, h) /\ posted' = IF chat THEN posted + 1 ELSE posted
    BY DEF AddFunctor, Doing, Op, connVars, ServerOnly, clientVars, mainVars
<1>2. f \in NewFunctorSet
    BY <1>1, AtHead, OpKind DEF OrderInv, Inv
<1>3. /\ posted \in Nat /\ posted' \in Nat /\ posted <= posted'
      /\ functors \in Seq(FunctorSet) /\ fs \in Seq(FunctorSet)
      /\ \A i \in 1 .. Len(functors) : Num(functors[i]) \in Nat
      /\ \A i \in 1 .. Len(fs) : Num(fs[i]) \in Nat
      /\ \A c \in Conns : Had(c) \subseteq Nat
      /\ \A c \in Conns : \A i \in 1 .. Len(outBuffer[c]) : outBuffer[c][i].n \in Nat
    BY <1>1, Numbers DEF OrderInv
\* Either a number that nobody has had, or none.
<1>4. h \in FunctorSet /\ (Num(h) = 0 \/ (Num(h) = posted' /\ posted' = posted + 1))
    <2> HIDE DEF f
    <2>1. CASE chat
        <3>1. f \in [fn : {"all"}, m : PlainSet]
            BY <1>2, <2>1 DEF NewFunctorSet
        <3>2. h \in [fn : {"all"}, m : MessageSet] /\ h.m.n = posted'
            BY <1>3, <2>1, <3>1 DEF MessageSet, PlainSet
        <3> QED  BY <1>1, <2>1, <3>2 DEF FunctorSet, Num
    <2>2. CASE ~chat
        <3>1. h = f /\ f \in FunctorSet
            BY <1>2, <2>2 DEF FunctorSet
        <3>2. Num(f) = 0
            BY <1>2 DEF NewFunctorSet, PlainSet, Num
        <3> QED  BY <3>1, <3>2
    <2> QED  BY <2>1, <2>2
<1> HIDE DEF h, chat, f
<1>5. /\ Num(h) \in Nat /\ Num(h) <= posted'
      /\ \A k \in Nat : k <= posted /\ Num(h) # 0 => k < Num(h)
    BY <1>3, <1>4
<1>6. /\ Len(fs') = Len(fs) + 1 /\ fs'[Len(fs) + 1] = h /\ Len(fs) \in Nat
      /\ \A i \in 1 .. Len(fs) : fs'[i] = fs[i]
    BY <1>1, <1>3, <1>4, Appended, LenProperties
<1>7. \A i \in 1 .. Len(fs') : i \in 1 .. Len(fs) \/ i = Len(fs) + 1
    BY <1>6
<1>8. \A k \in Nat : k <= posted /\ Before(k, fs) => Before(k, fs')
    <2> SUFFICES ASSUME NEW k \in Nat, k <= posted, Before(k, fs), NEW i \in 1 .. Len(fs'),
                        Num(fs'[i]) # 0
                 PROVE  k < Num(fs'[i])
        BY DEF Before
    <2>1. CASE i \in 1 .. Len(fs)
        BY <1>6, <2>1 DEF Before
    <2>2. CASE i = Len(fs) + 1
        BY <1>5, <1>6, <2>2
    <2> QED  BY <1>7, <2>1, <2>2
<1>9. \A k \in Nat : Passed(k) => Passed(k)'
    <2> SUFFICES ASSUME NEW k \in Nat, Passed(k) PROVE Passed(k)'
        OBVIOUS
    <2>1. Before(k, functors) /\ Before(k, fs') /\ k <= posted'
        BY <1>3, <1>8 DEF Passed
    <2> QED  BY <1>1, <2>1 DEF Passed, Before, Num
<1>10. Rising(fs')
    <2> SUFFICES ASSUME NEW i \in 1 .. Len(fs'), NEW j \in 1 .. Len(fs'), i < j,
                        Num(fs'[i]) # 0, Num(fs'[j]) # 0
                 PROVE  Num(fs'[i]) < Num(fs'[j])
        BY DEF Rising
    <2>1. i \in 1 .. Len(fs) /\ fs'[i] = fs[i]
        BY <1>6
    <2>2. Num(fs[i]) \in Nat /\ Num(fs[i]) <= posted /\ Rising(fs)
        BY <1>3, <2>1 DEF OrderInv, Ordered, ListsRise
    <2>3. CASE j \in 1 .. Len(fs)
        BY <1>6, <2>1, <2>2, <2>3 DEF Rising
    <2>4. CASE j = Len(fs) + 1
        BY <1>5, <1>6, <2>1, <2>2, <2>4
    <2> QED  BY <1>7, <2>3, <2>4
<1>11. \A i \in 1 .. Len(fs') : Num(fs'[i]) <= posted'
    <2> SUFFICES ASSUME NEW i \in 1 .. Len(fs') PROVE Num(fs'[i]) <= posted'
        OBVIOUS
    <2>1. CASE i \in 1 .. Len(fs)
        <3>1. Num(fs[i]) \in Nat /\ Num(fs[i]) <= posted /\ fs'[i] = fs[i]
            BY <1>3, <1>6, <2>1 DEF OrderInv, Ordered, ListsRise
        <3> QED  BY <1>3, <3>1
    <2>2. CASE i = Len(fs) + 1
        BY <1>5, <1>6, <2>2
    <2> QED  BY <1>7, <2>1, <2>2
<1>12. \A i \in 1 .. Len(functors) :
           Num(functors[i]) <= posted' /\ Before(Num(functors[i]), fs')
    <2> SUFFICES ASSUME NEW i \in 1 .. Len(functors)
                 PROVE  Num(functors[i]) <= posted' /\ Before(Num(functors[i]), fs')
        OBVIOUS
    <2>1. /\ Num(functors[i]) \in Nat /\ Num(functors[i]) <= posted
          /\ Before(Num(functors[i]), fs)
        BY <1>3 DEF OrderInv, Ordered, ListsRise
    <2> HIDE DEF Num
    <2> QED  BY <1>3, <1>8, <2>1
<1>13. ListsRise'
    <2>1. Rising(functors)' /\ Rising(fs)'
        BY <1>1, <1>10 DEF OrderInv, Ordered, ListsRise, Rising, Num
    <2>2. (\A i \in 1 .. Len(functors) :
              Num(functors[i]) <= posted /\ Before(Num(functors[i]), fs))'
        BY <1>1, <1>12 DEF Before, Num
    <2>3. (\A i \in 1 .. Len(fs) : Num(fs[i]) <= posted)'
        BY <1>11 DEF Num
    <2> QED  BY <2>1, <2>2, <2>3 DEF ListsRise
<1>14. ASSUME NEW c \in Conns PROVE BufferRises(c)'
    <2>1. /\ \A i \in 1 .. Len(outBuffer[c]) : Passed(outBuffer[c][i].n)
          /\ \A k \in Had(c) : Passed(k)
        BY DEF OrderInv, Ordered, BufferRises
    <2>2. \A k : k \in Had(c) => Passed(k)'
        BY <1>3, <1>9, <2>1
    <2>3. \A k : (\E i \in 1 .. Len(outBuffer[c]) : k = outBuffer[c][i].n) => Passed(k)'
        BY <1>3, <1>9, <2>1
    <2>4. (\A i \in 1 .. Len(outBuffer[c]) : Passed(outBuffer[c][i].n))'
        <3>1. \A i \in 1 .. Len(outBuffer[c]) : \A k : k = outBuffer[c][i].n => Passed(k)'
            BY <2>3
        <3> QED  BY <1>1, <3>1 DEF Passed
    <2>5. (\A k \in Had(c) : Passed(k))'
        BY <1>1, <2>2 DEF Had
    <2> QED  BY <1>1, <2>4, <2>5
             DEF OrderInv, Ordered, BufferRises, RisingMessages, RisingNumbers, Had
<1> QED  BY <1>13, <1>14 DEF Ordered

\* The first k elements of a sequence.
LEMMA Taken ==
    ASSUME NEW s \in Seq(MessageSet), NEW k \in 0 .. Len(s)
    PROVE  /\ DOMAIN SubSeq(s, 1, k) = 1 .. k
           /\ \A i \in 1 .. k : SubSeq(s, 1, k)[i] = s[i] /\ i \in 1 .. Len(s)
<1> DEFINE got == SubSeq(s, 1, k)
<1>1. Len(s) \in Nat /\ k \in Nat /\ 1 \in Nat
    BY LenProperties
<1>2. \A i \in 1 .. k : i \in 1 .. Len(s) /\ s[i] \in MessageSet
    BY <1>1, ElementOfSeq
<1>3. /\ got \in Seq(MessageSet)
      /\ Len(got) = IF 1 <= k THEN (k - 1) + 1 ELSE 0
      /\ \A i \in 1 .. (k - 1) + 1 : got[i] = s[(1 + i) - 1]
    BY <1>1, <1>2, SubSeqProperties
<1>4. DOMAIN got = 1 .. Len(got)
    BY <1>3, LenProperties
<1> HIDE DEF got
<1>5. Len(got) = k /\ (k - 1) + 1 = k /\ \A i \in 1 .. k : (1 + i) - 1 = i
    BY <1>1, <1>3
<1> QED  BY <1>2, <1>3, <1>4, <1>5 DEF got

\* What is delivered: the numbers ns, and then those of the messages got.
LEMMA Received ==
    ASSUME NEW ns \in Seq(Nat), NEW got \in Seq(MessageSet),
           NEW all, all = ns \o [i \in DOMAIN got |-> got[i].n]
    PROVE  /\ Len(all) = Len(ns) + Len(got) /\ Len(ns) \in Nat /\ Len(got) \in Nat
           /\ DOMAIN all = 1 .. Len(all)
           /\ \A i \in 1 .. Len(ns) : all[i] = ns[i]
           /\ \A i \in 1 .. Len(got) : all[Len(ns) + i] = got[i].n
           /\ \A i \in 1 .. Len(all) :
                 \/ i \in 1 .. Len(ns) /\ all[i] = ns[i]
                 \/ i - Len(ns) \in 1 .. Len(got) /\ all[i] = got[i - Len(ns)].n
<1> DEFINE new == [i \in DOMAIN got |-> got[i].n]
<1>1. Len(ns) \in Nat /\ Len(got) \in Nat /\ DOMAIN got = 1 .. Len(got)
    BY LenProperties
<1>2. \A i \in 1 .. Len(got) : got[i].n \in Nat
    <2>1. \A i \in 1 .. Len(got) : got[i] \in MessageSet
        BY ElementOfSeq
    <2> QED  BY <2>1 DEF MessageSet
<1>3. new \in [1 .. Len(got) -> Nat]
    BY <1>1, <1>2
<1>4. new \in Seq(Nat) /\ DOMAIN new = 1 .. Len(got)
    BY <1>1, <1>3, SeqDef
<1>5. Len(new) = Len(got)
    BY <1>1, <1>4, LenProperties
<1>6. \A i \in 1 .. Len(got) : new[i] = got[i].n
    BY <1>1
<1> HIDE DEF new
<1>7. all = ns \o new
    BY DEF new
<1>8. /\ all \in Seq(Nat) /\ Len(all) = Len(ns) + Len(new)
      /\ \A i \in 1 .. Len(ns) + Len(new) :
            all[i] = IF i <= Len(ns) THEN ns[i] ELSE new[i - Len(ns)]
    BY <1>4, <1>7, ConcatProperties
<1>9. DOMAIN all = 1 .. Len(all)
    BY <1>8, LenProperties
<1>10. \A i \in 1 .. Len(ns) : i \in 1 .. Len(ns) + Len(got) /\ i <= Len(ns)
    BY <1>1
<1>11. \A i \in 1 .. Len(got) : /\ Len(ns) + i \in 1 .. Len(ns) + Len(got)
                                /\ ~(Len(ns) + i <= Len(ns)) /\ (Len(ns) + i) - Len(ns) = i
    BY <1>1
<1>12. \A i \in 1 .. Len(ns) + Len(got) : i \in 1 .. Len(ns) \/ i - Len(ns) \in 1 .. Len(got)
    BY <1>1
<1>13. \A i \in 1 .. Len(ns) : all[i] = ns[i]
    BY <1>5, <1>8, <1>10
<1>14. \A i \in 1 .. Len(got) : all[Len(ns) + i] = got[i].n
    BY <1>5, <1>6, <1>8, <1>11
<1>15. \A i \in 1 .. Len(ns) + Len(got) :
           i - Len(ns) \in 1 .. Len(got) => all[i] = got[i - Len(ns)].n
    <2> SUFFICES ASSUME NEW i \in 1 .. Len(ns) + Len(got), i - Len(ns) \in 1 .. Len(got)
                 PROVE  all[i] = got[i - Len(ns)].n
        OBVIOUS
    <2>1. Len(ns) + (i - Len(ns)) = i
        BY <1>1
    <2> QED  BY <1>14, <2>1
<1> QED  BY <1>1, <1>5, <1>8, <1>9, <1>12, <1>13, <1>14, <1>15

\* What is written leaves the buffer at its front: the first k messages in the buffer
\* of connection c go to its client.
LEMMA WriteOrder ==
    ASSUME OrderInv, NEW c \in Conns, UNCHANGED <<functors, m_FunctorList, posted>>,
           NEW k \in 0 .. Len(outBuffer[c]),
           outBuffer' = [outBuffer EXCEPT ![c] = SubSeq(@, k + 1, Len(outBuffer[c]))],
           Receive(c, SubSeq(outBuffer[c], 1, k))
    PROVE  Ordered'
<1> DEFINE b == outBuffer[c]
           n == Len(b)
           rest == SubSeq(b, k + 1, n)
           got == SubSeq(b, 1, k)
           ns == delivered[c]
           all == delivered'[c]
<1>1. /\ b \in Seq(MessageSet) /\ n \in Nat /\ k \in 0 .. n /\ \A i \in 1 .. n : b[i].n \in Nat
      /\ ns \in Seq(Nat) /\ Had(c) \subseteq Nat
    BY Numbers, LenProperties DEF OrderInv
<1>2. ListsRise' /\ \A d : Passed(d) => Passed(d)'
    BY DEF OrderInv, Ordered, ListsRise, Rising, Passed, Before, Num
<1>3. /\ outBuffer \in [Conns -> Seq(MessageSet)] /\ delivered \in [Conns -> Seq(Nat)]
      /\ delivered' = [delivered EXCEPT ![c] = @ \o [i \in DOMAIN got |-> got[i].n]]
    BY Types DEF Receive, OrderInv
<1>4. /\ outBuffer'[c] = rest
      /\ all = ns \o [i \in DOMAIN got |-> got[i].n]
      /\ \A d \in Conns \ {c} : outBuffer'[d] = outBuffer[d] /\ delivered'[d] = delivered[d]
    BY <1>3
<1> HIDE DEF b
<1>5. /\ Len(rest) = n - k /\ \A i \in 1 .. n - k : rest[i] = b[k + i]
      /\ got \in Seq(MessageSet) /\ Len(got) = k /\ \A i \in 1 .. k : got[i] = b[i]
    <2>1. k \in Nat /\ n \in Nat /\ k + 1 \in Nat
          /\ \A i \in (k + 1) .. n : b[i] \in MessageSet
        BY <1>1, ElementOfSeq
    <2>2. /\ Len(rest) = IF k + 1 <= n THEN (n - (k + 1)) + 1 ELSE 0
          /\ \A i \in 1 .. (n - (k + 1)) + 1 : rest[i] = b[((k + 1) + i) - 1]
        BY <2>1, SubSeqProperties
    <2>3. got \in Seq(MessageSet)
        BY <1>1, Written
    <2> HIDE DEF rest, n
    <2>4. /\ Len(rest) = n - k /\ (n - (k + 1)) + 1 = n - k
          /\ \A i \in 1 .. n - k : ((k + 1) + i) - 1 = k + i
        BY <1>1, <2>1, <2>2
    <2>5. DOMAIN got = 1 .. k /\ \A i \in 1 .. k : got[i] = b[i]
        BY <1>1, Taken DEF n
    <2>6. DOMAIN got = 1 .. Len(got) /\ Len(got) \in Nat
        BY <2>3, LenProperties
    <2> HIDE DEF got
    <2>7. Len(got) = k
        BY <2>1, <2>5, <2>6
    <2> QED  BY <2>2, <2>3, <2>4, <2>5, <2>7
<1> HIDE DEF rest, got, n, ns, all
<1>6. \A i \in 1 .. Len(rest) : k + i \in 1 .. n /\ rest[i] = b[k + i]
    BY <1>1, <1>5
<1>7. /\ Len(all) = Len(ns) + k /\ Len(ns) \in Nat
      /\ \A i \in 1 .. Len(all) :
            \/ i \in 1 .. Len(ns) /\ all[i] = ns[i]
            \/ i - Len(ns) \in 1 .. k /\ all[i] = b[i - Len(ns)].n
    <2>1. /\ Len(all) = Len(ns) + Len(got) /\ Len(ns) \in Nat
          /\ \A i \in 1 .. Len(all) :
                \/ i \in 1 .. Len(ns) /\ all[i] = ns[i]
                \/ i - Len(ns) \in 1 .. Len(got) /\ all[i] = got[i - Len(ns)].n
        BY <1>1, <1>4, <1>5, Received
    <2> QED  BY <1>5, <2>1
<1>8. 1 .. k \subseteq 1 .. n
    BY <1>1
<1>9. /\ RisingNumbers(ns) /\ RisingMessages(b) /\ \A i \in 1 .. n : Passed(b[i].n)
      /\ \A i \in 1 .. Len(ns) : ns[i] \in Nat /\ Passed(ns[i])
      /\ \A j \in 1 .. Len(ns), i \in 1 .. n : b[i].n # 0 => ns[j] < b[i].n
    BY <1>1 DEF OrderInv, Ordered, BufferRises, Had, b, n, ns
<1>10. \A i \in 1 .. Len(all) : Passed(all[i])
    BY <1>7, <1>8, <1>9
<1>11. \A d : (\E i \in 1 .. Len(rest) : d = rest[i].n) => Passed(d)'
    BY <1>2, <1>6, <1>9
<1>12. RisingMessages(rest)
    <2> SUFFICES ASSUME NEW i \in 1 .. Len(rest), NEW j \in 1 .. Len(rest), i < j,
                        rest[i].n # 0, rest[j].n # 0
                 PROVE  rest[i].n < rest[j].n
        BY DEF RisingMessages
    <2>1. k + i < k + j /\ k + i \in 1 .. n /\ k + j \in 1 .. n
        BY <1>1, <1>5, <1>6
    <2>2. rest[i] = b[k + i] /\ rest[j] = b[k + j]
        BY <1>6
    <2> QED  BY <1>9, <2>1, <2>2 DEF RisingMessages, n
\* Two messages of one write, or one of this and one of an earlier write.
<1>13. RisingNumbers(all)
    <2> SUFFICES ASSUME NEW i \in 1 .. Len(all), NEW j \in 1 .. Len(all), i < j,
                        all[i] # 0, all[j] # 0
                 PROVE  all[i] < all[j]
        BY DEF RisingNumbers
    <2>1. CASE j \in 1 .. Len(ns) /\ all[j] = ns[j]
        <3>1. i \in 1 .. Len(ns) /\ all[i] = ns[i]
            <4>1. ~(i - Len(ns) \in 1 .. k)
                BY <1>1, <1>7, <2>1
            <4> QED  BY <1>7, <4>1
        <3> QED  BY <1>9, <2>1, <3>1 DEF RisingNumbers
    <2>2. CASE j - Len(ns) \in 1 .. k /\ all[j] = b[j - Len(ns)].n
        <3>1. j - Len(ns) \in 1 .. n
            BY <1>8, <2>2
        <3>2. CASE i \in 1 .. Len(ns) /\ all[i] = ns[i]
            BY <1>9, <2>2, <3>1, <3>2
        <3>3. CASE i - Len(ns) \in 1 .. k /\ all[i] = b[i - Len(ns)].n
            <4>1. i - Len(ns) \in 1 .. n /\ i - Len(ns) < j - Len(ns)
                BY <1>7, <1>8, <3>3
            <4> QED  BY <1>9, <2>2, <3>1, <3>3, <4>1 DEF RisingMessages, n
        <3> QED  BY <1>7, <3>2, <3>3
    <2> QED  BY <1>7, <2>1, <2>2
<1>14. ASSUME NEW d \in 1 .. Len(all), NEW i \in 1 .. Len(rest), rest[i].n # 0
       PROVE  all[d] < rest[i].n
    <2>1. k + i \in 1 .. n /\ rest[i] = b[k + i]
        BY <1>6
    <2>2. CASE d \in 1 .. Len(ns) /\ all[d] = ns[d]
        BY <1>9, <1>14, <2>1, <2>2
    <2>3. CASE d - Len(ns) \in 1 .. k /\ all[d] = b[d - Len(ns)].n
        <3>1. PICK j \in 1 .. k : j = d - Len(ns)
            BY <2>3
        <3>2. j < k + i /\ j \in 1 .. n
            BY <1>1, <1>5, <1>8, <3>1
        <3>3. b[j].n \in Nat /\ b[k + i].n \in Nat /\ b[k + i].n # 0
            BY <1>1, <1>14, <2>1, <3>2
        <3>4. b[j].n # 0 => b[j].n < b[k + i].n
            BY <1>9, <2>1, <3>2, <3>3 DEF RisingMessages, n
        <3>5. b[j].n < b[k + i].n
            BY <3>3, <3>4
        <3> QED  BY <2>1, <2>3, <3>1, <3>5
    <2> QED  BY <1>7, <2>2, <2>3
<1>15. BufferRises(c)'
    <2>1. (\A i \in 1 .. Len(outBuffer[c]) : Passed(outBuffer[c][i].n))'
        <3>1. \A i \in 1 .. Len(outBuffer'[c]) : \A d : d = outBuffer'[c][i].n => Passed(d)'
            BY <1>4, <1>11
        <3> QED  BY <3>1 DEF Passed
    <2>2. (\A d \in Had(c) : Passed(d))'
        <3>1. \A i \in 1 .. Len(delivered'[c]) : \A d : d = delivered'[c][i] => Passed(d)'
            BY <1>2, <1>10 DEF all
        <3>2. \A d \in Had(c)' : Passed(d)'
            BY <3>1 DEF Had
        <3> QED  BY <3>2
    <2>3. RisingNumbers(delivered[c])' /\ RisingMessages(outBuffer[c])'
        BY <1>4, <1>12, <1>13 DEF RisingNumbers, RisingMessages, all
    <2>4. (\A d \in Had(c), i \in 1 .. Len(outBuffer[c]) :
              outBuffer[c][i].n # 0 => d < outBuffer[c][i].n)'
        BY <1>4, <1>14 DEF Had, all
    <2> QED  BY <2>1, <2>2, <2>3, <2>4 DEF BufferRises
<1>16. ASSUME NEW d \in Conns \ {c} PROVE BufferRises(d)'
    <2>1. outBuffer'[d] = outBuffer[d] /\ delivered'[d] = delivered[d] /\ BufferRises(d)
        BY <1>4 DEF OrderInv, Ordered
    <2> QED  BY <1>2, <2>1 DEF BufferRises, RisingMessages, RisingNumbers, Had
<1> QED  BY <1>2, <1>15, <1>16 DEF Ordered

LEMMA SendOrder == ASSUME OrderInv, NEW w \in Workers, Send(w) PROVE Ordered'
<1> DEFINE c == Op(w).c
           b == outBuffer[c]
           n == Len(b)
<1>1. /\ c \in Conns /\ UNCHANGED <<functors, m_FunctorList, posted>>
    BY AtHead, OpKind DEF OrderInv, Inv, Send, Doing, Op, mainVars
<1>2. b \in Seq(MessageSet) /\ n \in Nat /\ \A i \in 1 .. n : b[i].n \in Nat
    BY <1>1, Numbers, LenProperties DEF OrderInv
<1>3. CASE UNCHANGED <<outBuffer, delivered>>
    BY <1>1, <1>3, SameMessages DEF OrderInv
<1>4. ASSUME NEW k \in 0 .. n,
             outBuffer' = [outBuffer EXCEPT ![c] = SubSeq(@, k + 1, n)],
             Receive(c, SubSeq(b, 1, k))
      PROVE  Ordered'
    BY <1>1, <1>4, WriteOrder
<1>5. \/ UNCHANGED <<outBuffer, delivered>>
      \/ \E k \in 0 .. n : /\ outBuffer' = [outBuffer EXCEPT ![c] = SubSeq(@, k + 1, n)]
                           /\ Receive(c, SubSeq(b, 1, k))
    <2>1. (IF SlowPeers THEN 0 ELSE n) .. n \subseteq 0 .. n
        BY <1>2
    <2> QED  BY <2>1 DEF Send
<1> QED  BY <1>3, <1>4, <1>5

-----------------------------------------------------------------------------

LEMMA InitOrder == Init => Ordered
<1> SUFFICES ASSUME Init PROVE Ordered
    OBVIOUS
<1>1. Len(<<>>) = 0
    BY EmptySeq
<1>2. ListsRise
    BY <1>1 DEF Init, ListsRise, Rising
<1>3. ASSUME NEW c \in Conns PROVE BufferRises(c)
    <2>1. outBuffer[c] = <<>> /\ delivered[c] = <<>>
        BY DEF Init
    <2> QED  BY <1>1, <2>1 DEF BufferRises, RisingMessages, RisingNumbers, Had
<1> QED  BY <1>2, <1>3 DEF Ordered

LEMMA StepOrder == ASSUME OrderInv, [Next]_vars PROVE Ordered'
<1> USE DEF connVars, clientVars, mainVars
<1>1. CASE UNCHANGED vars
    BY <1>1, SameMessages DEF vars, OrderInv
<1>2. ASSUME NEW kind, Undefined(kind) PROVE Ordered'
    BY <1>2, SameMessages DEF Undefined, OrderInv
<1>3. CASE Wait \/ \E e \in events : HandleEvent(e)
    BY <1>3, SameMessages DEF Wait, HandleEvent, OrderInv
<1>4. CASE MainStep
    BY <1>2, <1>3, <1>4, SwapOrder, RunFunctorOrder
       DEF MainStep, HandleFreed, RunFunctorUndefined
<1>5. ASSUME NEW w \in Workers,
             TakeJob(w) \/ Read(w) \/ Lookup(w) \/ PutOnline(w) \/ AskSize(w) \/ ModEvents(w)
      PROVE  Ordered'
    <2>1. UNCHANGED <<functors, m_FunctorList, posted, outBuffer, delivered>>
        BY <1>5 DEF TakeJob, Read, Lookup, PutOnline, AskSize, ModEvents, ServerOnly
    <2> QED  BY <2>1, SameMessages DEF OrderInv
<1>6. ASSUME NEW w \in Workers, WorkerStep(w) PROVE Ordered'
    BY <1>5, <1>6, AddFunctorOrder, SendOrder DEF WorkerStep
<1>7. ASSUME NEW w \in Workers, WorkerUndefined(w) PROVE Ordered'
    BY <1>2, <1>7 DEF WorkerUndefined
<1>8. CASE RaceUndefined
    BY <1>2, <1>8 DEF RaceUndefined
<1>9. ASSUME NEW c \in Conns, ClientStep(c) PROVE Ordered'
    <2>1. ClientOnly
        BY <1>9, ClientChanges DEF ClientChange, OrderInv, Inv
    <2> QED  BY <2>1, SameMessages DEF ClientOnly, OrderInv
<1>10. CASE Elapse
    BY <1>10, SameMessages DEF Elapse, OrderInv
<1> QED  BY <1>1, <1>4, <1>6, <1>7, <1>8, <1>9, <1>10 DEF Next

LEMMA OrderAlways == Spec => []OrderInv
<1>1. Init => OrderInv
    BY InitInv, InitOrder DEF OrderInv
<1>2. OrderInv /\ [Next]_vars => OrderInv'
    BY StepInv, StepOrder DEF OrderInv
<1> QED  BY <1>1, <1>2, PTL DEF Spec

\* The numbers of the chat messages that a client has received are strictly increasing:
\* it receives them in the order the server took them, and none twice, through
\* addFunctor, the swap of doPendingFunctors, appendOutBuffer and the partial writes of
\* sendResponseInfo, within one write and from one to the next.
THEOREM MessagesInOrder == Spec => []InOrder
<1>1. OrderInv => InOrder
    <2> SUFFICES ASSUME OrderInv, NEW c \in Conns,
                        NEW i \in DOMAIN delivered[c], NEW j \in DOMAIN delivered[c], i < j,
                        delivered[c][i] # 0, delivered[c][j] # 0
                 PROVE  delivered[c][i] < delivered[c][j]
        BY DEF InOrder
    <2>1. DOMAIN delivered[c] = 1 .. Len(delivered[c])
        BY Numbers, LenProperties DEF OrderInv
    <2>2. RisingNumbers(delivered[c])
        BY DEF OrderInv, Ordered, BufferRises
    <2> QED  BY <2>1, <2>2 DEF RisingNumbers
<1> QED  BY <1>1, OrderAlways, PTL

-----------------------------------------------------------------------------
(***************************************************************************)
(* Nobody who is online misses a chat message.                             *)
(***************************************************************************)

\* The number n is that of a functor for everybody on list fs.
OnList(n, fs) == \E i \in 1 .. Len(fs) : fs[i].fn = "all" /\ n = fs[i].m.n

\* The chat messages that were broadcast are those posted that are on neither list.
LEMMA BroadcastIs ==
    ASSUME functors \in Seq(FunctorSet), m_FunctorList \in Seq(FunctorSet), NEW n
    PROVE  n \in Broadcast <=>
               n \in 1 .. posted /\ ~OnList(n, functors) /\ ~OnList(n, m_FunctorList)
<1> DEFINE fs == functors
           gs == m_FunctorList
           pending == fs \o gs
<1>1. /\ pending \in Seq(FunctorSet) /\ Len(pending) = Len(fs) + Len(gs)
      /\ \A i \in 1 .. Len(fs) + Len(gs) :
             pending[i] = IF i <= Len(fs) THEN fs[i] ELSE gs[i - Len(fs)]
    BY ConcatProperties
<1>2. Len(fs) \in Nat /\ Len(gs) \in Nat /\ DOMAIN pending = 1 .. Len(pending)
    BY <1>1, LenProperties
<1>3. n \in Broadcast <=>
          n \in 1 .. posted /\ ~\E i \in DOMAIN pending :
                                    pending[i].fn = "all" /\ n = pending[i].m.n
    BY DEF Broadcast
<1> HIDE DEF pending
<1>4. (\E i \in DOMAIN pending : pending[i].fn = "all" /\ n = pending[i].m.n)
          <=> OnList(n, fs) \/ OnList(n, gs)
    <2>1. ASSUME NEW i \in 1 .. Len(fs)
          PROVE  i \in DOMAIN pending /\ pending[i] = fs[i]
        BY <1>1, <1>2
    <2>2. ASSUME NEW i \in 1 .. Len(gs)
          PROVE  Len(fs) + i \in DOMAIN pending /\ pending[Len(fs) + i] = gs[i]
        <3>1. /\ Len(fs) + i \in 1 .. Len(fs) + Len(gs) /\ ~(Len(fs) + i <= Len(fs))
              /\ (Len(fs) + i) - Len(fs) = i
            BY <1>2
        <3> QED  BY <1>1, <1>2, <3>1
    <2>3. ASSUME NEW i \in DOMAIN pending
          PROVE  \/ i \in 1 .. Len(fs) /\ pending[i] = fs[i]
                 \/ i - Len(fs) \in 1 .. Len(gs) /\ pending[i] = gs[i - Len(fs)]
        BY <1>1, <1>2
    <2> HIDE DEF fs, gs
    <2> QED  BY <2>1, <2>2, <2>3 DEF OnList
<1> QED  BY <1>3, <1>4

\* The same of the state that a step leaves.
BroadcastKnown ==
    \A n : n \in Broadcast <=>
               n \in 1 .. posted /\ ~OnList(n, functors) /\ ~OnList(n, m_FunctorList)

LEMMA BroadcastBoth == (Inv => BroadcastKnown) /\ (Inv' => BroadcastKnown')
<1>1. Inv => BroadcastKnown
    BY BroadcastIs, Numbers DEF BroadcastKnown
<1> QED  BY <1>1, PTL

\* What StayersHearAll says of connection c.
Keeps(c)  == status'[c] = "open" => Heard(c) \subseteq Heard(c)'
Misses(c) == c \in OnlineConns /\ ~(Broadcast' \ Broadcast \subseteq Heard(c)')
Hears(c)  == Keeps(c) /\ ~Misses(c)

LEMMA NothingBroadcast ==
    ASSUME UNCHANGED <<functors, m_FunctorList, posted>>
    PROVE  Broadcast' = Broadcast
BY DEF Broadcast

LEMMA NothingHeard ==
    ASSUME NEW c \in Conns, UNCHANGED <<outBuffer, delivered>>
    PROVE  Heard(c)' = Heard(c)
BY DEF Heard, Unsent

LEMMA SameHears ==
    ASSUME NEW c \in Conns, UNCHANGED <<functors, m_FunctorList, posted, outBuffer, delivered>>
    PROVE  Hears(c)
BY NothingBroadcast, NothingHeard DEF Hears, Keeps, Misses

\* The swap moves the numbers from one list to the other.
LEMMA SwapHears == ASSUME OrderInv, OrderInv', NEW c \in Conns, Swap PROVE Hears(c)
<1>1. /\ functors = <<>> /\ functors' = m_FunctorList /\ m_FunctorList' = <<>>
      /\ UNCHANGED <<posted, outBuffer, delivered>>
    BY DEF Swap, OrderInv, Inv, Typed, MainOrder, connVars, clientVars
<1>2. \A n : ~OnList(n, <<>>)
    BY EmptySeq DEF OnList
<1>3. ASSUME NEW n PROVE n \in Broadcast' => n \in Broadcast
    <2>1. BroadcastKnown /\ BroadcastKnown'
        BY BroadcastBoth DEF OrderInv
    <2> QED  BY <1>1, <1>2, <2>1 DEF BroadcastKnown
<1> QED  BY <1>1, <1>3, NothingHeard DEF Hears, Keeps, Misses

\* The number of a message that is posted now is on the list.
LEMMA AddFunctorHears ==
    ASSUME OrderInv, OrderInv', NEW c \in Conns, NEW w \in Workers, AddFunctor(w)
    PROVE  Hears(c)
<1> DEFINE f == Op(w).f
           chat == f.fn = "all" /\ f.m.kind = "SEND"
           h == IF chat THEN [f EXCEPT !.m.n = posted'] ELSE f
           fs == m_FunctorList
<1>1. /\ todo[w] # <<>> /\ Op(w).do = "addFunctor"
      /\ UNCHANGED <<functors, outBuffer, delivered>>
      /\ fs' = Append(fs, h) /\ posted' = IF chat THEN posted + 1 ELSE posted
    BY DEF AddFunctor, Doing, Op, connVars, ServerOnly, clientVars, mainVars
<1>2. f \in NewFunctorSet
    BY <1>1, AtHead, OpKind DEF OrderInv, Inv
<1>3. posted \in Nat /\ posted' \in Nat /\ fs \in Seq(FunctorSet)
    BY <1>1, Numbers DEF OrderInv
<1>4. h \in FunctorSet /\ (chat => h.fn = "all" /\ h.m.n = posted')
    <2> HIDE DEF f
    <2>1. CASE chat
        <3>1. f \in [fn : {"all"}, m : PlainSet]
            BY <1>2, <2>1 DEF NewFunctorSet
        <3>2. h \in [fn : {"all"}, m : MessageSet] /\ h.m.n = posted'
            BY <1>3, <2>1, <3>1 DEF MessageSet, PlainSet
        <3> QED  BY <3>2 DEF FunctorSet
    <2> QED  BY <1>2, <2>1 DEF FunctorSet
<1> HIDE DEF h, f
<1>5. /\ \A i \in 1 .. Len(fs) : i \in 1 .. Len(fs') /\ fs'[i] = fs[i]
      /\ Len(fs) + 1 \in 1 .. Len(fs') /\ fs'[Len(fs) + 1] = h
    BY <1>1, <1>3, <1>4, Appended
<1>6. \A n : OnList(n, fs) => OnList(n, fs')
    BY <1>5 DEF OnList
<1>7. chat => OnList(posted', fs')
    BY <1>4, <1>5 DEF OnList
<1>8. ASSUME NEW n, n \in Broadcast' PROVE n \in Broadcast
    <2>1. BroadcastKnown /\ BroadcastKnown'
        BY BroadcastBoth DEF OrderInv
    <2>2. n \in 1 .. posted' /\ ~OnList(n, functors) /\ ~OnList(n, fs')
        BY <1>1, <1>8, <2>1 DEF BroadcastKnown
    <2>3. n \in 1 .. posted
        <3> HIDE DEF chat
        <3>1. CASE chat
            BY <1>1, <1>3, <1>7, <2>2, <3>1
        <3>2. CASE ~chat
            BY <1>1, <2>2, <3>2
        <3> QED  BY <3>1, <3>2
    <2> QED  BY <1>6, <2>1, <2>2, <2>3 DEF BroadcastKnown
<1> QED  BY <1>1, <1>8, NothingHeard DEF Hears, Keeps, Misses

\* What is appended to an output buffer takes nothing away from it.
LEMMA AppendHears ==
    ASSUME OrderInv, OrderInv', NEW c \in Conns, NEW m \in MessageSet,
           outBuffer'[c] = Append(outBuffer[c], m), UNCHANGED delivered
    PROVE  Heard(c) \subseteq Heard(c)' /\ (m.n # 0 => m.n \in Heard(c)')
<1> DEFINE b == outBuffer[c]
           b1 == outBuffer'[c]
<1>1. b \in Seq(MessageSet) /\ b1 \in Seq(MessageSet)
    <2>1. outBuffer \in [Conns -> Seq(MessageSet)] /\ outBuffer' \in [Conns -> Seq(MessageSet)]
        BY DEF OrderInv, Inv, Typed, ClientTypes
    <2> QED  BY <2>1
<1>2. DOMAIN b = 1 .. Len(b) /\ DOMAIN b1 = 1 .. Len(b1)
    BY <1>1, LenProperties
<1>3. /\ \A i \in 1 .. Len(b) : i \in 1 .. Len(b1) /\ b1[i] = b[i]
      /\ Len(b) + 1 \in 1 .. Len(b1) /\ b1[Len(b) + 1] = m
    BY <1>1, Appended
<1>4. /\ Heard(c) = (ToSet(delivered[c]) \union {b[i].n : i \in DOMAIN b}) \ {0}
      /\ Heard(c)' = (ToSet(delivered[c]) \union {b1[i].n : i \in DOMAIN b1}) \ {0}
    BY DEF Heard, Unsent
<1> HIDE DEF b, b1
<1> QED  BY <1>2, <1>3, <1>4

\* Only the message of the functor that has run is broadcast by it.
LEMMA RunBroadcasts ==
    ASSUME OrderInv, OrderInv', main = "run", Running, NEW n \in Broadcast' \ Broadcast
    PROVE  Functor.fn = "all" /\ n = Functor.m.n /\ n # 0
<1>1. /\ functors # <<>> /\ functors \in Seq(FunctorSet) /\ Functor = functors[1]
      /\ functors' = Tail(functors) /\ UNCHANGED <<m_FunctorList, posted>>
    BY Ran, Numbers DEF OrderInv, Running
<1>2. \A i \in 2 .. Len(functors) : i - 1 \in 1 .. Len(functors')
                                   /\ functors'[i - 1] = functors[i]
    BY <1>1, HeadTail
<1>3. BroadcastKnown /\ BroadcastKnown'
    BY BroadcastBoth DEF OrderInv
<1>4. n \in 1 .. posted /\ ~OnList(n, functors') /\ OnList(n, functors)
    BY <1>1, <1>3 DEF BroadcastKnown
<1>5. PICK i \in 1 .. Len(functors) : functors[i].fn = "all" /\ n = functors[i].m.n
    BY <1>4 DEF OnList
<1>6. i = 1
    <2>1. i \notin 2 .. Len(functors)
        <3> SUFFICES ASSUME i \in 2 .. Len(functors) PROVE OnList(n, functors')
            BY <1>4
        <3>1. i - 1 \in 1 .. Len(functors') /\ functors'[i - 1] = functors[i]
            BY <1>2
        <3> QED  BY <1>5, <3>1 DEF OnList
    <2>2. Len(functors) \in Nat
        BY <1>1, LenProperties
    <2> QED  BY <2>1, <2>2
<1>7. n # 0
    BY <1>4
<1> QED  BY <1>1, <1>5, <1>6, <1>7

LEMMA RunFunctorHears ==
    ASSUME OrderInv, OrderInv', NEW c \in Conns, RunFunctor
    PROVE  Hears(c)
<1>1. main = "run" /\ Running /\ UNCHANGED delivered
    BY DEF RunFunctor, SendTextToOneUser_, SendTextToAllUser, RemoveOnlineUser, CloseFunctor,
           Running, clientVars
<1>2. Functor \in FunctorSet
    BY <1>1, Ran DEF OrderInv
<1>3. Functor.fn \in {"one", "all"} => Functor.m \in MessageSet
    BY <1>2, FunctorKind
<1>4. ASSUME Functor.fn # "all" PROVE ~Misses(c)
    BY <1>1, <1>4, RunBroadcasts DEF Misses
<1>5. CASE SendTextToOneUser_
    <2>1. Functor.fn = "one" /\ SendTo({Functor.c}, Functor.m)
        BY <1>5 DEF SendTextToOneUser_
    <2>2. \/ outBuffer'[c] = Append(outBuffer[c], Functor.m)
          \/ outBuffer'[c] = outBuffer[c]
        BY <2>1 DEF SendTo
    <2>3. Keeps(c)
        <3>1. CASE outBuffer'[c] = Append(outBuffer[c], Functor.m)
            BY <1>1, <1>3, <2>1, <3>1, AppendHears DEF Keeps
        <3> QED  BY <1>1, <2>2, <3>1 DEF Keeps, Heard, Unsent
    <2> QED  BY <1>4, <2>1, <2>3 DEF Hears
<1>6. ASSUME NEW p, SendTextToAllUser(p) PROVE Hears(c)
    <2>1. Functor.fn = "all" /\ SendTo(OnlineConns, Functor.m)
        BY <1>6 DEF SendTextToAllUser, OnlineConns
    <2>2. outBuffer'[c] = IF c \in OnlineConns THEN Append(outBuffer[c], Functor.m)
                          ELSE outBuffer[c]
        BY <2>1 DEF SendTo
    <2>3. CASE c \in OnlineConns
        <3>1. Heard(c) \subseteq Heard(c)' /\ (Functor.m.n # 0 => Functor.m.n \in Heard(c)')
            BY <1>1, <1>3, <2>1, <2>2, <2>3, AppendHears
        <3>2. \A n \in Broadcast' \ Broadcast : n \in Heard(c)'
            BY <1>1, <3>1, RunBroadcasts
        <3> QED  BY <3>1, <3>2 DEF Hears, Keeps, Misses
    <2>4. CASE c \notin OnlineConns
        BY <1>1, <2>2, <2>4 DEF Hears, Keeps, Misses, Heard, Unsent
    <2> QED  BY <2>3, <2>4
<1>7. CASE RemoveOnlineUser \/ CloseFunctor
    <2>1. Functor.fn # "all" /\ UNCHANGED outBuffer
        BY <1>7 DEF RemoveOnlineUser, CloseFunctor
    <2> QED  BY <1>1, <1>4, <2>1 DEF Hears, Keeps, Heard, Unsent
<1> QED  BY <1>5, <1>6, <1>7 DEF RunFunctor

\* What a write takes from the output buffer the client has.
LEMMA WriteHears ==
    ASSUME OrderInv, NEW c \in Conns, NEW d \in Conns, NEW k \in 0 .. Len(outBuffer[d]),
           outBuffer' = [outBuffer EXCEPT ![d] = SubSeq(@, k + 1, Len(outBuffer[d]))],
           Receive(d, SubSeq(outBuffer[d], 1, k))
    PROVE  Heard(c) \subseteq Heard(c)'
<1> DEFINE b == outBuffer[d]
           n == Len(b)
           rest == SubSeq(b, k + 1, n)
           got == SubSeq(b, 1, k)
           ns == delivered[d]
           all == delivered'[d]
<1>1. b \in Seq(MessageSet) /\ n \in Nat /\ k \in 0 .. n /\ DOMAIN b = 1 .. n
      /\ ns \in Seq(Nat) /\ DOMAIN ns = 1 .. Len(ns) /\ Len(ns) \in Nat
    BY Numbers, LenProperties DEF OrderInv
<1>2. /\ outBuffer \in [Conns -> Seq(MessageSet)] /\ delivered \in [Conns -> Seq(Nat)]
      /\ delivered' = [delivered EXCEPT ![d] = @ \o [i \in DOMAIN got |-> got[i].n]]
    BY Types DEF Receive, OrderInv
<1>3. /\ outBuffer'[d] = rest
      /\ all = ns \o [i \in DOMAIN got |-> got[i].n]
      /\ c # d => outBuffer'[c] = outBuffer[c] /\ delivered'[c] = delivered[c]
    BY <1>2
<1>4. CASE c # d
    BY <1>3, <1>4 DEF Heard, Unsent
<1>5. CASE c = d
    <2>1. /\ got \in Seq(MessageSet) /\ DOMAIN got = 1 .. k /\ \A i \in 1 .. k : got[i] = b[i]
        BY <1>1, Taken, Written
    <2>2. DOMAIN rest = 1 .. n - k /\ \A i \in 1 .. n - k : rest[i] = b[k + i]
        <3>1. k \in Nat /\ n \in Nat /\ k + 1 \in Nat
              /\ \A i \in (k + 1) .. n : b[i] \in MessageSet
            BY <1>1, ElementOfSeq
        <3>2. /\ rest \in Seq(MessageSet)
              /\ Len(rest) = IF k + 1 <= n THEN (n - (k + 1)) + 1 ELSE 0
              /\ \A i \in 1 .. (n - (k + 1)) + 1 : rest[i] = b[((k + 1) + i) - 1]
            BY <3>1, SubSeqProperties
        <3>3. DOMAIN rest = 1 .. Len(rest)
            BY <3>2, LenProperties
        <3> HIDE DEF rest, n, b
        <3>4. /\ Len(rest) = n - k /\ (n - (k + 1)) + 1 = n - k
              /\ \A i \in 1 .. n - k : ((k + 1) + i) - 1 = k + i
            BY <1>1, <3>1, <3>2
        <3> QED  BY <3>2, <3>3, <3>4
    <2>3. \A i \in 1 .. n : i \in 1 .. k \/ i - k \in 1 .. n - k
        BY <1>1
    <2>4. \A i \in 1 .. n : i - k \in 1 .. n - k => b[i] = rest[i - k]
        <3> HIDE DEF b, rest, n
        <3>1. \A i \in 1 .. n : k + (i - k) = i
            BY <1>1
        <3> QED  BY <2>2, <3>1
    <2>5. /\ Heard(c) = (ToSet(ns) \union {b[i].n : i \in DOMAIN b}) \ {0}
          /\ Heard(c)' = (ToSet(all) \union {rest[i].n : i \in DOMAIN rest}) \ {0}
        BY <1>3, <1>5 DEF Heard, Unsent
    <2> HIDE DEF b, rest, got, n, ns, all
    <2>6. /\ DOMAIN all = 1 .. Len(all)
          /\ \A i \in 1 .. Len(ns) : i \in 1 .. Len(all) /\ all[i] = ns[i]
          /\ \A i \in 1 .. k : Len(ns) + i \in 1 .. Len(all) /\ all[Len(ns) + i] = got[i].n
        <3>1. Len(got) = k
            <4>1. DOMAIN got = 1 .. Len(got) /\ Len(got) \in Nat /\ k \in Nat
                BY <1>1, <2>1, LenProperties
            <4> QED  BY <2>1, <4>1
        <3>2. /\ Len(all) = Len(ns) + Len(got) /\ DOMAIN all = 1 .. Len(all)
              /\ \A i \in 1 .. Len(ns) : all[i] = ns[i]
              /\ \A i \in 1 .. Len(got) : all[Len(ns) + i] = got[i].n
            <4>1. /\ ns \in Seq(Nat) /\ got \in Seq(MessageSet)
                  /\ all = ns \o [i \in DOMAIN got |-> got[i].n]
                BY <1>1, <1>3, <2>1
            <4>2. Len(all) = Len(ns) + Len(got) /\ DOMAIN all = 1 .. Len(all)
                BY <4>1, Received
            <4>3. \A i \in 1 .. Len(ns) : all[i] = ns[i]
                BY <4>1, Received
            <4>4. \A i \in 1 .. Len(got) : all[Len(ns) + i] = got[i].n
                BY <4>1, Received
            <4> QED  BY <4>2, <4>3, <4>4
        <3> QED  BY <1>1, <3>1, <3>2
    <2> SUFFICES ASSUME NEW m \in Heard(c) PROVE m \in Heard(c)'
        OBVIOUS
    <2>7. ASSUME NEW j \in DOMAIN all, m = all[j], m # 0 PROVE m \in Heard(c)'
        BY <2>5, <2>7 DEF ToSet
    <2>8. CASE m \in ToSet(ns) /\ m # 0
        <3>1. PICK i \in 1 .. Len(ns) : m = ns[i]
            BY <1>1, <2>8 DEF ToSet
        <3> QED  BY <2>6, <2>7, <2>8, <3>1
    <2>9. ASSUME NEW i \in 1 .. n, m = b[i].n, m # 0 PROVE m \in Heard(c)'
        <3>1. CASE i \in 1 .. k
            BY <2>1, <2>6, <2>7, <2>9, <3>1
        <3>2. CASE i - k \in 1 .. n - k
            BY <2>2, <2>4, <2>5, <2>9, <3>2
        <3> QED  BY <2>3, <3>1, <3>2
    <2> QED  BY <1>1, <2>5, <2>8, <2>9
<1> QED  BY <1>4, <1>5

LEMMA SendHears ==
    ASSUME OrderInv, NEW c \in Conns, NEW w \in Workers, Send(w)
    PROVE  Hears(c)
<1> DEFINE d == Op(w).c
           n == Len(outBuffer[d])
<1>1. d \in Conns /\ UNCHANGED <<functors, m_FunctorList, posted>>
    BY AtHead, OpKind DEF OrderInv, Inv, Send, Doing, Op, mainVars
<1>2. CASE UNCHANGED <<outBuffer, delivered>>
    BY <1>1, <1>2, SameHears
<1>3. ASSUME NEW k \in 0 .. n,
             outBuffer' = [outBuffer EXCEPT ![d] = SubSeq(@, k + 1, n)],
             Receive(d, SubSeq(outBuffer[d], 1, k))
      PROVE  Hears(c)
    <2>1. Heard(c) \subseteq Heard(c)'
        BY <1>1, <1>3, WriteHears
    <2> QED  BY <1>1, <2>1, NothingBroadcast DEF Hears, Keeps, Misses
<1>4. \/ UNCHANGED <<outBuffer, delivered>>
      \/ \E k \in 0 .. n : /\ outBuffer' = [outBuffer EXCEPT ![d] = SubSeq(@, k + 1, n)]
                           /\ Receive(d, SubSeq(outBuffer[d], 1, k))
    <2>1. n \in Nat
        BY <1>1, Numbers, LenProperties DEF OrderInv
    <2>2. (IF SlowPeers THEN 0 ELSE n) .. n \subseteq 0 .. n
        BY <2>1
    <2> QED  BY <2>2 DEF Send
<1> QED  BY <1>2, <1>3, <1>4

LEMMA StepHears ==
    ASSUME OrderInv, OrderInv', [Next]_vars, NEW c \in Conns
    PROVE  Hears(c)
<1> USE DEF connVars, clientVars, mainVars
<1>1. CASE UNCHANGED vars
    BY <1>1, SameHears DEF vars
<1>2. ASSUME NEW kind, Undefined(kind) PROVE Hears(c)
    BY <1>2, SameHears DEF Undefined
<1>3. CASE Wait \/ \E e \in events : HandleEvent(e)
    BY <1>3, SameHears DEF Wait, HandleEvent
<1>4. CASE MainStep
    BY <1>2, <1>3, <1>4, SwapHears, RunFunctorHears
       DEF MainStep, HandleFreed, RunFunctorUndefined
<1>5. ASSUME NEW w \in Workers,
             TakeJob(w) \/ Read(w) \/ Lookup(w) \/ PutOnline(w) \/ AskSize(w) \/ ModEvents(w)
      PROVE  Hears(c)
    <2>1. UNCHANGED <<functors, m_FunctorList, posted, outBuffer, delivered>>
        BY <1>5 DEF TakeJob, Read, Lookup, PutOnline, AskSize, ModEvents, ServerOnly
    <2> QED  BY <2>1, SameHears
<1>6. ASSUME NEW w \in Workers, WorkerStep(w) PROVE Hears(c)
    BY <1>5, <1>6, AddFunctorHears, SendHears DEF WorkerStep
<1>7. ASSUME NEW w \in Workers, WorkerUndefined(w) PROVE Hears(c)
    BY <1>2, <1>7 DEF WorkerUndefined
<1>8. CASE RaceUndefined
    BY <1>2, <1>8 DEF RaceUndefined
<1>9. ASSUME NEW d \in Conns, ClientStep(d) PROVE Hears(c)
    <2>1. ClientOnly
        BY <1>9, ClientChanges DEF ClientChange, OrderInv, Inv
    <2> QED  BY <2>1, SameHears DEF ClientOnly
<1>10. CASE Elapse
    BY <1>10, SameHears DEF Elapse
<1> QED  BY <1>1, <1>4, <1>6, <1>7, <1>8, <1>9, <1>10 DEF Next

\* Whoever is in the cache when a chat message leaves the lists of functors has it in
\* the output buffer, from which only a write to the client takes it: whatever is
\* posted, swapped, written in part, put and removed meanwhile.
THEOREM OnlineUsersHearAll == Spec => StayersHearAll
<1>1. OrderInv /\ OrderInv' /\ [Next]_vars =>
          [\A c \in Conns :
              /\ status'[c] = "open" => Heard(c) \subseteq Heard(c)'
              /\ c \in OnlineConns => Broadcast' \ Broadcast \subseteq Heard(c)']_vars
    <2> SUFFICES ASSUME OrderInv, OrderInv', [Next]_vars, NEW c \in Conns
                 PROVE  /\ status'[c] = "open" => Heard(c) \subseteq Heard(c)'
                        /\ c \in OnlineConns => Broadcast' \ Broadcast \subseteq Heard(c)'
        OBVIOUS
    <2>1. Hears(c)
        BY StepHears
    <2> QED  BY <2>1 DEF Hears, Keeps, Misses
<1> QED  BY <1>1, OrderAlways, PTL DEF Spec, StayersHearAll

============================================================================
