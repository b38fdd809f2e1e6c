-------------------------- MODULE ChatServerProofs --------------------------
(***************************************************************************)
(* No open connection is forgotten by the server, for any number of        *)
(* connections, accounts, workers and requests.                            *)
(***************************************************************************)
EXTENDS ChatServer, SequenceTheorems, TLAPS

USE ServerAssumption

-----------------------------------------------------------------------------
(***************************************************************************)
(* Types of what is on its way.                                            *)
(***************************************************************************)

AnyAccount == Accounts \union {NoAccount}

RequestSet ==
    [op : {"LOGIN", "READ", "REGISTER", "SEND", "LOGOUT", "RECONNECT", "ACK", "UNMATCHED"},
     account : AnyAccount]

\* The requests that ask the cache who is online.
LookupSet == [op : {"LOGIN", "LOGOUT", "RECONNECT", "ACK"}, account : AnyAccount]

Kinds == {"LOGIN_SUCCESS", "LOGIN_FAIL", "LOGIN_EXIST", "REGISTER", "RECONNECT_SUCCESS",
          "RECONNECT_FAIL", "123", "SEND", "NOTICE", "ONLINELIST"}

MessageSet == [kind : Kinds, n : Nat]

\* Only addFunctor numbers a message, and only one for everybody.
PlainSet == [kind : Kinds, n : {0}]

NewFunctorSet ==
    [fn : {"one"}, c : Conns, m : PlainSet] \union [fn : {"all"}, m : PlainSet]
        \union [fn : {"remove"}, a : AnyAccount] \union [fn : {"close"}, c : Conns]

FunctorSet == NewFunctorSet \union [fn : {"all"}, m : MessageSet]

JobSet == [do : {"read", "send"}, c : Conns]

OpSet ==
    JobSet \union [do : {"size"}, c : Conns]
        \union [do : {"mod"}, c : Conns, ev : (SUBSET {EPOLLIN, EPOLLOUT}) \ {{}}]
        \union [do : {"put"}, c : Conns, a : AnyAccount]
        \union [do : {"get"}, c : Conns, r : LookupSet]
        \union [do : {"addFunctor"}, c : Conns, f : NewFunctorSet]

ClientTypes ==
    /\ user \in [Conns -> AnyAccount]
    /\ socket \in [Conns -> Seq(RequestSet)]
    /\ inBuffer \in [Conns -> Seq(RequestSet)]
    /\ outBuffer \in [Conns -> Seq(MessageSet)]
    /\ delivered \in [Conns -> Seq(Nat)]

ServerTypes ==
    /\ \A e \in events : e.c \in Conns \union {Listener}
    /\ m_FunctorList \in Seq(FunctorSet)
    /\ functors \in Seq(FunctorSet)
    /\ posted \in Nat
    /\ jobs \in Seq(JobSet)
    /\ todo \in [Workers -> Seq(OpSet)]

\* The main thread handles all its events before it swaps, and runs all its functors
\* before it waits.
MainOrder ==
    /\ main # "handle" => events = {}
    /\ main = "run" <=> functors # <<>>

\* These are the last of what a worker has to do: what follows is not known before.
LastOnly == {"read", "send", "size", "get"}

Shape(ops) == \A i \in 1 .. Len(ops) : ops[i].do \in LastOnly => i = Len(ops)

Typed ==
    /\ TypeOK
    /\ ClientTypes
    /\ ServerTypes
    /\ MainOrder
    /\ \A w \in Workers : Shape(todo[w])

-----------------------------------------------------------------------------
(***************************************************************************)
(* Sequences.                                                              *)
(***************************************************************************)

LEMMA HeadTail ==
    ASSUME NEW S, NEW s \in Seq(S), s # <<>>
    PROVE  /\ Head(s) = s[1] /\ Head(s) \in S /\ 1 \in 1 .. Len(s)
           /\ Tail(s) \in Seq(S) /\ Len(Tail(s)) = Len(s) - 1
           /\ \A i \in 1 .. Len(Tail(s)) : i + 1 \in 1 .. Len(s) /\ Tail(s)[i] = s[i + 1]
           /\ \A i \in 2 .. Len(s) : i - 1 \in 1 .. Len(Tail(s)) /\ Tail(s)[i - 1] = s[i]
<1>1. Len(s) \in Nat \ {0}
    BY EmptySeq
<1>2. /\ Head(s) \in S /\ Tail(s) \in Seq(S) /\ Len(Tail(s)) = Len(s) - 1
      /\ \A i \in 1 .. Len(Tail(s)) : Tail(s)[i] = s[i + 1]
    BY HeadTailProperties
<1>3. Head(s) = s[1]
    OBVIOUS
<1>4. \A i \in 2 .. Len(s) : i - 1 \in 1 .. Len(s) - 1 /\ (i - 1) + 1 = i
    BY <1>1
<1>5. \A i \in 1 .. Len(s) - 1 : i + 1 \in 1 .. Len(s)
    BY <1>1
<1> QED  BY <1>1, <1>2, <1>3, <1>4, <1>5

LEMMA Appended ==
    ASSUME NEW S, NEW s \in Seq(S), NEW e \in S
    PROVE  /\ Append(s, e) \in Seq(S) /\ Append(s, e) # <<>> /\ Len(Append(s, e)) = Len(s) + 1
           /\ \A i \in 1 .. Len(s) : i \in 1 .. Len(Append(s, e)) /\ Append(s, e)[i] = s[i]
           /\ Len(s) + 1 \in 1 .. Len(Append(s, e)) /\ Append(s, e)[Len(s) + 1] = e
<1>1. Len(s) \in Nat
    BY LenProperties
<1> QED  BY <1>1, AppendProperties

LEMMA Nothing == ASSUME NEW S PROVE <<>> \in Seq(S) /\ Len(<<>>) = 0
BY EmptySeq

LEMMA One ==
    ASSUME NEW S, NEW a \in S
    PROVE  <<a>> \in Seq(S) /\ Len(<<a>>) = 1 /\ <<a>>[1] = a
OBVIOUS

LEMMA Two ==
    ASSUME NEW S, NEW a \in S, NEW b \in S
    PROVE  <<a, b>> \in Seq(S) /\ Len(<<a, b>>) = 2 /\ <<a, b>>[1] = a /\ <<a, b>>[2] = b
OBVIOUS

LEMMA Three ==
    ASSUME NEW S, NEW a \in S, NEW b \in S, NEW c \in S
    PROVE  /\ <<a, b, c>> \in Seq(S) /\ Len(<<a, b, c>>) = 3
           /\ <<a, b, c>>[1] = a /\ <<a, b, c>>[2] = b /\ <<a, b, c>>[3] = c
OBVIOUS

LEMMA Four ==
    ASSUME NEW S, NEW a \in S, NEW b \in S, NEW c \in S, NEW d \in S
    PROVE  /\ <<a, b, c, d>> \in Seq(S) /\ Len(<<a, b, c, d>>) = 4
           /\ <<a, b, c, d>>[1] = a /\ <<a, b, c, d>>[2] = b
           /\ <<a, b, c, d>>[3] = c /\ <<a, b, c, d>>[4] = d
OBVIOUS

-----------------------------------------------------------------------------
(***************************************************************************)
(* What a worker has to do.                                                *)
(***************************************************************************)

\* ops are operations of which one arms c, or hands it to one that will.
Tends(ops, c) ==
    /\ ops \in Seq(OpSet) /\ Shape(ops)
    /\ \E i \in 1 .. Len(ops) : Arms(ops[i], c)

\* The operations by their type, and which of them arm their connection.
LEMMA AddOp ==
    ASSUME NEW c \in Conns, NEW f \in NewFunctorSet
    PROVE  /\ Add(c, f) \in OpSet /\ Add(c, f).do = "addFunctor" /\ Add(c, f).f = f
           /\ ArmsLater(f, c) => Arms(Add(c, f), c)
BY DEF Add, OpSet, Arms

LEMMA ModOp ==
    ASSUME NEW c \in Conns, NEW ev \in (SUBSET {EPOLLIN, EPOLLOUT}) \ {{}}
    PROVE  Mod(c, ev) \in OpSet /\ Mod(c, ev).do = "mod" /\ Arms(Mod(c, ev), c)
BY DEF Mod, OpSet, Arms

LEMMA Interests ==
    /\ {EPOLLIN} \in (SUBSET {EPOLLIN, EPOLLOUT}) \ {{}}
    /\ {EPOLLIN, EPOLLOUT} \in (SUBSET {EPOLLIN, EPOLLOUT}) \ {{}}
OBVIOUS

LEMMA PutOp ==
    ASSUME NEW c \in Conns, NEW a \in AnyAccount
    PROVE  Put(c, a) \in OpSet /\ Put(c, a).do = "put"
BY DEF Put, OpSet

LEMMA GetOp ==
    ASSUME NEW c \in Conns, NEW r \in RequestSet,
           r.op \in {"LOGIN", "LOGOUT", "RECONNECT", "ACK"}
    PROVE  /\ Get(c, r) \in OpSet /\ Get(c, r).do = "get"
           /\ r.op # "ACK" => Arms(Get(c, r), c)
<1>1. r \in LookupSet
    BY DEF RequestSet, LookupSet
<1> QED  BY <1>1 DEF Get, OpSet, Arms

LEMMA SizeOp ==
    ASSUME NEW c \in Conns PROVE CheckSize(c) \in OpSet /\ CheckSize(c).do = "size"
BY DEF CheckSize, OpSet

LEMMA FunctorTypes ==
    ASSUME NEW c \in Conns, NEW kind \in Kinds
    PROVE  /\ ToOne(c, kind) \in NewFunctorSet /\ ToOne(c, kind).fn = "one"
           /\ ToOne(c, kind).c = c
           /\ kind = "REGISTER" => ArmsLater(ToOne(c, kind), c)
           /\ ToAll(kind) \in NewFunctorSet
           /\ Close(c) \in NewFunctorSet /\ ArmsLater(Close(c), c)
BY DEF ToOne, ToAll, Close, Message, PlainSet, NewFunctorSet, ArmsLater

LEMMA RemoveType == ASSUME NEW a \in AnyAccount PROVE RemoveOnline(a) \in NewFunctorSet
BY DEF RemoveOnline, NewFunctorSet

LEMMA ReplyTends ==
    ASSUME NEW c \in Conns, NEW kind \in Kinds
    PROVE  /\ Tends(LoginReply(c, kind), c)
           /\ Tends(ReconnectReply(c, kind), c)
           /\ \A i \in 1 .. 3 : LoginReply(c, kind)[i].do \notin LastOnly
           /\ \A i \in 1 .. 3 : ReconnectReply(c, kind)[i].do \notin LastOnly
           /\ Len(LoginReply(c, kind)) = 3 /\ Len(ReconnectReply(c, kind)) = 3
<1> DEFINE one == Add(c, ToOne(c, kind))
           text == Add(c, ToOne(c, "123"))
           mod == Mod(c, {EPOLLIN, EPOLLOUT})
           list == Add(c, UpdateOnlineList)
<1>1. one \in OpSet /\ one.do = "addFunctor"
    BY AddOp, FunctorTypes
<1>2. text \in OpSet /\ text.do = "addFunctor"
    BY AddOp, FunctorTypes DEF Kinds
<1>3. mod \in OpSet /\ mod.do = "mod" /\ Arms(mod, c)
    BY ModOp, Interests
<1>4. list \in OpSet /\ list.do = "addFunctor"
    BY AddOp, FunctorTypes DEF Kinds, UpdateOnlineList
<1> HIDE DEF one, text, mod, list
<1>5. Tends(<<one, mod, list>>, c) /\ \A i \in 1 .. 3 : <<one, mod, list>>[i].do \notin LastOnly
    BY <1>1, <1>3, <1>4, Three DEF Tends, Shape, LastOnly
<1>6. Tends(<<one, text, mod>>, c) /\ \A i \in 1 .. 3 : <<one, text, mod>>[i].do \notin LastOnly
    BY <1>1, <1>2, <1>3, Three DEF Tends, Shape, LastOnly
<1> QED  BY <1>5, <1>6 DEF LoginReply, ReconnectReply, one, text, mod, list

\* A put before a reply.
LEMMA PutFirst ==
    ASSUME NEW c \in Conns, NEW a \in AnyAccount, NEW ops, Tends(ops, c),
           \A i \in 1 .. Len(ops) : ops[i].do \notin LastOnly
    PROVE  Tends(<<Put(c, a)>> \o ops, c)
<1> DEFINE put == Put(c, a)
           all == <<put>> \o ops
<1>1. put \in OpSet /\ put.do = "put"
    BY PutOp
<1> HIDE DEF put
<1>2. ops \in Seq(OpSet) /\ Len(ops) \in Nat
    BY LenProperties DEF Tends
<1>3. <<put>> \in Seq(OpSet) /\ Len(<<put>>) = 1 /\ <<put>>[1] = put
    BY <1>1, One
<1>4. /\ all \in Seq(OpSet) /\ Len(all) = Len(ops) + 1
      /\ all[1] = put /\ \A i \in 2 .. Len(all) : all[i] = ops[i - 1]
    BY <1>2, <1>3, ConcatProperties
<1> HIDE DEF all
<1>5. \A i \in 1 .. Len(all) : all[i].do \notin LastOnly
    <2> TAKE i \in 1 .. Len(all)
    <2>1. CASE i = 1
        BY <1>1, <1>4, <2>1 DEF LastOnly
    <2>2. CASE i # 1
        <3>1. i - 1 \in 1 .. Len(ops) /\ all[i] = ops[i - 1]
            BY <1>2, <1>4, <2>2
        <3> QED  BY <3>1
    <2> QED  BY <2>1, <2>2
<1>6. \E i \in 1 .. Len(all) : Arms(all[i], c)
    <2>1. PICK i \in 1 .. Len(ops) : Arms(ops[i], c)
        BY DEF Tends
    <2>2. i + 1 \in 2 .. Len(all) /\ (i + 1) - 1 = i
        BY <1>2, <1>4
    <2>3. all[i + 1] = ops[(i + 1) - 1]
        BY <1>4, <2>2
    <2>4. i + 1 \in 1 .. Len(all)
        BY <2>2
    <2> QED  BY <2>1, <2>2, <2>3, <2>4
<1> QED  BY <1>4, <1>5, <1>6 DEF Tends, Shape, all, put

\* Whatever was read, its connection is tended to, unless the request has no case.
LEMMA HandleTends ==
    ASSUME Typed, NEW c \in Conns, NEW r \in RequestSet, r.op # "UNMATCHED",
           NEW valid \in BOOLEAN
    PROVE  Tends(Handle(c, r, valid), c)
<1>1. m_account[c] \in AnyAccount
    BY DEF Typed, TypeOK, AnyAccount
<1>2. CASE r.op = "LOGIN"
    <2>1. CASE valid
        <3> DEFINE get == Get(c, r)
        <3>1. get \in OpSet /\ Arms(get, c)
            BY <1>2, GetOp
        <3> HIDE DEF get
        <3>2. Tends(<<get>>, c)
            BY <3>1, One DEF Tends, Shape
        <3> QED  BY <1>2, <2>1, <3>2 DEF Handle, get
    <2>2. CASE ~valid
        BY <1>2, <2>2, ReplyTends DEF Handle, Kinds
    <2> QED  BY <2>1, <2>2
<1>3. CASE r.op = "READ"
    <2> DEFINE put == Put(c, m_account[c])
               notice == Add(c, ToAll("NOTICE"))
               mod == Mod(c, {EPOLLIN, EPOLLOUT})
               list == Add(c, UpdateOnlineList)
    <2>1. put \in OpSet /\ put.do = "put"
        BY <1>1, PutOp
    <2>2. notice \in OpSet /\ notice.do = "addFunctor" /\ list \in OpSet /\ list.do = "addFunctor"
        BY AddOp, FunctorTypes DEF Kinds, UpdateOnlineList
    <2>3. mod \in OpSet /\ mod.do = "mod" /\ Arms(mod, c)
        BY ModOp, Interests
    <2> HIDE DEF put, notice, mod, list
    <2>4. Tends(<<put, notice, mod, list>>, c)
        BY <2>1, <2>2, <2>3, Four DEF Tends, Shape, LastOnly
    <2> QED  BY <1>3, <2>4 DEF Handle, put, notice, mod, list
<1>4. CASE r.op = "REGISTER"
    <2> DEFINE one == Add(c, ToOne(c, "REGISTER"))
    <2>1. one \in OpSet /\ one.do = "addFunctor" /\ Arms(one, c)
        BY AddOp, FunctorTypes DEF Kinds
    <2> HIDE DEF one
    <2>2. Tends(<<one>>, c)
        BY <2>1, One DEF Tends, Shape
    <2> QED  BY <1>4, <2>2 DEF Handle, one
<1>5. CASE r.op = "SEND"
    <2> DEFINE all == Add(c, ToAll("SEND"))
               mod == Mod(c, {EPOLLIN, EPOLLOUT})
    <2>1. all \in OpSet /\ all.do = "addFunctor"
        BY AddOp, FunctorTypes DEF Kinds
    <2>2. mod \in OpSet /\ mod.do = "mod" /\ Arms(mod, c)
        BY ModOp, Interests
    <2> HIDE DEF all, mod
    <2>3. Tends(<<all, all, mod>>, c)
        BY <2>1, <2>2, Three DEF Tends, Shape, LastOnly
    <2> QED  BY <1>5, <2>3 DEF Handle, all, mod
<1>6. CASE r.op = "ACK"
    <2> DEFINE mod == Mod(c, {EPOLLIN})
               get == Get(c, r)
    <2>1. mod \in OpSet /\ mod.do = "mod" /\ Arms(mod, c)
        BY ModOp, Interests
    <2>2. get \in OpSet
        BY <1>6, GetOp
    <2> HIDE DEF mod, get
    <2>3. Tends(<<mod, get>>, c)
        BY <2>1, <2>2, Two DEF Tends, Shape, LastOnly
    <2> QED  BY <1>6, <2>3 DEF Handle, mod, get
<1>7. CASE r.op \in {"LOGOUT", "RECONNECT"}
    <2> DEFINE get == Get(c, r)
    <2>1. get \in OpSet /\ Arms(get, c)
        BY <1>7, GetOp
    <2> HIDE DEF get
    <2>2. Tends(<<get>>, c)
        BY <2>1, One DEF Tends, Shape
    <2> QED  BY <1>7, <2>2 DEF Handle, get
<1> QED  BY <1>2, <1>3, <1>4, <1>5, <1>6, <1>7 DEF RequestSet

\* The get of a heartbeat was the last thing to do; any other goes on to arm its
\* connection.
LEMMA LookupTends ==
    ASSUME NEW c \in Conns, NEW r \in LookupSet, r.op # "ACK", NEW found \in BOOLEAN
    PROVE  Tends(AfterLookup(c, r, found), c)
<1>1. r.account \in AnyAccount
    BY DEF LookupSet
<1>2. CASE r.op = "LOGIN"
    <2>1. CASE found
        BY <1>2, <2>1, ReplyTends DEF AfterLookup, Kinds
    <2>2. CASE ~found
        <3>1. "LOGIN_SUCCESS" \in Kinds
            BY DEF Kinds
        <3>2. Tends(<<Put(c, r.account)>> \o LoginReply(c, "LOGIN_SUCCESS"), c)
            BY <1>1, <3>1, PutFirst, ReplyTends
        <3> QED  BY <1>2, <2>2, <3>2 DEF AfterLookup
    <2> QED  BY <2>1, <2>2
<1>3. CASE r.op = "LOGOUT"
    <2> DEFINE remove == Add(c, RemoveOnline(r.account))
               close == Add(c, Close(c))
               size == CheckSize(c)
    <2>1. remove \in OpSet /\ remove.do = "addFunctor"
        BY <1>1, AddOp, RemoveType
    <2>2. close \in OpSet /\ close.do = "addFunctor" /\ Arms(close, c)
        BY AddOp, FunctorTypes DEF Kinds
    <2>3. size \in OpSet
        BY SizeOp
    <2> HIDE DEF remove, close, size
    <2>4. Tends(<<remove, close, size>>, c)
        BY <2>1, <2>2, <2>3, Three DEF Tends, Shape, LastOnly
    <2>5. Tends(<<close>>, c)
        BY <2>2, One DEF Tends, Shape
    <2> QED  BY <1>3, <2>4, <2>5 DEF AfterLookup, remove, close, size
<1>4. CASE r.op = "RECONNECT"
    <2>1. CASE found
        <3>1. "RECONNECT_SUCCESS" \in Kinds
            BY DEF Kinds
        <3>2. Tends(<<Put(c, r.account)>> \o ReconnectReply(c, "RECONNECT_SUCCESS"), c)
            BY <1>1, <3>1, PutFirst, ReplyTends
        <3> QED  BY <1>4, <2>1, <3>2 DEF AfterLookup
    <2>2. CASE ~found
        BY <1>4, <2>2, ReplyTends DEF AfterLookup, Kinds
    <2> QED  BY <2>1, <2>2
<1> QED  BY <1>2, <1>3, <1>4 DEF LookupSet

-----------------------------------------------------------------------------
(***************************************************************************)
(* Types.                                                                  *)
(***************************************************************************)

LEMMA RequestTyped ==
    ASSUME Typed, NEW c \in Conns, NEW a \in AnyAccount,
           NEW op \in {"LOGIN", "READ", "REGISTER", "SEND", "LOGOUT", "RECONNECT", "ACK",
                       "UNMATCHED"},
           Request(c, op, a)
    PROVE  /\ socket' \in [Conns -> Seq(RequestSet)] /\ sent' \in 0 .. Requests
           /\ status' = status /\ ClientOnly
<1>1. [op |-> op, account |-> a] \in RequestSet
    BY DEF RequestSet
<1>2. socket[c] \in Seq(RequestSet)
    BY DEF Typed, ClientTypes
<1>3. Append(socket[c], [op |-> op, account |-> a]) \in Seq(RequestSet)
    BY <1>1, <1>2, AppendProperties
<1>4. socket' = [socket EXCEPT ![c] = Append(socket[c], [op |-> op, account |-> a])]
    BY DEF Request
<1>5. socket' \in [Conns -> Seq(RequestSet)]
    BY <1>3, <1>4 DEF Typed, ClientTypes
<1>6. sent' \in 0 .. Requests
    BY DEF Typed, TypeOK, Request
<1> QED  BY <1>5, <1>6 DEF Request

\* What a step of the client of connection c may change.
ClientChange(c) ==
    /\ status' \in {status, [status EXCEPT ![c] = "backlog"]}
    /\ phase' \in [Conns -> ClientPhase] /\ user' \in [Conns -> AnyAccount]
    /\ socket' \in [Conns -> Seq(RequestSet)] /\ sent' \in 0 .. Requests
    /\ ClientOnly

LEMMA ClientChanges ==
    ASSUME Typed, NEW c \in Conns, ClientStep(c)
    PROVE  ClientChange(c)
<1>1. /\ phase \in [Conns -> ClientPhase] /\ user \in [Conns -> AnyAccount]
      /\ socket \in [Conns -> Seq(RequestSet)] /\ sent \in 0 .. Requests
    BY DEF Typed, TypeOK, ClientTypes
<1>2. user[c] \in AnyAccount /\ NoAccount \in AnyAccount /\ Accounts \subseteq AnyAccount
    BY <1>1 DEF AnyAccount
<1>3. \A p \in ClientPhase, b \in Conns : [phase EXCEPT ![b] = p] \in [Conns -> ClientPhase]
    BY <1>1
<1>4. {"connected", "login", "register", "chatting", "left", "reconnect", "lost"}
         \subseteq ClientPhase
    BY DEF ClientPhase, Waiting
<1>5. CASE Connect(c)
    BY <1>1, <1>3, <1>4, <1>5 DEF Connect, ClientChange
<1>6. CASE \E a \in Accounts : Login(c, a)
    <2>1. PICK a \in Accounts : Login(c, a)
        BY <1>6
    <2> QED
        BY <1>1, <1>2, <1>3, <1>4, <2>1, RequestTyped DEF Login, GoTo, ClientChange
<1>7. CASE Register(c)
    BY <1>1, <1>2, <1>3, <1>4, <1>7, RequestTyped DEF Register, GoTo, ClientChange
<1>8. CASE Enter(c)
    BY <1>1, <1>2, <1>3, <1>4, <1>8, RequestTyped DEF Enter, GoTo, ClientChange
<1>9. CASE Say(c) \/ Fragment(c)
    BY <1>1, <1>2, <1>9, RequestTyped DEF Say, Fragment, ClientChange
<1>10. CASE Drop(c)
    BY <1>1, <1>3, <1>4, <1>10 DEF Drop, GoTo, ClientChange
<1>11. ASSUME NEW a \in AnyAccount, Heartbeat(c, a) PROVE ClientChange(c)
    BY <1>1, <1>11, RequestTyped DEF Heartbeat, ClientChange
<1>12. ASSUME NEW a \in AnyAccount, Logout(c, a) PROVE ClientChange(c)
    BY <1>1, <1>3, <1>4, <1>12, RequestTyped DEF Logout, GoTo, ClientChange
<1>13. ASSUME NEW a \in AnyAccount, NEW d \in Conns, Reconnect(c, d, a) PROVE ClientChange(c)
    <2>1. /\ Request(c, "RECONNECT", a)
          /\ phase' = [phase EXCEPT ![c] = "reconnect", ![d] = "lost"]
          /\ user' = [user EXCEPT ![c] = user[d]]
        BY <1>13 DEF Reconnect
    <2>2. phase' \in [Conns -> ClientPhase] /\ user' \in [Conns -> AnyAccount]
        BY <1>1, <1>4, <2>1
    <2>3. /\ socket' \in [Conns -> Seq(RequestSet)] /\ sent' \in 0 .. Requests
          /\ status' = status /\ ClientOnly
        BY <2>1, RequestTyped
    <2> QED  BY <2>2, <2>3 DEF ClientChange
<1> QED
    BY <1>5, <1>6, <1>7, <1>8, <1>9, <1>10, <1>11, <1>12, <1>13 DEF ClientStep, AnyAccount

\* A worker that goes on with ops leaves the others what they had.
LEMMA GoneOn ==
    ASSUME Typed, NEW w \in Workers, NEW ops \in Seq(OpSet), GoOn(w, ops), Shape(ops)
    PROVE  /\ todo' \in [Workers -> Seq(OpSet)] /\ todo'[w] = ops
           /\ \A v \in Workers : Shape(todo'[v])
           /\ \A v \in Workers \ {w} : todo'[v] = todo[v]
<1>1. todo \in [Workers -> Seq(OpSet)] /\ \A v \in Workers : Shape(todo[v])
    BY DEF Typed, ServerTypes
<1>2. todo' = [todo EXCEPT ![w] = ops]
    BY DEF GoOn
<1>3. /\ todo' \in [Workers -> Seq(OpSet)] /\ todo'[w] = ops
      /\ \A v \in Workers \ {w} : todo'[v] = todo[v]
    BY <1>1, <1>2
<1> QED  BY <1>1, <1>3

\* The operation that worker w is at, and what comes after it.
LEMMA AtHead ==
    ASSUME Typed, NEW w \in Workers, todo[w] # <<>>
    PROVE  /\ Op(w) \in OpSet /\ Op(w) = todo[w][1] /\ 1 \in 1 .. Len(todo[w])
           /\ Tail(todo[w]) \in Seq(OpSet) /\ Shape(Tail(todo[w]))
           /\ \A i \in 2 .. Len(todo[w]) : i - 1 \in 1 .. Len(Tail(todo[w]))
                                           /\ Tail(todo[w])[i - 1] = todo[w][i]
           /\ Op(w).do \in LastOnly => Tail(todo[w]) = <<>> /\ Len(todo[w]) = 1
<1> DEFINE s == todo[w]
           t == Tail(todo[w])
<1>1. s \in Seq(OpSet) /\ s # <<>> /\ Shape(s)
    BY DEF Typed, ServerTypes
<1>2. Op(w) = Head(s)
    BY DEF Op
<1> HIDE DEF s
<1>3. /\ Head(s) = s[1] /\ Head(s) \in OpSet /\ 1 \in 1 .. Len(s)
      /\ Tail(s) \in Seq(OpSet) /\ Len(Tail(s)) = Len(s) - 1
      /\ \A i \in 1 .. Len(Tail(s)) : i + 1 \in 1 .. Len(s) /\ Tail(s)[i] = s[i + 1]
      /\ \A i \in 2 .. Len(s) : i - 1 \in 1 .. Len(Tail(s)) /\ Tail(s)[i - 1] = s[i]
    BY <1>1, HeadTail
<1>4. Len(s) \in Nat \ {0}
    BY <1>1, EmptySeq
<1>5. Shape(Tail(s))
    <2> SUFFICES ASSUME NEW i \in 1 .. Len(Tail(s)), Tail(s)[i].do \in LastOnly
                 PROVE  i = Len(Tail(s))
        BY DEF Shape
    <2>1. i + 1 = Len(s)
        BY <1>1, <1>3 DEF Shape
    <2>2. i \in Int /\ Len(Tail(s)) = Len(s) - 1
        BY <1>3, <1>4
    <2> QED  BY <1>4, <2>1, <2>2
<1>6. Head(s).do \in LastOnly => Len(s) = 1 /\ Len(Tail(s)) = 0
    <2>1. s[1].do \in LastOnly => 1 = Len(s)
        BY <1>1, <1>3 DEF Shape
    <2> QED  BY <1>3, <2>1
<1>7. Len(Tail(s)) = 0 => Tail(s) = <<>>
    BY <1>3, EmptySeq
<1> QED  BY <1>2, <1>3, <1>5, <1>6, <1>7 DEF s

\* An operation by its kind.
LEMMA OpKind ==
    ASSUME NEW op \in OpSet
    PROVE  /\ op.c \in Conns
           /\ op.do = "get" => op.r \in LookupSet
           /\ op.do = "put" => op.a \in AnyAccount
           /\ op.do = "addFunctor" => op.f \in NewFunctorSet
           /\ op.do = "mod" => op.ev \in SUBSET {EPOLLIN, EPOLLOUT} /\ op.ev # {}
BY DEF OpSet, JobSet

\* A functor by its kind.
LEMMA FunctorKind ==
    ASSUME NEW f \in FunctorSet
    PROVE  /\ f.fn \in {"one", "all", "remove", "close"}
           /\ f.fn \in {"one", "close"} => f.c \in Conns
           /\ f.fn \in {"one", "all"} => f.m \in MessageSet
BY DEF FunctorSet, NewFunctorSet, PlainSet, MessageSet

-----------------------------------------------------------------------------
(***************************************************************************)
(* In whose hands a connection is.                                         *)
(***************************************************************************)

Reported(c)  == \E e \in events : e.c = c
Queued(c)    == \E i \in 1 .. Len(jobs) : jobs[i].c = c
Tended(w, c) == \E i \in 1 .. Len(todo[w]) : Arms(todo[w][i], c)
Pending(c)   == \E i \in 1 .. Len(functors) : ArmsLater(functors[i], c)
Posted(c)    == \E i \in 1 .. Len(m_FunctorList) : ArmsLater(m_FunctorList[i], c)

Held(c) ==
    \/ Reported(c) \/ Queued(c)
    \/ \E w \in Workers : Tended(w, c)
    \/ Pending(c) \/ Posted(c)

Attended == \A c \in Conns : Disarmed(c) => Held(c)

Inv == Typed /\ Attended

LEMMA HeldInHands ==
    ASSUME Typed, NEW c \in Conns, Held(c) PROVE InHands(c) \/ Promised(c)
<1>1. /\ DOMAIN functors = 1 .. Len(functors)
      /\ DOMAIN m_FunctorList = 1 .. Len(m_FunctorList)
      /\ DOMAIN jobs = 1 .. Len(jobs)
      /\ \A w \in Workers : DOMAIN todo[w] = 1 .. Len(todo[w])
    BY LenProperties DEF Typed, ServerTypes
<1> QED  BY <1>1 DEF Held, Reported, Queued, Tended, Pending, Posted, InHands, Promised

-----------------------------------------------------------------------------
(***************************************************************************)
(* The steps of clients and of the main thread.                            *)
(***************************************************************************)

LEMMA SameServer ==
    ASSUME Inv, UNCHANGED <<m_account, interest, inBuffer, outBuffer, delivered, ignored,
                            mainVars, m_FunctorList, posted, jobs, todo>>,
           \A c \in Conns : status'[c] = "open" => status[c] = "open"
    PROVE  Attended'
<1>1. \A c \in Conns : Held(c)' <=> Held(c)
    BY DEF Held, Reported, Queued, Tended, Pending, Posted, Arms, ArmsLater, mainVars
<1>2. \A c \in Conns : Disarmed(c)' => Disarmed(c)
    BY DEF Disarmed
<1> QED  BY <1>1, <1>2 DEF Inv, Attended

LEMMA UndefinedInv == ASSUME Inv, NEW kind, Undefined(kind) PROVE Inv'
<1> USE DEF Undefined, connVars, clientVars, mainVars
<1>1. Typed'
    BY DEF Inv, Typed, TypeOK, ClientTypes, ServerTypes, MainOrder, Shape
<1>2. Attended'
    BY SameServer
<1> QED  BY <1>1, <1>2 DEF Inv

LEMMA ClientInv == ASSUME Inv, NEW c \in Conns, ClientStep(c) PROVE Inv'
<1>1. ClientChange(c)
    BY ClientChanges DEF Inv
<1>2. /\ status \in [Conns -> {"none", "backlog", "open", "deleted"}]
      /\ status' \in [Conns -> {"none", "backlog", "open", "deleted"}]
      /\ \A d \in Conns : status'[d] = "open" => status[d] = "open"
    BY <1>1 DEF ClientChange, Inv, Typed, TypeOK
<1>3. Typed'
    BY <1>1, <1>2 DEF ClientChange, ClientOnly, mainVars, Inv, Typed, TypeOK, ClientTypes,
                      ServerTypes, MainOrder, Shape
<1>4. Attended'
    BY <1>1, <1>2, SameServer DEF ClientChange, ClientOnly, mainVars
<1> QED  BY <1>3, <1>4 DEF Inv

LEMMA ElapseInv == ASSUME Inv, Elapse PROVE Inv'
<1> USE DEF Elapse, connVars, clientVars, mainVars
<1>1. clock' \in 0 .. MaxClock
    BY DEF Inv, Typed, TypeOK
<1>2. Typed'
    BY <1>1 DEF Inv, Typed, TypeOK, ClientTypes, ServerTypes, MainOrder, Shape
<1>3. Attended'
    BY SameServer
<1> QED  BY <1>2, <1>3 DEF Inv

LEMMA WaitInv == ASSUME Inv, Wait PROVE Inv'
<1> USE DEF Wait, clientVars
<1>1. /\ interest \in [Conns -> SUBSET {EPOLLIN, EPOLLOUT}] /\ main = "wait"
      /\ events = {}
    BY DEF Inv, Typed, TypeOK, MainOrder
<1>2. interest' \in [Conns -> SUBSET {EPOLLIN, EPOLLOUT}]
    BY <1>1
<1>3. \A e \in events' : e.c \in Conns \union {Listener}
    BY DEF ReadyConns
<1>4. Typed'
    BY <1>1, <1>2, <1>3 DEF Inv, Typed, TypeOK, ClientTypes, ServerTypes, MainOrder, Shape
<1>5. ASSUME NEW c \in Conns, Disarmed(c)' PROVE Held(c)'
    <2>1. CASE c \in ReadyConns
        <3>1. PICK reset \in SUBSET {d \in ReadyConns : phase[d] = "left"} :
                  events' = {[c |-> d, got |-> Ready(d) \union
                                  (IF d \in reset THEN {EPOLLHUP} ELSE {})] : d \in ReadyConns}
                            \union {[c |-> Listener, got |-> {EPOLLIN}] : d \in Backlog}
            OBVIOUS
        <3> DEFINE e == [c |-> c, got |-> Ready(c) \union
                                  (IF c \in reset THEN {EPOLLHUP} ELSE {})]
        <3>2. e \in events' /\ e.c = c
            BY <2>1, <3>1
        <3> QED  BY <3>2 DEF Held, Reported
    <2>2. CASE c \notin ReadyConns
        <3>1. Disarmed(c)
            BY <1>5, <2>2 DEF Disarmed
        <3>2. Held(c) /\ ~Reported(c)
            BY <1>1, <3>1 DEF Inv, Attended, Reported
        <3> QED
            BY <3>2 DEF Held, Queued, Tended, Pending, Posted, Arms, ArmsLater
    <2> QED  BY <2>1, <2>2
<1> QED  BY <1>4, <1>5 DEF Inv, Attended

LEMMA HandleEventInv == ASSUME Inv, NEW e \in events, HandleEvent(e) PROVE Inv'
<1> USE DEF clientVars, CloseConnection
<1>1. /\ interest \in [Conns -> SUBSET {EPOLLIN, EPOLLOUT}] /\ e.c \in Conns \union {Listener}
      /\ status \in [Conns -> {"none", "backlog", "open", "deleted"}]
      /\ main = "handle" /\ functors = <<>> /\ jobs \in Seq(JobSet)
    BY DEF Inv, Typed, TypeOK, MainOrder, ServerTypes, HandleEvent
<1>2. /\ events' = events \ {e} /\ main' = IF events' = {} THEN "swap" ELSE "handle"
      /\ UNCHANGED <<m_account, inBuffer, outBuffer, clientVars, m_FunctorList, functors,
                     posted, todo, online, clock, ub>>
    BY DEF HandleEvent
<1>3. CASE e.c = Listener /\ Accept
    <2>1. /\ interest' \in [Conns -> SUBSET {EPOLLIN, EPOLLOUT}]
          /\ status' \in [Conns -> {"none", "backlog", "open", "deleted"}] /\ jobs' = jobs
          /\ \A c \in Conns : interest'[c] = {} => interest[c] = {} /\ status'[c] = status[c]
        BY <1>1, <1>3 DEF Accept
    <2>2. Typed'
        BY <1>1, <1>2, <2>1 DEF Inv, Typed, TypeOK, ClientTypes, ServerTypes, MainOrder, Shape
    <2>3. ASSUME NEW c \in Conns, Disarmed(c)' PROVE Held(c)'
        <3>1. Held(c) /\ e.c # c
            BY <1>2, <1>3, <2>1, <2>3 DEF Inv, Attended, Disarmed
        <3> QED  BY <1>2, <2>1, <3>1
                 DEF Held, Reported, Queued, Tended, Pending, Posted, Arms, ArmsLater
    <2> QED  BY <2>2, <2>3 DEF Inv, Attended
<1>4. CASE e.c # Listener /\ CloseConnection(e.c) /\ UNCHANGED jobs
    <2>1. /\ interest' \in [Conns -> SUBSET {EPOLLIN, EPOLLOUT}]
          /\ status' \in [Conns -> {"none", "backlog", "open", "deleted"}] /\ jobs' = jobs
          /\ \A c \in Conns : status'[c] = "open" =>
                c # e.c /\ interest'[c] = interest[c] /\ status'[c] = status[c]
        BY <1>1, <1>4
    <2>2. Typed'
        BY <1>1, <1>2, <2>1 DEF Inv, Typed, TypeOK, ClientTypes, ServerTypes, MainOrder, Shape
    <2>3. ASSUME NEW c \in Conns, Disarmed(c)' PROVE Held(c)'
        <3>1. Held(c) /\ e.c # c
            BY <1>2, <2>1, <2>3 DEF Inv, Attended, Disarmed
        <3> QED  BY <1>2, <2>1, <3>1
                 DEF Held, Reported, Queued, Tended, Pending, Posted, Arms, ArmsLater
    <2> QED  BY <2>2, <2>3 DEF Inv, Attended
<1>5. CASE /\ e.c # Listener /\ UNCHANGED <<status, interest>>
           /\ \E j \in {ReadJob(e.c), SendJob(e.c)} : jobs' = Append(jobs, j)
    <2>1. PICK j \in {ReadJob(e.c), SendJob(e.c)} : jobs' = Append(jobs, j)
        BY <1>5
    <2>2. j \in JobSet /\ j.c = e.c
        BY <1>1, <1>5, <2>1 DEF ReadJob, SendJob, JobSet
    <2>3. /\ jobs' \in Seq(JobSet) /\ \A i \in 1 .. Len(jobs) : i \in 1 .. Len(jobs')
                                                                 /\ jobs'[i] = jobs[i]
          /\ Len(jobs) + 1 \in 1 .. Len(jobs') /\ jobs'[Len(jobs) + 1] = j
        BY <1>1, <2>1, <2>2, Appended
    <2>4. Typed'
        BY <1>1, <1>2, <1>5, <2>3
           DEF Inv, Typed, TypeOK, ClientTypes, ServerTypes, MainOrder, Shape
    <2>5. ASSUME NEW c \in Conns, Disarmed(c)' PROVE Held(c)'
        <3>1. Held(c)
            BY <1>2, <1>5, <2>5 DEF Inv, Attended, Disarmed
        <3>2. CASE c = e.c
            BY <2>2, <2>3, <3>2 DEF Held, Queued
        <3>3. CASE c # e.c
            BY <1>2, <2>3, <3>1, <3>3
               DEF Held, Reported, Queued, Tended, Pending, Posted, Arms, ArmsLater
        <3> QED  BY <3>2, <3>3
    <2> QED  BY <2>4, <2>5 DEF Inv, Attended
<1> QED  BY <1>3, <1>4, <1>5 DEF HandleEvent

LEMMA SwapInv == ASSUME Inv, Swap PROVE Inv'
<1> USE DEF connVars, clientVars
<1>1. /\ main = "swap" /\ functors = <<>> /\ events = {}
      /\ functors' = m_FunctorList /\ m_FunctorList' = <<>>
      /\ main' = IF functors' = <<>> THEN "wait" ELSE "run"
      /\ UNCHANGED <<connVars, clientVars, events, posted, jobs, todo, online, clock, ub>>
    BY DEF Inv, Typed, MainOrder, Swap
<1>2. <<>> \in Seq(FunctorSet) /\ Len(<<>>) = 0
    BY EmptySeq
<1>3. Typed'
    BY <1>1, <1>2 DEF Inv, Typed, TypeOK, ClientTypes, ServerTypes, MainOrder, Shape
<1>4. ASSUME NEW c \in Conns, Disarmed(c)' PROVE Held(c)'
    <2>1. Held(c) /\ ~Pending(c)
        BY <1>1, <1>2, <1>4 DEF Inv, Attended, Disarmed, Pending
    <2> QED
        BY <1>1, <2>1 DEF Held, Reported, Queued, Tended, Pending, Posted, Arms, ArmsLater
<1> QED  BY <1>3, <1>4 DEF Inv, Attended

\* A functor that has run, and was not one that arms connection c.
LEMMA Ran ==
    ASSUME Inv, main = "run", Running
    PROVE  /\ functors # <<>> /\ Functor \in FunctorSet /\ Functor = functors[1]
           /\ functors' \in Seq(FunctorSet) /\ MainOrder' /\ main' \in {"wait", "run"}
           /\ \A c \in Conns : Held(c) /\ ~ArmsLater(Functor, c) => Held(c)'
<1>1. functors # <<>> /\ functors \in Seq(FunctorSet) /\ events = {}
    BY DEF Inv, Typed, MainOrder, ServerTypes
<1>2. /\ Functor = functors[1] /\ Functor \in FunctorSet /\ functors' \in Seq(FunctorSet)
      /\ \A i \in 2 .. Len(functors) : i - 1 \in 1 .. Len(functors')
                                       /\ functors'[i - 1] = functors[i]
    BY <1>1, HeadTail DEF Functor, Running
<1>3. MainOrder' /\ main' \in {"wait", "run"}
    BY <1>1 DEF Running, MainOrder
<1>4. ASSUME NEW c \in Conns, Held(c), ~ArmsLater(Functor, c) PROVE Held(c)'
    <2>1. CASE Pending(c)
        <3>1. PICK i \in 1 .. Len(functors) : ArmsLater(functors[i], c)
            BY <2>1 DEF Pending
        <3>2. i \in 2 .. Len(functors)
            BY <1>2, <1>4, <3>1
        <3>3. i - 1 \in 1 .. Len(functors') /\ ArmsLater(functors'[i - 1], c)
            BY <1>2, <3>1, <3>2
        <3> QED  BY <3>3 DEF Held, Pending
    <2>2. CASE ~Pending(c)
        BY <1>4, <2>2 DEF Held, Reported, Queued, Tended, Posted, Arms, ArmsLater, Running
    <2> QED  BY <2>1, <2>2
<1> QED  BY <1>1, <1>2, <1>3, <1>4

LEMMA RunFunctorInv == ASSUME Inv, RunFunctor PROVE Inv'
<1> USE DEF clientVars, CloseConnection
<1>1. main = "run" /\ Running
    BY DEF RunFunctor, SendTextToOneUser_, SendTextToAllUser, RemoveOnlineUser, CloseFunctor
<1>2. /\ Functor \in FunctorSet
      /\ functors' \in Seq(FunctorSet) /\ MainOrder' /\ main' \in {"wait", "run"}
      /\ \A c \in Conns : Held(c) /\ ~ArmsLater(Functor, c) => Held(c)'
    BY <1>1, Ran
<1>3. /\ status \in [Conns -> {"none", "backlog", "open", "deleted"}]
      /\ interest \in [Conns -> SUBSET {EPOLLIN, EPOLLOUT}]
      /\ outBuffer \in [Conns -> Seq(MessageSet)]
    BY DEF Inv, Typed, TypeOK, ClientTypes
<1>4. ASSUME status' \in [Conns -> {"none", "backlog", "open", "deleted"}],
             interest' \in [Conns -> SUBSET {EPOLLIN, EPOLLOUT}],
             outBuffer' \in [Conns -> Seq(MessageSet)],
             \A c \in Conns : status'[c] = "open" /\ interest'[c] = {}
                 => status[c] = "open" /\ interest[c] = {} /\ ~ArmsLater(Functor, c)
      PROVE  Inv'
    <2>1. Typed'
        BY <1>1, <1>2, <1>4 DEF Running, Inv, Typed, TypeOK, ClientTypes, ServerTypes, Shape
    <2>2. Attended'
        BY <1>1, <1>2, <1>4 DEF Inv, Attended, Disarmed, Running
    <2> QED  BY <2>1, <2>2 DEF Inv
<1>5. ASSUME NEW cs, NEW m \in MessageSet, SendTo(cs, m), status' = status,
             \A c \in Conns : ArmsLater(Functor, c) => c \in cs
      PROVE  Inv'
    <2>1. \A c \in Conns : Append(outBuffer[c], m) \in Seq(MessageSet)
        BY <1>3, AppendProperties
    <2>2. outBuffer' \in [Conns -> Seq(MessageSet)]
        BY <1>3, <1>5, <2>1 DEF SendTo
    <2>3. /\ interest' \in [Conns -> SUBSET {EPOLLIN, EPOLLOUT}]
          /\ \A c \in Conns : interest'[c] = {} => interest[c] = {} /\ c \notin cs
        BY <1>3, <1>5 DEF SendTo
    <2> QED  BY <1>3, <1>4, <1>5, <2>2, <2>3
<1>6. CASE SendTextToOneUser_
    <2>1. /\ Functor.fn = "one" /\ status' = status /\ SendTo({Functor.c}, Functor.m)
          /\ Functor.m \in MessageSet
        BY <1>2, <1>6, FunctorKind DEF SendTextToOneUser_
    <2> QED  BY <1>5, <2>1 DEF ArmsLater
<1>7. ASSUME NEW p, SendTextToAllUser(p) PROVE Inv'
    <2>1. /\ Functor.fn = "all" /\ status' = status /\ Functor.m \in MessageSet
          /\ SendTo({online[i].value : i \in DOMAIN online}, Functor.m)
        BY <1>2, <1>7, FunctorKind DEF SendTextToAllUser
    <2> QED  BY <1>5, <2>1 DEF ArmsLater
<1>8. CASE RemoveOnlineUser
    <2>1. Functor.fn = "remove" /\ UNCHANGED <<status, interest, outBuffer>>
        BY <1>8 DEF RemoveOnlineUser
    <2> QED  BY <1>3, <1>4, <2>1 DEF ArmsLater
<1>9. CASE CloseFunctor
    <2>1. /\ Functor.fn = "close" /\ Functor.c \in Conns /\ outBuffer' = outBuffer
          /\ status' = [status EXCEPT ![Functor.c] = "deleted"]
          /\ interest' = [interest EXCEPT ![Functor.c] = {}]
        BY <1>2, <1>9, FunctorKind DEF CloseFunctor
    <2> QED  BY <1>3, <1>4, <2>1 DEF ArmsLater
<1> QED  BY <1>6, <1>7, <1>8, <1>9 DEF RunFunctor

-----------------------------------------------------------------------------
(***************************************************************************)
(* The steps of the workers.                                               *)
(***************************************************************************)

LEMMA TakeJobInv == ASSUME Inv, NEW w \in Workers, TakeJob(w) PROVE Inv'
<1> USE DEF connVars, clientVars, mainVars
<1>1. /\ jobs \in Seq(JobSet) /\ jobs # <<>> /\ todo[w] = <<>>
      /\ todo' = [todo EXCEPT ![w] = <<Head(jobs)>>] /\ jobs' = Tail(jobs)
      /\ UNCHANGED <<connVars, clientVars, mainVars, m_FunctorList, posted, online, clock, ub>>
    BY DEF TakeJob, Inv, Typed, ServerTypes
<1>2. /\ Head(jobs) = jobs[1] /\ Head(jobs) \in JobSet /\ jobs' \in Seq(JobSet)
      /\ \A i \in 2 .. Len(jobs) : i - 1 \in 1 .. Len(jobs') /\ jobs'[i - 1] = jobs[i]
    BY <1>1, HeadTail
<1> DEFINE job == Head(jobs)
           ops == <<job>>
<1>3. job \in OpSet /\ job.c \in Conns /\ Arms(job, job.c)
    BY <1>2 DEF OpSet, JobSet, Arms
<1> HIDE DEF job
<1>4. ops \in Seq(OpSet) /\ Len(ops) = 1 /\ ops[1] = job /\ Shape(ops)
    BY <1>3, One DEF Shape
<1>5. GoOn(w, ops)
    BY <1>1 DEF GoOn, job
<1> HIDE DEF ops
<1>6. /\ todo' \in [Workers -> Seq(OpSet)] /\ todo'[w] = ops
      /\ \A v \in Workers : Shape(todo'[v])
      /\ \A v \in Workers \ {w} : todo'[v] = todo[v]
    BY <1>4, <1>5, GoneOn DEF Inv
<1>7. Typed'
    BY <1>1, <1>2, <1>6
       DEF Inv, Typed, TypeOK, ClientTypes, ServerTypes, MainOrder, Shape
<1>8. ASSUME NEW c \in Conns, Disarmed(c)' PROVE Held(c)'
    <2>1. Held(c)
        BY <1>1, <1>8 DEF Inv, Attended, Disarmed
    <2>2. CASE Queued(c)
        <3>1. PICK i \in 1 .. Len(jobs) : jobs[i].c = c
            BY <2>2 DEF Queued
        <3>2. CASE i = 1
            <4>1. Arms(ops[1], c)
                BY <1>2, <1>3, <1>4, <3>1, <3>2 DEF job
            <4>2. todo'[w] = ops /\ 1 \in 1 .. Len(ops)
                BY <1>4, <1>6
            <4>3. Tended(w, c)'
                BY <4>1, <4>2 DEF Tended, Arms
            <4> QED  BY <4>3 DEF Held
        <3>3. CASE i # 1
            <4>1. i - 1 \in 1 .. Len(jobs') /\ jobs'[i - 1].c = c
                BY <1>2, <3>1, <3>3
            <4> QED  BY <4>1 DEF Held, Queued
        <3> QED  BY <3>2, <3>3
    <2>3. CASE \E v \in Workers : Tended(v, c)
        <3>1. PICK v \in Workers : Tended(v, c)
            BY <2>3
        <3>2. v # w
            <4>1. Len(todo[w]) = 0
                BY <1>1, EmptySeq
            <4> QED  BY <3>1, <4>1 DEF Tended
        <3>3. Tended(v, c)'
            BY <1>6, <3>1, <3>2 DEF Tended, Arms
        <3> QED  BY <3>3 DEF Held
    <2>4. CASE Reported(c) \/ Pending(c) \/ Posted(c)
        BY <1>1, <2>4 DEF Held, Reported, Pending, Posted, ArmsLater
    <2> QED  BY <2>1, <2>2, <2>3, <2>4 DEF Held
<1> QED  BY <1>7, <1>8 DEF Inv, Attended

\* Worker w has done something and goes on with ops: nobody is forgotten if whoever w
\* tended to is tended to still, or in the list of functors.
LEMMA WorkerAttends ==
    ASSUME Inv, NEW w \in Workers, NEW ops \in Seq(OpSet), Shape(ops), GoOn(w, ops),
           UNCHANGED <<mainVars, jobs>>,
           \A c \in Conns : Posted(c) => Posted(c)',
           \A c \in Conns : Disarmed(c)' =>
               /\ Disarmed(c)
               /\ Tended(w, c) => Posted(c)' \/ \E i \in 1 .. Len(ops) : Arms(ops[i], c)
    PROVE  Attended'
<1>1. todo'[w] = ops /\ \A v \in Workers \ {w} : todo'[v] = todo[v]
    BY GoneOn DEF Inv
<1> SUFFICES ASSUME NEW c \in Conns, Disarmed(c)' PROVE Held(c)'
    BY DEF Attended
<1>2. Held(c)
    BY DEF Inv, Attended
<1>3. CASE Tended(w, c)
    <2>1. Posted(c)' \/ \E i \in 1 .. Len(todo'[w]) : Arms(todo'[w][i], c)
        BY <1>1, <1>3
    <2>2. Posted(c)' \/ Tended(w, c)'
        BY <2>1 DEF Tended, Arms
    <2> QED  BY <2>2 DEF Held
<1>4. ASSUME NEW v \in Workers \ {w}, Tended(v, c) PROVE Held(c)'
    <2>1. Tended(v, c)'
        BY <1>1, <1>4 DEF Tended, Arms
    <2> QED  BY <2>1 DEF Held
<1>5. CASE Posted(c)
    BY <1>5 DEF Held
<1>6. CASE Reported(c) \/ Queued(c) \/ Pending(c)
    BY <1>6 DEF Held, Reported, Queued, Pending, ArmsLater, mainVars
<1> QED  BY <1>2, <1>3, <1>4, <1>5, <1>6 DEF Held

\* Whom a worker tends to, by what it is at.
LEMMA TendsTo ==
    ASSUME Inv, NEW w \in Workers, todo[w] # <<>>, NEW c \in Conns, Tended(w, c)
    PROVE  Arms(Op(w), c) \/ \E i \in 1 .. Len(Tail(todo[w])) : Arms(Tail(todo[w])[i], c)
<1>1. /\ Op(w) = todo[w][1]
      /\ \A i \in 2 .. Len(todo[w]) : i - 1 \in 1 .. Len(Tail(todo[w]))
                                      /\ Tail(todo[w])[i - 1] = todo[w][i]
    BY AtHead DEF Inv
<1>2. PICK i \in 1 .. Len(todo[w]) : Arms(todo[w][i], c)
    BY DEF Tended
<1>3. CASE i = 1
    BY <1>1, <1>2, <1>3
<1>4. CASE i # 1
    <2>1. i \in 2 .. Len(todo[w])
        BY <1>2, <1>4
    <2>2. i - 1 \in 1 .. Len(Tail(todo[w])) /\ Arms(Tail(todo[w])[i - 1], c)
        BY <1>1, <1>2, <2>1
    <2> QED  BY <2>2
<1> QED  BY <1>3, <1>4

LEMMA TendsToLast ==
    ASSUME Inv, NEW w \in Workers, todo[w] # <<>>, Op(w).do \in LastOnly,
           NEW c \in Conns, Tended(w, c)
    PROVE  Arms(Op(w), c)
<1>1. Len(Tail(todo[w])) = 0
    BY AtHead, EmptySeq DEF Inv
<1>2. ~\E i \in 1 .. Len(Tail(todo[w])) : Arms(Tail(todo[w])[i], c)
    BY <1>1
<1> QED  BY <1>2, TendsTo

\* The types of what a step of a worker leaves as it was.
LEMMA WorkerTypes ==
    ASSUME Typed, NEW w \in Workers, NEW ops \in Seq(OpSet), Shape(ops), GoOn(w, ops),
           UNCHANGED <<user, sent, mainVars, jobs, clock>>,
           status' \in [Conns -> {"none", "backlog", "open", "deleted"}],
           m_account' \in [Conns -> AnyAccount],
           interest' \in [Conns -> SUBSET {EPOLLIN, EPOLLOUT}],
           inBuffer' \in [Conns -> Seq(RequestSet)], socket' \in [Conns -> Seq(RequestSet)],
           outBuffer' \in [Conns -> Seq(MessageSet)], phase' \in [Conns -> ClientPhase],
           delivered' \in [Conns -> Seq(Nat)], ignored' \subseteq Conns,
           m_FunctorList' \in Seq(FunctorSet), posted' \in Nat
    PROVE  Typed'
<1>1. todo' \in [Workers -> Seq(OpSet)] /\ \A v \in Workers : Shape(todo'[v])
    BY GoneOn
<1> QED
    BY <1>1 DEF Typed, TypeOK, ClientTypes, ServerTypes, MainOrder, mainVars, AnyAccount, Shape

LEMMA Types ==
    ASSUME Inv
    PROVE  /\ status \in [Conns -> {"none", "backlog", "open", "deleted"}]
           /\ m_account \in [Conns -> AnyAccount]
           /\ interest \in [Conns -> SUBSET {EPOLLIN, EPOLLOUT}]
           /\ inBuffer \in [Conns -> Seq(RequestSet)] /\ socket \in [Conns -> Seq(RequestSet)]
           /\ outBuffer \in [Conns -> Seq(MessageSet)] /\ phase \in [Conns -> ClientPhase]
           /\ delivered \in [Conns -> Seq(Nat)] /\ ignored \subseteq Conns
           /\ m_FunctorList \in Seq(FunctorSet) /\ posted \in Nat
BY DEF Inv, Typed, TypeOK, ClientTypes, ServerTypes, AnyAccount

LEMMA ReadInv == ASSUME Inv, NEW w \in Workers, Read(w) PROVE Inv'
<1> USE DEF mainVars
<1> DEFINE c == Op(w).c
           got == inBuffer[c] \o socket[c]
<1>1. /\ todo[w] # <<>> /\ Op(w).do = "read" /\ Op(w) \in OpSet /\ c \in Conns
      /\ status[c] = "open"
    BY AtHead, OpKind DEF Inv, Read, Doing, Op
<1>2. UNCHANGED <<m_account, outBuffer, phase, user, loginMsg, delivered, sent, mainVars,
                  m_FunctorList, posted, jobs, online, clock, ub>>
    BY DEF Read
<1>3. \A d \in Conns : Tended(w, d) => d = c
    BY <1>1, TendsToLast DEF LastOnly, Arms
<1>4. \A d \in Conns : Posted(d)' <=> Posted(d)
    BY <1>2 DEF Posted, ArmsLater
<1> HIDE DEF c
<1>5. CASE socket[c] # <<>>
    <2>1. /\ inBuffer' = [inBuffer EXCEPT ![c] = Tail(got)]
          /\ socket' = [socket EXCEPT ![c] = <<>>]
          /\ \E valid \in BOOLEAN : GoOn(w, Handle(c, Head(got), valid))
          /\ ignored' = IF Head(got).op = "UNMATCHED" THEN ignored \union {c} ELSE ignored
          /\ UNCHANGED <<status, interest>>
        BY <1>5 DEF Read, c
    <2>2. got \in Seq(RequestSet) /\ got # <<>>
        BY <1>1, <1>5, Types, ConcatProperties, ConcatEqualIffEmpty
    <2> HIDE DEF got
    <2>3. Head(got) \in RequestSet /\ Tail(got) \in Seq(RequestSet)
        BY <2>2, HeadTail
    <2>4. PICK valid \in BOOLEAN : GoOn(w, Handle(c, Head(got), valid))
        BY <2>1
    <2> DEFINE ops == Handle(c, Head(got), valid)
    <2>5. /\ ops \in Seq(OpSet) /\ Shape(ops)
          /\ Head(got).op = "UNMATCHED" \/ \E i \in 1 .. Len(ops) : Arms(ops[i], c)
        <3>1. CASE Head(got).op = "UNMATCHED"
            BY <3>1, EmptySeq DEF Handle, Shape
        <3>2. CASE Head(got).op # "UNMATCHED"
            BY <1>1, <2>3, <3>2, HandleTends DEF Inv, Tends
        <3> QED  BY <3>1, <3>2
    <2> HIDE DEF ops
    <2>6. GoOn(w, ops)
        BY <2>4 DEF ops
    <2>7. /\ inBuffer' \in [Conns -> Seq(RequestSet)] /\ socket' \in [Conns -> Seq(RequestSet)]
        BY <2>1, <2>3, Types, EmptySeq
    <2>8. Typed'
        BY <1>1, <1>2, <2>1, <2>5, <2>6, <2>7, Types, WorkerTypes DEF Inv
    <2>9. \A d \in Conns : Disarmed(d)' =>
              /\ Disarmed(d)
              /\ Tended(w, d) => \E i \in 1 .. Len(ops) : Arms(ops[i], d)
        BY <1>3, <2>1, <2>5 DEF Disarmed
    <2>10. Attended'
        BY <1>2, <1>4, <2>5, <2>6, <2>9, WorkerAttends
    <2> QED  BY <2>8, <2>10 DEF Inv
<1>6. CASE socket[c] = <<>> /\ phase[c] = "left"
    <2>1. CloseConnection(c) /\ GoOn(w, <<>>) /\ UNCHANGED <<inBuffer, socket, ignored>>
        BY <1>6 DEF Read, c
    <2>2. <<>> \in Seq(OpSet) /\ Shape(<<>>)
        BY EmptySeq DEF Shape
    <2>3. /\ status' \in [Conns -> {"none", "backlog", "open", "deleted"}]
          /\ interest' \in [Conns -> SUBSET {EPOLLIN, EPOLLOUT}]
          /\ \A d \in Conns : status'[d] = "open" =>
                d # c /\ status[d] = "open" /\ interest'[d] = interest[d]
        BY <1>1, <2>1, Types DEF CloseConnection
    <2>4. Typed'
        BY <1>2, <2>1, <2>2, <2>3, Types, WorkerTypes DEF Inv
    <2>5. Attended'
        BY <1>2, <1>3, <1>4, <2>1, <2>2, <2>3, WorkerAttends DEF Disarmed
    <2> QED  BY <2>4, <2>5 DEF Inv
<1>7. CASE socket[c] = <<>> /\ phase[c] # "left"
    <2>1. /\ GoOn(w, <<Mod(c, {EPOLLIN})>>)
          /\ UNCHANGED <<inBuffer, socket, ignored, status, interest>>
        BY <1>7 DEF Read, c
    <2> DEFINE op == Mod(c, {EPOLLIN})
               ops == <<op>>
    <2>2. op \in OpSet /\ Arms(op, c)
        BY <1>1, ModOp, Interests
    <2> HIDE DEF op
    <2>3. ops \in Seq(OpSet) /\ Shape(ops) /\ \E i \in 1 .. Len(ops) : Arms(ops[i], c)
        BY <2>2, One DEF Shape
    <2>4. GoOn(w, ops)
        BY <2>1 DEF op
    <2> HIDE DEF ops
    <2>5. Typed'
        BY <1>2, <2>1, <2>3, <2>4, Types, WorkerTypes DEF Inv
    <2>6. Attended'
        BY <1>2, <1>3, <1>4, <2>1, <2>3, <2>4, WorkerAttends DEF Disarmed
    <2> QED  BY <2>5, <2>6 DEF Inv
<1> QED  BY <1>5, <1>6, <1>7

LEMMA LookupInv == ASSUME Inv, NEW w \in Workers, Lookup(w) PROVE Inv'
<1> USE DEF clientVars, mainVars
<1> DEFINE c == Op(w).c
           r == Op(w).r
           found == Cache!Contains(online, r.account)
           ops == AfterLookup(c, r, found) \o Tail(todo[w])
<1>1. /\ todo[w] # <<>> /\ Op(w).do = "get" /\ Op(w) \in OpSet /\ c \in Conns
      /\ r \in LookupSet /\ Tail(todo[w]) = <<>>
    BY AtHead, OpKind DEF Inv, Lookup, Doing, Op, LastOnly
<1>2. /\ UNCHANGED <<status, interest, inBuffer, outBuffer, m_FunctorList, posted>>
      /\ UNCHANGED <<clientVars, mainVars, jobs, clock, ub>>
    BY DEF Lookup, ServerOnly
<1>3. m_account' \in {m_account, [m_account EXCEPT ![c] = r.account]}
    BY DEF Lookup
<1>4. m_account' \in [Conns -> AnyAccount]
    BY <1>1, <1>3, Types DEF LookupSet
<1>5. GoOn(w, ops)
    BY DEF Lookup
<1>6. \A d \in Conns : Tended(w, d) => d = c /\ r.op # "ACK"
    BY <1>1, TendsToLast DEF LastOnly, Arms
<1>7. \A d \in Conns : Posted(d)' <=> Posted(d)
    BY <1>2 DEF Posted, ArmsLater
<1>8. found \in BOOLEAN
    BY DEF Cache!Contains
<1>9. /\ ops \in Seq(OpSet) /\ Shape(ops)
      /\ r.op # "ACK" => \E i \in 1 .. Len(ops) : Arms(ops[i], c)
    <2> HIDE DEF c, r, found
    <2>1. CASE r.op = "ACK"
        <3>1. ops = <<>>
            BY <1>1, <2>1 DEF AfterLookup
        <3>2. <<>> \in Seq(OpSet) /\ Shape(<<>>)
            BY EmptySeq DEF Shape
        <3> QED  BY <2>1, <3>1, <3>2
    <2>2. CASE r.op # "ACK"
        <3>1. Tends(AfterLookup(c, r, found), c)
            BY <1>1, <1>8, <2>2, LookupTends
        <3>2. ops = AfterLookup(c, r, found)
            BY <1>1, <3>1, ConcatEmptySeq DEF Tends
        <3> QED  BY <3>1, <3>2 DEF Tends
    <2> QED  BY <2>1, <2>2
<1> HIDE DEF c, r, found, ops
<1>10. Typed'
    BY <1>2, <1>4, <1>5, <1>9, Types, WorkerTypes DEF Inv
<1>11. Attended'
    BY <1>2, <1>5, <1>6, <1>7, <1>9, WorkerAttends DEF Disarmed
<1> QED  BY <1>10, <1>11 DEF Inv

\* A step after which worker w goes on with the rest of what it had to do.
LEMMA RestInv ==
    ASSUME Inv, NEW w \in Workers, todo[w] # <<>>, GoOn(w, Tail(todo[w])), ServerOnly,
           UNCHANGED <<status, m_account, inBuffer, outBuffer>>,
           interest' \in [Conns -> SUBSET {EPOLLIN, EPOLLOUT}],
           m_FunctorList' \in Seq(FunctorSet), posted' \in Nat,
           \A c \in Conns : Posted(c) => Posted(c)',
           \A c \in Conns : status[c] = "open" /\ interest'[c] = {} =>
               /\ interest[c] = {}
               /\ Arms(Op(w), c) => Posted(c)'
    PROVE  Inv'
<1> USE DEF ServerOnly, clientVars, mainVars
<1> DEFINE ops == Tail(todo[w])
<1>1. ops \in Seq(OpSet) /\ Shape(ops)
    BY AtHead DEF Inv
<1>2. \A c \in Conns : Tended(w, c) => Arms(Op(w), c) \/ \E i \in 1 .. Len(ops) : Arms(ops[i], c)
    BY TendsTo
<1>3. GoOn(w, ops)
    OBVIOUS
<1> HIDE DEF ops
<1>4. Typed'
    BY <1>1, <1>3, Types, WorkerTypes DEF Inv
<1>5. \A c \in Conns : Disarmed(c)' =>
          /\ Disarmed(c)
          /\ Tended(w, c) => Posted(c)' \/ \E i \in 1 .. Len(ops) : Arms(ops[i], c)
    BY <1>2 DEF Disarmed
<1>6. Attended'
    BY <1>1, <1>3, <1>5, WorkerAttends
<1> QED  BY <1>4, <1>6 DEF Inv

LEMMA PutOnlineInv == ASSUME Inv, NEW w \in Workers, PutOnline(w) PROVE Inv'
<1>1. /\ todo[w] # <<>> /\ Op(w).do = "put" /\ GoOn(w, Tail(todo[w])) /\ ServerOnly
      /\ UNCHANGED <<status, m_account, interest, inBuffer, outBuffer, m_FunctorList, posted>>
    BY DEF PutOnline, Doing, Op, connVars
<1>2. \A c \in Conns : ~Arms(Op(w), c)
    BY <1>1 DEF Arms
<1>3. \A c \in Conns : Posted(c)' <=> Posted(c)
    BY <1>1 DEF Posted, ArmsLater
<1> QED  BY <1>1, <1>2, <1>3, Types, RestInv

LEMMA ModEventsInv == ASSUME Inv, NEW w \in Workers, ModEvents(w) PROVE Inv'
<1> DEFINE c == Op(w).c
<1>1. /\ todo[w] # <<>> /\ Op(w).do = "mod" /\ GoOn(w, Tail(todo[w])) /\ ServerOnly
      /\ UNCHANGED <<status, m_account, inBuffer, outBuffer, m_FunctorList, posted>>
      /\ interest' = IF status[c] = "open" THEN [interest EXCEPT ![c] = Op(w).ev] ELSE interest
    BY DEF ModEvents, Doing, Op
<1>2. c \in Conns /\ Op(w).ev \in SUBSET {EPOLLIN, EPOLLOUT} /\ Op(w).ev # {}
    BY <1>1, AtHead, OpKind DEF Inv
<1>3. \A d \in Conns : Arms(Op(w), d) => d = c
    BY <1>1 DEF Arms
<1>4. \A d \in Conns : Posted(d)' <=> Posted(d)
    BY <1>1 DEF Posted, ArmsLater
<1> HIDE DEF c
<1>5. /\ interest' \in [Conns -> SUBSET {EPOLLIN, EPOLLOUT}]
      /\ \A d \in Conns : status[d] = "open" /\ interest'[d] = {} => interest[d] = {} /\ d # c
    BY <1>1, <1>2, Types
<1> QED  BY <1>1, <1>3, <1>4, <1>5, Types, RestInv

LEMMA AddFunctorInv == ASSUME Inv, NEW w \in Workers, AddFunctor(w) PROVE Inv'
<1> DEFINE f == Op(w).f
           g == m_FunctorList'[Len(m_FunctorList) + 1]
<1>1. /\ todo[w] # <<>> /\ Op(w).do = "addFunctor" /\ GoOn(w, Tail(todo[w])) /\ ServerOnly
      /\ UNCHANGED <<status, m_account, interest, inBuffer, outBuffer>>
    BY DEF AddFunctor, Doing, Op, connVars
<1>2. f \in NewFunctorSet /\ m_FunctorList \in Seq(FunctorSet) /\ posted \in Nat
    BY <1>1, AtHead, OpKind, Types DEF Inv
<1> DEFINE chat == f.fn = "all" /\ f.m.kind = "SEND"
           h == IF chat THEN [f EXCEPT !.m.n = posted'] ELSE f
<1>3. posted' \in Nat
    BY <1>2 DEF AddFunctor
<1>4. h \in FunctorSet /\ \A c \in Conns : ArmsLater(h, c) <=> ArmsLater(f, c)
    <2> HIDE DEF f
    <2>1. CASE chat
        <3>1. f \in [fn : {"all"}, m : MessageSet]
            BY <1>2, <2>1 DEF NewFunctorSet, PlainSet, MessageSet
        <3>2. h \in [fn : {"all"}, m : MessageSet]
            BY <1>3, <2>1, <3>1 DEF MessageSet
        <3> QED  BY <3>1, <3>2 DEF FunctorSet, ArmsLater
    <2>2. CASE ~chat
        BY <1>2, <2>2 DEF FunctorSet
    <2> QED  BY <2>1, <2>2
<1>5. m_FunctorList' = Append(m_FunctorList, h)
    BY DEF AddFunctor
<1>6. \A c \in Conns : Arms(Op(w), c) => ArmsLater(f, c)
    BY <1>1 DEF Arms, ArmsLater
<1> HIDE DEF f, h
<1>7. /\ m_FunctorList' \in Seq(FunctorSet)
      /\ \A i \in 1 .. Len(m_FunctorList) : i \in 1 .. Len(m_FunctorList')
                                            /\ m_FunctorList'[i] = m_FunctorList[i]
      /\ Len(m_FunctorList) + 1 \in 1 .. Len(m_FunctorList') /\ g = h
    BY <1>2, <1>4, <1>5, Appended
<1>8. \A c \in Conns : Posted(c) => Posted(c)'
    BY <1>7 DEF Posted, ArmsLater
<1>9. \A c \in Conns : Arms(Op(w), c) => Posted(c)'
    BY <1>4, <1>6, <1>7 DEF Posted, ArmsLater
<1> QED  BY <1>1, <1>3, <1>7, <1>8, <1>9, Types, RestInv

LEMMA AskSizeInv == ASSUME Inv, NEW w \in Workers, AskSize(w) PROVE Inv'
<1> USE DEF clientVars, mainVars
<1> DEFINE c == Op(w).c
           notice == Add(c, ToAll("NOTICE"))
           list == Add(c, UpdateOnlineList)
           ops == IF Len(online) > 1 THEN <<notice, list>> ELSE <<>>
<1>1. /\ todo[w] # <<>> /\ Op(w).do = "size" /\ Op(w) \in OpSet /\ c \in Conns
    BY AtHead, OpKind DEF Inv, AskSize, Doing, Op
<1>2. /\ UNCHANGED <<status, m_account, interest, inBuffer, outBuffer, m_FunctorList, posted>>
      /\ UNCHANGED <<clientVars, mainVars, jobs, clock, ub>> /\ GoOn(w, ops)
    BY DEF AskSize, ServerOnly, connVars
<1>3. \A d \in Conns : ~Tended(w, d)
    BY <1>1, TendsToLast DEF LastOnly, Arms
<1>4. \A d \in Conns : Posted(d)' <=> Posted(d)
    BY <1>2 DEF Posted, ArmsLater
<1>5. notice \in OpSet /\ notice.do = "addFunctor" /\ list \in OpSet /\ list.do = "addFunctor"
    BY <1>1, AddOp, FunctorTypes DEF Kinds, UpdateOnlineList
<1> HIDE DEF notice, list
<1>6. ops \in Seq(OpSet) /\ Shape(ops)
    BY <1>5, Two, EmptySeq DEF Shape, LastOnly
<1> HIDE DEF ops
<1>7. Typed'
    BY <1>2, <1>6, Types, WorkerTypes DEF Inv
<1>8. Attended'
    BY <1>2, <1>3, <1>4, <1>6, WorkerAttends DEF Disarmed
<1> QED  BY <1>7, <1>8 DEF Inv

\* A write of the first k messages in the buffer.
LEMMA Written ==
    ASSUME NEW s \in Seq(MessageSet), NEW k \in 0 .. Len(s)
    PROVE  SubSeq(s, k + 1, Len(s)) \in Seq(MessageSet) /\ SubSeq(s, 1, k) \in Seq(MessageSet)
<1>1. Len(s) \in Nat /\ \A i \in 1 .. Len(s) : s[i] \in MessageSet
    BY LenProperties, ElementOfSeq
<1>2. /\ \A i \in (k + 1) .. Len(s) : s[i] \in MessageSet
      /\ \A i \in 1 .. k : s[i] \in MessageSet
    BY <1>1
<1>3. k + 1 \in Nat /\ Len(s) \in Nat /\ k \in Nat /\ 1 \in Nat
    BY <1>1
<1> QED  BY <1>1, <1>2, <1>3, SubSeqProperties

LEMMA ReceiveTypes ==
    ASSUME Inv, NEW c \in Conns, NEW ms \in Seq(MessageSet), Receive(c, ms)
    PROVE  phase' \in [Conns -> ClientPhase] /\ delivered' \in [Conns -> Seq(Nat)]
<1>1. phase \in [Conns -> ClientPhase] /\ delivered \in [Conns -> Seq(Nat)]
    BY Types
<1>2. [i \in DOMAIN ms |-> ms[i].n] \in Seq(Nat)
    <2>1. DOMAIN ms = 1 .. Len(ms) /\ Len(ms) \in Nat /\ \A i \in DOMAIN ms : ms[i].n \in Nat
        <3>1. DOMAIN ms = 1 .. Len(ms) /\ Len(ms) \in Nat
            BY LenProperties
        <3>2. \A i \in DOMAIN ms : ms[i] \in MessageSet
            BY <3>1, ElementOfSeq
        <3> QED  BY <3>1, <3>2 DEF MessageSet
    <2> QED  BY <2>1, SeqDef
<1>3. delivered' = [delivered EXCEPT ![c] = @ \o [i \in DOMAIN ms |-> ms[i].n]]
    BY DEF Receive
<1>4. delivered' \in [Conns -> Seq(Nat)]
    <2> DEFINE new == [i \in DOMAIN ms |-> ms[i].n]
    <2>1. new \in Seq(Nat) /\ delivered' = [delivered EXCEPT ![c] = delivered[c] \o new]
        BY <1>2, <1>3
    <2> HIDE DEF new
    <2>2. delivered[c] \o new \in Seq(Nat)
        BY <1>1, <2>1, ConcatProperties
    <2> QED  BY <1>1, <2>1, <2>2
<1>5. \E p \in ClientPhase : phase' = [phase EXCEPT ![c] = p]
    <2>1. {"connected", "welcome", "rejoined", phase[c]} \subseteq ClientPhase
        BY <1>1 DEF ClientPhase
    <2> DEFINE p == IF ms = <<>> THEN phase[c]
                    ELSE CASE phase[c] = "login" -> IF loginMsg'[c] \in Refusals
                                                    THEN "connected" ELSE "welcome"
                           [] phase[c] = "register"  -> "connected"
                           [] phase[c] = "reconnect" -> "rejoined"
                           [] OTHER -> phase[c]
    <2>2. phase' = [phase EXCEPT ![c] = p]
        BY DEF Receive
    <2>3. p \in {"connected", "welcome", "rejoined", phase[c]}
        OBVIOUS
    <2> HIDE DEF p
    <2> QED  BY <2>1, <2>2, <2>3
<1>6. phase' \in [Conns -> ClientPhase]
    BY <1>1, <1>5
<1> QED  BY <1>4, <1>6

LEMMA SendInv == ASSUME Inv, NEW w \in Workers, Send(w) PROVE Inv'
<1> USE DEF mainVars
<1> DEFINE c == Op(w).c
           n == Len(outBuffer[c])
<1>1. /\ todo[w] # <<>> /\ Op(w).do = "send" /\ Op(w) \in OpSet /\ c \in Conns
      /\ status[c] = "open"
    BY AtHead, OpKind DEF Inv, Send, Doing, Op
<1>2. UNCHANGED <<m_account, inBuffer, user, socket, sent, ignored, mainVars, m_FunctorList,
                  posted, jobs, online, clock, ub>>
    BY DEF Send
<1>3. \A d \in Conns : Tended(w, d) => d = c
    BY <1>1, TendsToLast DEF LastOnly, Arms
<1>4. \A d \in Conns : Posted(d)' <=> Posted(d)
    BY <1>2 DEF Posted, ArmsLater
<1>5. outBuffer[c] \in Seq(MessageSet) /\ n \in Nat
    BY <1>1, Types, LenProperties
\* Whatever was written, the connection is armed again.
<1>6. ASSUME NEW ev \in (SUBSET {EPOLLIN, EPOLLOUT}) \ {{}}, GoOn(w, <<Mod(c, ev)>>),
             UNCHANGED <<status, interest>>,
             outBuffer' \in [Conns -> Seq(MessageSet)], phase' \in [Conns -> ClientPhase],
             delivered' \in [Conns -> Seq(Nat)]
      PROVE  Inv'
    <2> HIDE DEF c
    <2> DEFINE op == Mod(c, ev)
               ops == <<op>>
    <2>1. op \in OpSet /\ Arms(op, c)
        BY <1>1, ModOp
    <2> HIDE DEF op
    <2>2. ops \in Seq(OpSet) /\ Shape(ops) /\ \E i \in 1 .. Len(ops) : Arms(ops[i], c)
        BY <2>1, One DEF Shape
    <2>3. GoOn(w, ops)
        BY <1>6 DEF op
    <2> HIDE DEF ops
    <2>4. Typed'
        BY <1>2, <1>6, <2>2, <2>3, Types, WorkerTypes DEF Inv
    <2>5. \A d \in Conns : Disarmed(d)' =>
              /\ Disarmed(d)
              /\ Tended(w, d) => \E i \in 1 .. Len(ops) : Arms(ops[i], d)
        BY <1>2, <1>3, <1>6, <2>2 DEF Disarmed
    <2>6. Attended'
        BY <1>2, <1>4, <2>2, <2>3, <2>5, WorkerAttends
    <2> QED  BY <2>4, <2>6 DEF Inv
<1>7. CASE /\ GoOn(w, <<Mod(c, {EPOLLIN})>>)
           /\ UNCHANGED <<status, interest, outBuffer, phase, loginMsg, delivered>>
    BY <1>6, <1>7, Interests, Types
<1>8. ASSUME NEW k \in 0 .. n,
             outBuffer' = [outBuffer EXCEPT ![c] = SubSeq(@, k + 1, n)],
             Receive(c, SubSeq(outBuffer[c], 1, k)),
             GoOn(w, <<Mod(c, IF k = n THEN {EPOLLIN} ELSE {EPOLLIN, EPOLLOUT})>>),
             UNCHANGED <<status, interest>>
      PROVE  Inv'
    <2>1. /\ SubSeq(outBuffer[c], k + 1, n) \in Seq(MessageSet)
          /\ SubSeq(outBuffer[c], 1, k) \in Seq(MessageSet)
        BY <1>5, Written
    <2>2. phase' \in [Conns -> ClientPhase] /\ delivered' \in [Conns -> Seq(Nat)]
        BY <1>1, <1>8, <2>1, ReceiveTypes
    <2>3. outBuffer' \in [Conns -> Seq(MessageSet)]
        BY <1>1, <1>8, <2>1, Types
    <2> DEFINE ev == IF k = n THEN {EPOLLIN} ELSE {EPOLLIN, EPOLLOUT}
    <2>4. ev \in (SUBSET {EPOLLIN, EPOLLOUT}) \ {{}} /\ GoOn(w, <<Mod(c, ev)>>)
        BY <1>8, Interests
    <2> HIDE DEF c, n, ev
    <2> QED  BY <1>6, <1>8, <2>2, <2>3, <2>4
<1>9. CASE CloseConnection(c) /\ GoOn(w, <<>>)
           /\ UNCHANGED <<outBuffer, phase, loginMsg, delivered>>
    <2> HIDE DEF c
    <2>1. <<>> \in Seq(OpSet) /\ Shape(<<>>)
        BY EmptySeq DEF Shape
    <2>2. /\ status' \in [Conns -> {"none", "backlog", "open", "deleted"}]
          /\ interest' \in [Conns -> SUBSET {EPOLLIN, EPOLLOUT}]
          /\ \A d \in Conns : status'[d] = "open" =>
                d # c /\ status[d] = "open" /\ interest'[d] = interest[d]
        BY <1>1, <1>9, Types DEF CloseConnection
    <2>3. Typed'
        BY <1>2, <1>9, <2>1, <2>2, Types, WorkerTypes DEF Inv
    <2>4. Attended'
        <3>1. \A d \in Conns : Disarmed(d)' => Disarmed(d) /\ ~Tended(w, d)
            BY <1>2, <1>3, <2>2 DEF Disarmed
        <3> QED  BY <1>2, <1>4, <1>9, <2>1, <3>1, WorkerAttends
    <2> QED  BY <2>3, <2>4 DEF Inv
<1>10. \/ /\ GoOn(w, <<Mod(c, {EPOLLIN})>>)
          /\ UNCHANGED <<status, interest, outBuffer, phase, loginMsg, delivered>>
       \/ \E k \in 0 .. n :
             /\ outBuffer' = [outBuffer EXCEPT ![c] = SubSeq(@, k + 1, n)]
             /\ Receive(c, SubSeq(outBuffer[c], 1, k))
             /\ GoOn(w, <<Mod(c, IF k = n THEN {EPOLLIN} ELSE {EPOLLIN, EPOLLOUT})>>)
             /\ UNCHANGED <<status, interest>>
       \/ /\ CloseConnection(c) /\ GoOn(w, <<>>)
          /\ UNCHANGED <<outBuffer, phase, loginMsg, delivered>>
    <2>1. (IF SlowPeers THEN 0 ELSE n) .. n \subseteq 0 .. n
        BY <1>5
    <2> HIDE DEF Receive, GoOn, Mod, CloseConnection
    <2> QED  BY <2>1 DEF Send
<1> QED  BY <1>7, <1>8, <1>9, <1>10

-----------------------------------------------------------------------------
(***************************************************************************)
(* The theorems.                                                           *)
(***************************************************************************)

LEMMA InitInv == Init => Inv
<1> SUFFICES ASSUME Init PROVE Inv
    OBVIOUS
<1>1. Typed
    BY EmptySeq DEF Init, Typed, TypeOK, ClientTypes, ServerTypes, MainOrder, Shape,
                    ClientPhase, AnyAccount
<1>2. Attended
    BY DEF Init, Attended, Disarmed
<1> QED  BY <1>1, <1>2 DEF Inv

LEMMA StepInv == ASSUME Inv, [Next]_vars PROVE Inv'
<1>1. CASE UNCHANGED vars
    <2>1. Typed'
        BY <1>1 DEF vars, Inv, Typed, TypeOK, ClientTypes, ServerTypes, MainOrder, Shape
    <2>2. Attended'
        <3>1. UNCHANGED <<m_account, interest, inBuffer, outBuffer, delivered, ignored,
                          mainVars, m_FunctorList, posted, jobs, todo>> /\ status' = status
            BY <1>1 DEF vars, mainVars
        <3> QED  BY <3>1, SameServer
    <2> QED  BY <2>1, <2>2 DEF Inv
<1>2. CASE MainStep
    BY <1>2, WaitInv, HandleEventInv, SwapInv, RunFunctorInv, UndefinedInv
       DEF MainStep, HandleFreed, RunFunctorUndefined
<1>3. ASSUME NEW w \in Workers, WorkerStep(w) PROVE Inv'
    BY <1>3, TakeJobInv, ReadInv, LookupInv, PutOnlineInv, AskSizeInv, AddFunctorInv,
       ModEventsInv, SendInv DEF WorkerStep
<1>4. ASSUME NEW w \in Workers, WorkerUndefined(w) PROVE Inv'
    BY <1>4, UndefinedInv DEF WorkerUndefined
<1>5. CASE RaceUndefined
    BY <1>5, UndefinedInv DEF RaceUndefined
<1>6. ASSUME NEW c \in Conns, ClientStep(c) PROVE Inv'
    BY <1>6, ClientInv
<1>7. CASE Elapse
    BY <1>7, ElapseInv
<1> QED  BY <1>1, <1>2, <1>3, <1>4, <1>5, <1>6, <1>7 DEF Next

LEMMA InvAlways == Spec => []Inv
BY InitInv, StepInv, PTL DEF Spec

\* The type invariant: statuses, accounts, armed events, phases, counters and the
\* state of the main thread keep their ranges (Server.cpp and Connection.cpp).
THEOREM ServerTypeCorrect == Spec => []TypeOK
BY InvAlways, PTL DEF Inv, Typed

\* Whatever the number of workers and the order in which they and the main thread run, an
\* open connection that is not armed is in the hands of a thread that will arm or close
\* it, or a REGISTER or LOGOUT has left a functor that will, unless its last request was
\* one that getRequestInfo drops: a CLOSE, or a protocolId without a case.
THEOREM NobodyIsOrphaned == Spec => []NeverOrphaned
<1>1. Inv => NeverOrphaned
    BY HeldInHands DEF Inv, Attended, NeverOrphaned
<1> QED  BY <1>1, InvAlways, PTL

=============================================================================
