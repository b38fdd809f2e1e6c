--------------------------- MODULE SessionProofs ---------------------------
(***************************************************************************)
(* Who is let into the chat, and who is online, for any number of          *)
(* clients, connections, workers and accounts.                             *)
(*                                                                         *)
(* The client takes whatever it finds for the answer to its login, and an  *)
(* empty reply for a success.  It is right nevertheless: while the server  *)
(* has no user for a connection, nothing but the one answer that its       *)
(* client waits for is on its way there.                                   *)
(***************************************************************************)
EXTENDS Session, AccountsProofs, SequenceTheorems

USE SessionAssumption

-----------------------------------------------------------------------------
(***************************************************************************)
(* The invariant.                                                          *)
(***************************************************************************)

\* A process waits in the window whose button was clicked, for an object it has.
Windows ==
    \A p \in Clients :
        /\ waiting[p] = "LOGIN" => window[p] = "login" /\ formClient[p] = chatClient[p]
        /\ waiting[p] = "REGISTER" => window[p] = "register"
        /\ waiting[p] = "RECONNECT" => window[p] = "chat"
        /\ waiting[p] # "nothing" \/ window[p] \in {"register", "chat"}
              => chatClient[p] # None
        /\ window[p] = "chat" => formClient[p] # None

\* An object has been connected, or tried to, by the one process it belongs to.
Owned ==
    \A p \in Clients :
        /\ chatClient[p] # None =>
              /\ socket[chatClient[p]] # "none"
              /\ \A q \in Clients : chatClient[q] = chatClient[p] => q = p
        /\ formClient[p] # None => socket[formClient[p]] # "none"

Answers(op) == IF op = "LOGIN" THEN LoginReplies ELSE {"other"}

\* A worker at a job has a connection, for itself, and answers what it was asked.
Served ==
    \A w \in Workers :
        /\ serving[w] = None <=> job[w].pc = "idle"
        /\ job[w].pc # "idle" => job[w].account \in AccountTexts
        /\ reply[w] # "nothing" => job[w].pc = "done" /\ reply[w] \in Answers(job[w].op)
        /\ \A v \in Workers : serving[v] = serving[w] /\ serving[w] # None => v = w

\* Nothing is on its way on connection k.
Quiet(k) == toServer[k] = <<>> /\ toClient[k] = <<>> /\ Free(k)

\* One request is, or its answer.
Asked(k, op) ==
    \/ /\ Len(toServer[k]) = 1 /\ toServer[k][1].op = op
       /\ toClient[k] = <<>> /\ Free(k)
    \/ /\ toServer[k] = <<>> /\ toClient[k] = <<>>
       /\ \E w \in Workers : serving[w] = k /\ job[w].op = op
    \/ /\ toServer[k] = <<>> /\ Free(k)
       /\ Len(toClient[k]) = 1 /\ toClient[k][1] \in Answers(op)

Phase(p, k) ==
    chatClient[p] = k /\ socket[k] = "connected" /\ user[k] = None =>
        /\ window[p] \in {"login", "register"} /\ waiting[p] = "nothing" => Quiet(k)
        /\ waiting[p] \in {"LOGIN", "REGISTER"} => Asked(k, waiting[p])

\* A connection without a user is in nobody's cache, has not asked to be, and has not
\* been told that its login succeeded.
Offline(k) == \A h \in Headings : online[h] # k
NoRead(k) == \A i \in 1 .. Len(toServer[k]) : toServer[k][i].op # "READ"
NoSuccess(k) == \A i \in 1 .. Len(toClient[k]) : toClient[k][i] # "SUCCESS"

Stranger(k) ==
    user[k] = None =>
        /\ Offline(k) /\ NoRead(k) /\ NoSuccess(k)
        /\ loginMsg[k] # "SUCCESS"
        /\ \A w \in Workers : serving[w] = k => reply[w] # "SUCCESS"

Fresh(k) == socket[k] = "none" => Quiet(k)

\* The server knows only users that have registered.
Known == \A k \in Conns : user[k] # None => Registered(user[k]) /\ user[k] # 0

SessionInv ==
    /\ TypeOK
    /\ Windows
    /\ Owned
    /\ Served
    /\ \A k \in Conns : Stranger(k) /\ Fresh(k)
    /\ \A p \in Clients, k \in Conns : Phase(p, k)
    /\ Known
    /\ ChatIsLetIn
    /\ OnlineIsRegistered

-----------------------------------------------------------------------------
(***************************************************************************)
(* The session uses the accounts as Accounts says.                         *)
(***************************************************************************)

Messages == LoginReplies \union {"other"}

LEMMA RequestType ==
    ASSUME NEW r \in RequestSet, r.op \in {"LOGIN", "REGISTER"}
    PROVE  r.account \in AccountTexts /\ r.password \in PasswordTexts
BY DEF RequestSet

LEMMA AccountsStep ==
    ASSUME TypeOK, [Next]_vars
    PROVE  [AccountsNext]_accountVars
<1>1. CASE UNCHANGED vars
    BY <1>1 DEF vars, accountVars
<1>2. ASSUME NEW p \in Clients, EventLoop(p) \/ Pass(p) \/ Timer(p) \/ User(p)
      PROVE  UNCHANGED accountVars
    BY <1>2 DEF EventLoop, Pass, Timer, User, LoginAnswered, RegisterAnswered, ReconnectAnswered,
        Answered, ReadyRead, Beat, Miss, Reconnect, ClickLogin, ClickRegister,
        SubmitRegister, ClickSend, Close, Unserved
<1>3. ASSUME NEW k \in Conns, Lose(k) PROVE UNCHANGED accountVars
    BY <1>3 DEF Lose, Unserved
<1>4. ASSUME ~ub, NEW w \in Workers, NEW k \in Conns, TakeRequest(w, k) PROVE AccountsNext
    <2>1. Request(k) \in RequestSet
        BY <1>4 DEF TakeRequest, Request, TypeOK
    <2>2. Request(k).op \in {"LOGIN", "REGISTER"}
        BY <1>4 DEF TakeRequest
    <2>3. PICK a \in AccountTexts, pw \in PasswordTexts :
              a = Request(k).account /\ pw = Request(k).password
        BY <2>1, <2>2, RequestType
    <2>4. CheckLogin(w, a, pw) \/ IsRegistered(w, a, pw)
        BY <1>4, <2>3 DEF TakeRequest
    <2> QED  BY <1>4, <2>4 DEF AccountsNext
<1>5. ASSUME ~ub, NEW w \in Workers, Query(w) \/ Decide(w) \/ SendReply(w)
      PROVE  [AccountsNext]_accountVars
    BY <1>5 DEF Query, Decide, SendReply, AccountsNext
<1>6. ASSUME NEW k \in Conns, Serve(k) PROVE UNCHANGED accountVars
    BY <1>6 DEF Serve
<1>7. ASSUME NEW h \in Headings, Evict(h) PROVE UNCHANGED accountVars
    BY <1>7 DEF Evict
<1>8. CASE ~ub /\ Race
    BY <1>8 DEF Race, AccountsNext
<1> QED  BY <1>1, <1>2, <1>3, <1>4, <1>5, <1>6, <1>7, <1>8 DEF Next, Server

-----------------------------------------------------------------------------
(***************************************************************************)
(* Types.                                                                  *)
(***************************************************************************)

LEMMA HeadingType == ASSUME NEW a \in AccountTexts PROVE Heading(a) \in Headings
BY DEF Headings

LEMMA KnownAsType == ASSUME TypeOK, NEW k \in Conns, NEW h \in KnownAs(k) PROVE h \in Headings
BY DEF KnownAs, TypeOK

LEMMA WriteType ==
    ASSUME TypeOK, NEW states, NEW k \in Conns, NEW r \in RequestSet, WriteText(states, k, r)
    PROVE  toServer' \in [Conns -> Seq(RequestSet)]
<1>1. Append(toServer[k], r) \in Seq(RequestSet)
    BY DEF TypeOK
<1> QED  BY <1>1 DEF WriteText, TypeOK

LEMMA ConnectType ==
    ASSUME TypeOK, NEW p \in Clients, NEW k \in Conns, Connect(p, k)
    PROVE  /\ socket' \in [Conns -> {"none", "connected", "unconnected"}]
           /\ socket'[k] \in {"connected", "unconnected"}
           /\ \A c \in Conns \ {k} : socket'[c] = socket[c]
           /\ chatClient' \in [Clients -> Conns \union {None}]
           /\ chatClient'[p] = k
           /\ \A q \in Clients \ {p} : chatClient'[q] = chatClient[q]
BY DEF Connect, TypeOK

\* What getTcpSocketClient leaves: a new object or the old one.
LEMMA Got ==
    ASSUME TypeOK, NEW p \in Clients, GetTcpSocketClient(p)
    PROVE  /\ socket' \in [Conns -> {"none", "connected", "unconnected"}]
           /\ chatClient' \in [Clients -> Conns \union {None}]
           /\ formClient' \in [Clients -> Conns \union {None}]
           /\ chatClient'[p] \in Conns
           /\ formClient'[p] \in {chatClient'[p], None}
           /\ formClient'[p] = None => socket'[chatClient'[p]] # "connected"
           /\ \A q \in Clients \ {p} : /\ chatClient'[q] = chatClient[q]
                                       /\ formClient'[q] = formClient[q]
           /\ \/ /\ UNCHANGED <<socket, chatClient>>
              \/ /\ chatClient[p] = None
                 /\ socket[chatClient'[p]] = "none" /\ socket'[chatClient'[p]] # "none"
                 /\ \A c \in Conns \ {chatClient'[p]} : socket'[c] = socket[c]
<1>1. CASE chatClient[p] # None
    <2>1. formClient' = [formClient EXCEPT ![p] = chatClient[p]] /\ UNCHANGED <<socket, chatClient>>
        BY <1>1 DEF GetTcpSocketClient
    <2> QED  BY <1>1, <2>1 DEF TypeOK
<1>2. CASE chatClient[p] = None
    <2>1. PICK k \in Conns :
              /\ Connect(p, k)
              /\ formClient' = [formClient EXCEPT ![p] =
                                   IF socket'[k] = "connected" THEN k ELSE None]
        BY <1>2 DEF GetTcpSocketClient
    <2>2. socket[k] = "none" /\ Connect(p, k)
        BY <2>1 DEF Connect
    <2>3. /\ formClient' \in [Clients -> Conns \union {None}]
          /\ formClient'[p] \in {k, None}
          /\ formClient'[p] = None => socket'[k] # "connected"
          /\ \A q \in Clients \ {p} : formClient'[q] = formClient[q]
        BY <2>1 DEF TypeOK
    <2>4. /\ socket' \in [Conns -> {"none", "connected", "unconnected"}]
          /\ socket'[k] # "none"
          /\ \A c \in Conns \ {k} : socket'[c] = socket[c]
          /\ chatClient' \in [Clients -> Conns \union {None}]
          /\ chatClient'[p] = k
          /\ \A q \in Clients \ {p} : chatClient'[q] = chatClient[q]
        BY <2>2, ConnectType
    <2> QED  BY <1>2, <2>2, <2>3, <2>4
<1> QED  BY <1>1, <1>2

LEMMA AskType ==
    ASSUME TypeOK, NEW p \in Clients, NEW op \in {"LOGIN", "REGISTER"}, Ask(p, op),
           chatClient'[p] \in Conns
    PROVE  /\ toServer' \in [Conns -> Seq(RequestSet)]
           /\ entered' \in [Clients -> Headings \union {None}]
           /\ waiting' \in [Clients -> {"nothing", "LOGIN", "REGISTER", "RECONNECT"}]
           /\ requests' \in 0 .. MaxRequests
<1>1. PICK a \in AccountTexts, pw \in PasswordTexts :
          /\ WriteText(socket', chatClient'[p], [op |-> op, account |-> a, password |-> pw])
          /\ entered' = [entered EXCEPT ![p] = Heading(a)]
    BY DEF Ask
<1>2. [op |-> op, account |-> a, password |-> pw] \in RequestSet
    BY DEF RequestSet
<1>3. toServer' \in [Conns -> Seq(RequestSet)]
    BY <1>1, <1>2, WriteType
<1>4. entered' \in [Clients -> Headings \union {None}]
    BY <1>1, HeadingType DEF TypeOK
<1>5. waiting' \in [Clients -> {"nothing", "LOGIN", "REGISTER", "RECONNECT"}]
    BY DEF Ask, TypeOK
<1>6. requests' \in 0 .. MaxRequests
    BY DEF Ask, Click, TypeOK
<1> QED  BY <1>3, <1>4, <1>5, <1>6

\* Messages that are not read yet stay; what was there before is read.
LEMMA Received ==
    ASSUME TypeOK, NEW k \in Conns, ReceiveData(k)
    PROVE  /\ toClient' \in [Conns -> Seq(Messages)]
           /\ loginMsg' \in [Conns -> LoginReplies \union {"empty"}]
           /\ \A c \in Conns \ {k} : toClient'[c] = toClient[c] /\ loginMsg'[c] = loginMsg[c]
           /\ Len(toClient[k]) <= 1 => toClient'[k] = <<>>
           /\ \A i \in 1 .. Len(toClient'[k]) :
                 \E j \in 1 .. Len(toClient[k]) : toClient'[k][i] = toClient[k][j]
           /\ \/ loginMsg'[k] = loginMsg[k]
              \/ \E j \in 1 .. Len(toClient[k]) :
                    loginMsg'[k] = toClient[k][j] /\ loginMsg'[k] \in LoginReplies
           /\ Len(toClient[k]) = 1 /\ toClient[k][1] \in LoginReplies
                 => loginMsg'[k] = toClient[k][1]
<1>1. toClient[k] \in Seq(Messages) /\ Len(toClient[k]) \in Nat
    BY DEF TypeOK, Messages
<1>2. PICK n \in (IF toClient[k] = <<>> THEN {0} ELSE 1 .. Len(toClient[k])) :
          /\ toClient' = [toClient EXCEPT ![k] = SubSeq(@, n + 1, Len(@))]
          /\ \/ UNCHANGED loginMsg /\ \A i \in 1 .. n : toClient[k][i] \notin LoginReplies
             \/ \E i \in 1 .. n :
                   /\ toClient[k][i] \in LoginReplies
                   /\ loginMsg' = [loginMsg EXCEPT ![k] = toClient[k][i]]
    BY DEF ReceiveData
<1>0. n \in 0 .. Len(toClient[k]) /\ (n = 0 => toClient[k] = <<>>)
    BY <1>1
<1>3. toClient'[k] = SubSeq(toClient[k], n + 1, Len(toClient[k]))
    BY <1>0, <1>2 DEF TypeOK
<1>4. /\ toClient'[k] \in Seq(Messages)
      /\ Len(toClient'[k]) = Len(toClient[k]) - n
      /\ \A i \in 1 .. Len(toClient'[k]) : toClient'[k][i] = toClient[k][n + i]
    <2>1. SubSeq(toClient[k], n + 1, Len(toClient[k])) \in Seq(Messages)
        BY <1>0, <1>1
    <2>2. Len(SubSeq(toClient[k], n + 1, Len(toClient[k]))) = Len(toClient[k]) - n
        BY <1>0, <1>1
    <2> QED  BY <1>0, <1>1, <1>3, <2>1, <2>2
<1>5. toClient' \in [Conns -> Seq(Messages)]
    BY <1>2, <1>3, <1>4 DEF TypeOK, Messages
<1>6. loginMsg' \in [Conns -> LoginReplies \union {"empty"}]
    BY <1>0, <1>2 DEF TypeOK
<1>7. \A c \in Conns \ {k} : toClient'[c] = toClient[c] /\ loginMsg'[c] = loginMsg[c]
    BY <1>0, <1>2 DEF TypeOK
<1>8. Len(toClient[k]) <= 1 => toClient'[k] = <<>>
    <2> SUFFICES ASSUME Len(toClient[k]) <= 1 PROVE toClient'[k] = <<>>
        OBVIOUS
    <2>1. n = Len(toClient[k])
        BY <1>0, <1>1, <1>2
    <2>2. Len(toClient'[k]) = 0
        BY <1>0, <1>1, <1>4, <2>1
    <2> QED  BY <1>4, <2>2
<1>9. \A i \in 1 .. Len(toClient'[k]) :
          \E j \in 1 .. Len(toClient[k]) : toClient'[k][i] = toClient[k][j]
    BY <1>0, <1>1, <1>4
<1>10. \/ loginMsg'[k] = loginMsg[k]
       \/ \E j \in 1 .. Len(toClient[k]) :
             loginMsg'[k] = toClient[k][j] /\ loginMsg'[k] \in LoginReplies
    BY <1>0, <1>1, <1>2 DEF TypeOK
<1>11. Len(toClient[k]) = 1 /\ toClient[k][1] \in LoginReplies => loginMsg'[k] = toClient[k][1]
    <2> SUFFICES ASSUME Len(toClient[k]) = 1, toClient[k][1] \in LoginReplies
                 PROVE  loginMsg'[k] = toClient[k][1]
        OBVIOUS
    <2>1. n = 1
        BY <1>0, <1>1, <1>2
    <2> QED  BY <1>2, <2>1 DEF TypeOK
<1> QED  BY <1>5, <1>6, <1>7, <1>8, <1>9, <1>10, <1>11

\* What Deliver adds: the answer to k, and one message to everyone online.
LEMMA Delivered ==
    ASSUME TypeOK, NEW k \in Conns, NEW ms \in Seq(Messages), NEW all, Deliver(k, ms, all)
    PROVE  /\ toClient' \in [Conns -> Seq(Messages)]
           /\ \A c \in Conns : socket[c] # "connected" => toClient'[c] = toClient[c]
           /\ \A c \in Conns : socket[c] = "connected" /\ (\A h \in Headings : all[h] # c)
                 => toClient'[c] = IF c = k THEN toClient[c] \o ms ELSE toClient[c]
           /\ \A c \in Conns : \A i \in 1 .. Len(toClient'[c]) :
                 \/ \E j \in 1 .. Len(toClient[c]) : toClient'[c][i] = toClient[c][j]
                 \/ c = k /\ \E j \in 1 .. Len(ms) : toClient'[c][i] = ms[j]
                 \/ toClient'[c][i] = "other"
<1> DEFINE answer(c) == IF c = k THEN ms ELSE <<>>
           notice(c) == IF \E h \in Headings : all[h] = c THEN <<"other">> ELSE <<>>
<1>1. ASSUME NEW c \in Conns
      PROVE  /\ toClient[c] \in Seq(Messages) /\ answer(c) \in Seq(Messages)
             /\ notice(c) \in Seq(Messages)
    <2>1. toClient[c] \in Seq(Messages)
        BY DEF TypeOK, Messages
    <2>2. <<>> \in Seq(Messages) /\ <<"other">> \in Seq(Messages)
        BY DEF Messages
    <2> QED  BY <2>1, <2>2
<1>2. ASSUME NEW c \in Conns
      PROVE  toClient'[c] = IF socket[c] # "connected" THEN toClient[c]
                            ELSE toClient[c] \o answer(c) \o notice(c)
    BY DEF Deliver
<1>3. ASSUME NEW c \in Conns PROVE toClient'[c] \in Seq(Messages)
    <2>1. toClient[c] \o answer(c) \o notice(c) \in Seq(Messages)
        <3> HIDE DEF answer, notice
        <3> QED  BY <1>1
    <2> HIDE DEF answer, notice
    <2> QED  BY <1>1, <1>2, <2>1
<1>4. toClient' \in [Conns -> Seq(Messages)]
    BY <1>3 DEF Deliver
<1>5. ASSUME NEW c \in Conns, socket[c] = "connected", \A h \in Headings : all[h] # c
      PROVE  toClient'[c] = IF c = k THEN toClient[c] \o ms ELSE toClient[c]
    <2>1. notice(c) = <<>>
        BY <1>5
    <2>2. toClient[c] \o answer(c) \in Seq(Messages)
        <3> HIDE DEF answer
        <3> QED  BY <1>1
    <2>3. toClient[c] \o answer(c) \o <<>> = toClient[c] \o answer(c)
        <3> HIDE DEF answer
        <3> QED  BY <2>2
    <2>4. toClient[c] \o <<>> = toClient[c]
        BY <1>1
    <2> QED  BY <1>2, <1>5, <2>1, <2>3, <2>4
<1>6. ASSUME NEW c \in Conns, NEW i \in 1 .. Len(toClient'[c])
      PROVE  \/ \E j \in 1 .. Len(toClient[c]) : toClient'[c][i] = toClient[c][j]
             \/ c = k /\ \E j \in 1 .. Len(ms) : toClient'[c][i] = ms[j]
             \/ toClient'[c][i] = "other"
    <2>1. CASE socket[c] # "connected"
        BY <1>2, <1>6, <2>1
    <2>2. CASE socket[c] = "connected"
        <3>1. toClient'[c] = toClient[c] \o answer(c) \o notice(c)
            BY <1>2, <2>2
        <3>2. \/ \E j \in 1 .. Len(toClient[c]) : toClient'[c][i] = toClient[c][j]
              \/ \E j \in 1 .. Len(answer(c)) : toClient'[c][i] = answer(c)[j]
              \/ \E j \in 1 .. Len(notice(c)) : toClient'[c][i] = notice(c)[j]
            <4> DEFINE old == toClient[c]   mine == answer(c)   ours == notice(c)
                       new == toClient'[c]
            <4>1. old \in Seq(Messages) /\ mine \in Seq(Messages) /\ ours \in Seq(Messages)
                BY <1>1
            <4>2. new = old \o mine \o ours /\ i \in 1 .. Len(new)
                BY <1>6, <3>1
            <4> HIDE DEF old, mine, ours, new
            <4>3. \/ \E j \in 1 .. Len(old) : new[i] = old[j]
                  \/ \E j \in 1 .. Len(mine) : new[i] = mine[j]
                  \/ \E j \in 1 .. Len(ours) : new[i] = ours[j]
                <5>1. /\ Len(old) \in Nat /\ Len(mine) \in Nat /\ Len(ours) \in Nat
                      /\ old \o mine \in Seq(Messages)
                      /\ Len(old \o mine) = Len(old) + Len(mine)
                      /\ Len(new) = Len(old) + Len(mine) + Len(ours)
                    BY <4>1, <4>2
                <5>2. CASE i <= Len(old)
                    <6>1. new[i] = (old \o mine)[i] /\ (old \o mine)[i] = old[i]
                        BY <4>1, <4>2, <5>1, <5>2
                    <6> QED  BY <4>2, <5>1, <5>2, <6>1
                <5>3. CASE i > Len(old) /\ i <= Len(old) + Len(mine)
                    <6>1. /\ new[i] = (old \o mine)[i]
                          /\ (old \o mine)[i] = mine[i - Len(old)]
                        BY <4>1, <4>2, <5>1, <5>3
                    <6>2. i - Len(old) \in 1 .. Len(mine)
                        BY <4>2, <5>1, <5>3
                    <6> QED  BY <6>1, <6>2
                <5>4. CASE i > Len(old) + Len(mine)
                    <6>1. new[i] = ours[i - Len(old \o mine)]
                        BY <4>1, <4>2, <5>1, <5>4
                    <6>2. i - Len(old \o mine) \in 1 .. Len(ours)
                        BY <4>2, <5>1, <5>4
                    <6> QED  BY <6>1, <6>2
                <5>5. \/ i <= Len(old) \/ i > Len(old) + Len(mine)
                      \/ i > Len(old) /\ i <= Len(old) + Len(mine)
                    BY <4>2, <5>1
                <5> QED  BY <5>2, <5>3, <5>4, <5>5
            <4> QED  BY <4>3 DEF old, mine, ours, new
        <3>3. Len(answer(c)) # 0 => c = k
            OBVIOUS
        <3>4. \A j \in 1 .. Len(notice(c)) : notice(c)[j] = "other"
            OBVIOUS
        <3> QED  BY <3>2, <3>3, <3>4
    <2> QED  BY <2>1, <2>2
<1> QED  BY <1>2, <1>4, <1>5, <1>6

\* A step of a client: what it does not touch, and the types of what it may.
LEMMA ClientTypes ==
    ASSUME TypeOK, Windows, NEW p \in Clients, EventLoop(p) \/ Timer(p) \/ User(p)
    PROVE  /\ window' \in [Clients -> {"login", "register", "chat", "closed"}]
           /\ waiting' \in [Clients -> {"nothing", "LOGIN", "REGISTER", "RECONNECT"}]
           /\ entered' \in [Clients -> Headings \union {None}]
           /\ chatClient' \in [Clients -> Conns \union {None}]
           /\ formClient' \in [Clients -> Conns \union {None}]
           /\ heartbeatCount' \in [Clients -> 0 .. Tolerated + 1]
           /\ socket' \in [Conns -> {"none", "connected", "unconnected"}]
           /\ loginMsg' \in [Conns -> LoginReplies \union {"empty"}]
           /\ m_account' \in [Conns -> Headings \union {None}]
           /\ toServer' \in [Conns -> Seq(RequestSet)]
           /\ toClient' \in [Conns -> Seq(Messages)]
           /\ requests' \in 0 .. MaxRequests
           /\ UNCHANGED <<accountVars, serverVars>>
<1>0. /\ window \in [Clients -> {"login", "register", "chat", "closed"}]
      /\ waiting \in [Clients -> {"nothing", "LOGIN", "REGISTER", "RECONNECT"}]
      /\ entered \in [Clients -> Headings \union {None}]
      /\ chatClient \in [Clients -> Conns \union {None}]
      /\ formClient \in [Clients -> Conns \union {None}]
      /\ heartbeatCount \in [Clients -> 0 .. Tolerated + 1]
      /\ socket \in [Conns -> {"none", "connected", "unconnected"}]
      /\ loginMsg \in [Conns -> LoginReplies \union {"empty"}]
      /\ m_account \in [Conns -> Headings \union {None}]
      /\ toServer \in [Conns -> Seq(RequestSet)]
      /\ toClient \in [Conns -> Seq(Messages)]
      /\ requests \in 0 .. MaxRequests
    BY DEF TypeOK, Messages
<1>1. waiting[p] # "nothing" \/ window[p] \in {"register", "chat"} => chatClient[p] \in Conns
    BY <1>0 DEF Windows
<1>2. \A k \in Conns : \A h \in KnownAs(k) : h \in Headings
    BY KnownAsType
<1> USE DEF windowVars, objectVars, Unserved
<1>3. CASE LoginAnswered(p)
    <2>1. chatClient[p] \in Conns /\ ReceiveData(chatClient[p])
        BY <1>1, <1>3 DEF LoginAnswered, Answered
    <2>2. /\ toClient' \in [Conns -> Seq(Messages)]
          /\ loginMsg' \in [Conns -> LoginReplies \union {"empty"}]
        BY <2>1, Received
    <2>3. [op |-> "READ"] \in RequestSet
        BY DEF RequestSet
    <2>4. toServer' \in [Conns -> Seq(RequestSet)]
        BY <1>0, <1>3, <2>1, <2>3, WriteType DEF LoginAnswered
    <2>5. m_account' \in [Conns -> Headings \union {None}]
        <3>1. \/ m_account' = [m_account EXCEPT ![chatClient[p]] = entered[p]]
              \/ UNCHANGED m_account
            BY <1>3 DEF LoginAnswered
        <3>2. entered[p] \in Headings \union {None}
            BY <1>0
        <3>3. m_account \in [Conns -> Headings \union {None}]
            BY <1>0
        <3> QED  BY <3>1, <3>2, <3>3
    <2> QED  BY <1>0, <1>3, <2>2, <2>4, <2>5 DEF LoginAnswered, Answered
<1>4. CASE RegisterAnswered(p)
    <2>1. chatClient[p] \in Conns /\ ReceiveData(chatClient[p])
        BY <1>1, <1>4 DEF RegisterAnswered, Answered
    <2>2. /\ toClient' \in [Conns -> Seq(Messages)]
          /\ loginMsg' \in [Conns -> LoginReplies \union {"empty"}]
        BY <2>1, Received
    <2>3. m_account' \in [Conns -> Headings \union {None}]
        <3>1. \/ m_account' = [m_account EXCEPT ![chatClient[p]] = entered[p]]
              \/ UNCHANGED m_account
            BY <1>4 DEF RegisterAnswered
        <3>2. entered[p] \in Headings \union {None}
            BY <1>0
        <3>3. m_account \in [Conns -> Headings \union {None}]
            BY <1>0
        <3> QED  BY <3>1, <3>2, <3>3
    <2> QED  BY <1>0, <1>4, <2>2, <2>3 DEF RegisterAnswered, Answered
<1>5. CASE ReconnectAnswered(p) \/ ReadyRead(p)
    <2>1. chatClient[p] \in Conns /\ ReceiveData(chatClient[p])
        BY <1>1, <1>5 DEF ReconnectAnswered, Answered, ReadyRead, Shows
    <2>2. /\ toClient' \in [Conns -> Seq(Messages)]
          /\ loginMsg' \in [Conns -> LoginReplies \union {"empty"}]
        BY <2>1, Received
    <2> QED  BY <1>0, <1>5, <2>2 DEF ReconnectAnswered, Answered, ReadyRead
<1>6. CASE Beat(p) \/ Miss(p)
    <2>1. heartbeatCount' \in [Clients -> 0 .. Tolerated + 1]
        <3>1. CASE Beat(p)
            BY <1>0, <3>1 DEF Beat
        <3>2. CASE Miss(p)
            BY <1>0, <3>2 DEF Miss
        <3> QED  BY <1>6, <3>1, <3>2
    <2> QED  BY <1>0, <1>6, <2>1 DEF Beat, Miss
<1>7. ASSUME NEW k \in Conns, Reconnect(p, k)
      PROVE  /\ socket' \in [Conns -> {"none", "connected", "unconnected"}]
             /\ chatClient' \in [Clients -> Conns \union {None}]
             /\ toServer' \in [Conns -> Seq(RequestSet)]
    <2>1. chatClient[p] \in Conns /\ Connect(p, k)
        BY <1>1, <1>7 DEF Reconnect, Fires, Shows
    <2>2. PICK h \in KnownAs(chatClient[p]) :
              WriteText(socket', k, [op |-> "RECONNECT", account |-> h])
        BY <1>7 DEF Reconnect
    <2>3. [op |-> "RECONNECT", account |-> h] \in RequestSet
        BY <1>2, <2>1 DEF RequestSet
    <2> QED  BY <2>1, <2>2, <2>3, ConnectType, WriteType
<1>8. CASE \E k \in Conns : Reconnect(p, k)
    BY <1>0, <1>7, <1>8 DEF Reconnect
<1>9. CASE ClickLogin(p)
    <2>1. /\ socket' \in [Conns -> {"none", "connected", "unconnected"}]
          /\ chatClient' \in [Clients -> Conns \union {None}]
          /\ formClient' \in [Clients -> Conns \union {None}]
          /\ chatClient'[p] \in Conns
        BY <1>9, Got DEF ClickLogin
    <2>2. CASE Ask(p, "LOGIN")
        BY <1>0, <1>9, <2>1, <2>2, AskType DEF ClickLogin, Ask
    <2>3. CASE UNCHANGED <<window, waiting, entered, toServer, requests>>
        BY <1>0, <1>9, <2>1, <2>3 DEF ClickLogin
    <2> QED  BY <1>9, <2>2, <2>3 DEF ClickLogin
<1>10. CASE ClickRegister(p)
    <2>1. /\ socket' \in [Conns -> {"none", "connected", "unconnected"}]
          /\ chatClient' \in [Clients -> Conns \union {None}]
          /\ formClient' \in [Clients -> Conns \union {None}]
        BY <1>10, Got DEF ClickRegister
    <2> QED  BY <1>0, <1>10, <2>1 DEF ClickRegister
<1>11. CASE SubmitRegister(p)
    <2>1. chatClient'[p] \in Conns
        BY <1>1, <1>11 DEF SubmitRegister, Shows
    <2> QED  BY <1>0, <1>11, <2>1, AskType DEF SubmitRegister, Ask
<1>12. CASE ClickSend(p)
    <2>1. chatClient[p] \in Conns
        BY <1>1, <1>12 DEF ClickSend, Shows
    <2>2. PICK h \in KnownAs(chatClient[p]) :
              WriteText(socket, chatClient[p], [op |-> "SEND", account |-> h])
        BY <1>12 DEF ClickSend
    <2>3. [op |-> "SEND", account |-> h] \in RequestSet
        BY <1>2, <2>1 DEF RequestSet
    <2>4. toServer' \in [Conns -> Seq(RequestSet)]
        BY <2>1, <2>2, <2>3, WriteType
    <2> QED  BY <1>0, <1>12, <2>4 DEF ClickSend, Click
<1>13. CASE Close(p)
    <2>1. toServer' \in [Conns -> Seq(RequestSet)]
        <3>1. CASE UNCHANGED toServer
            BY <1>0, <3>1
        <3>2. CASE ~UNCHANGED toServer
            <4>1. formClient[p] \in Conns
                BY <1>0, <1>13, <3>2 DEF Close
            <4>2. PICK h \in KnownAs(formClient[p]) :
                      toServer' = [toServer EXCEPT ![formClient[p]] =
                                      Append(@, [op |-> "LOGOUT", account |-> h])]
                BY <1>13, <3>2 DEF Close
            <4>3. [op |-> "LOGOUT", account |-> h] \in RequestSet
                BY <1>2, <4>1 DEF RequestSet
            <4>4. Append(toServer[formClient[p]], [op |-> "LOGOUT", account |-> h])
                      \in Seq(RequestSet)
                BY <1>0, <4>1, <4>3
            <4> QED  BY <1>0, <4>2, <4>4
        <3> QED  BY <3>1, <3>2
    <2>2. /\ toClient' \in [Conns -> Seq(Messages)]
          /\ socket' \in [Conns -> {"none", "connected", "unconnected"}]
        <3>1. <<>> \in Seq(Messages)
            OBVIOUS
        <3> QED  BY <1>0, <1>13, <3>1 DEF Close, Disconnect
    <2> QED  BY <1>0, <1>13, <2>1, <2>2 DEF Close
<1> QED
    BY <1>3, <1>4, <1>5, <1>6, <1>8, <1>9, <1>10, <1>11, <1>12, <1>13
    DEF EventLoop, Timer, User

\* The timer goes on or starts again.
LEMMA TimerType ==
    ASSUME TypeOK, NEW p \in Clients, EventLoop(p) \/ Pass(p) \/ Timer(p) \/ User(p)
    PROVE  timer' \in [Clients -> 0 .. Interval]
<1>0. timer \in [Clients -> 0 .. Interval] /\ Interval \in Nat
    BY DEF TypeOK
<1>1. CASE RestartTimer(p)
    BY <1>0, <1>1 DEF RestartTimer
<1>2. CASE Pass(p)
    BY <1>0, <1>2 DEF Pass
<1>3. CASE UNCHANGED timer
    BY <1>0, <1>3
<1>4. RestartTimer(p) \/ Pass(p) \/ UNCHANGED timer
    BY DEF EventLoop, Timer, User, LoginAnswered, RegisterAnswered, ReconnectAnswered, ReadyRead,
           Beat, Miss, Reconnect, Fires, ClickLogin, ClickRegister, SubmitRegister, ClickSend, Close
<1> QED  BY <1>1, <1>2, <1>3, <1>4

LEMMA TakenType ==
    ASSUME TypeOK, NEW k \in Conns, toServer[k] # <<>>, Taken(k)
    PROVE  /\ Request(k) \in RequestSet
           /\ toServer' \in [Conns -> Seq(RequestSet)]
           /\ toServer'[k] = Tail(toServer[k])
           /\ \A c \in Conns \ {k} : toServer'[c] = toServer[c]
<1>1. Tail(toServer[k]) \in Seq(RequestSet) /\ Head(toServer[k]) \in RequestSet
    BY DEF TypeOK
<1> QED  BY <1>1 DEF Taken, Request, TypeOK

\* Likewise a step of the server.
LEMMA ServerTypes ==
    ASSUME TypeOK, Served, Server
    PROVE  /\ toServer' \in [Conns -> Seq(RequestSet)]
           /\ toClient' \in [Conns -> Seq(Messages)]
           /\ user' \in [Conns -> Headings \union {None}]
           /\ online' \in [Headings -> Conns \union {None}]
           /\ serving' \in [Workers -> Conns \union {None}]
           /\ reply' \in [Workers -> LoginReplies \union {"nothing", "other"}]
           /\ UNCHANGED <<windowVars, objectVars, requests>>
<1>0. /\ toServer \in [Conns -> Seq(RequestSet)]
      /\ toClient \in [Conns -> Seq(Messages)]
      /\ user \in [Conns -> Headings \union {None}]
      /\ online \in [Headings -> Conns \union {None}]
      /\ serving \in [Workers -> Conns \union {None}]
      /\ reply \in [Workers -> LoginReplies \union {"nothing", "other"}]
    BY DEF TypeOK, Messages
<1> USE DEF serverVars, OfClients
<1>1. ASSUME NEW w \in Workers, Query(w) PROVE UNCHANGED <<toServer, toClient, serverVars>>
    BY <1>1 DEF Query
<1>2. ASSUME NEW w \in Workers, Decide(w)
      PROVE  /\ user' \in [Conns -> Headings \union {None}]
             /\ online' \in [Headings -> Conns \union {None}]
             /\ reply' \in [Workers -> LoginReplies \union {"nothing", "other"}]
             /\ UNCHANGED <<toServer, toClient, serving>>
    <2>1. Heading(job[w].account) \in Headings /\ serving[w] \in Conns
        BY <1>0, <1>2, HeadingType DEF Decide, Served
    <2>2. user' \in [Conns -> Headings \union {None}]
        BY <1>0, <1>2, <2>1 DEF Decide
    <2>3. online' \in [Headings -> Conns \union {None}]
        BY <1>0, <1>2, <2>1 DEF Decide
    <2>4. reply' \in [Workers -> LoginReplies \union {"nothing", "other"}]
        BY <1>0, <1>2 DEF Decide, LoginReplies
    <2> QED  BY <1>2, <2>2, <2>3, <2>4 DEF Decide
<1>3. ASSUME NEW w \in Workers, SendReply(w)
      PROVE  /\ toClient' \in [Conns -> Seq(Messages)]
             /\ serving' \in [Workers -> Conns \union {None}]
             /\ reply' \in [Workers -> LoginReplies \union {"nothing", "other"}]
             /\ UNCHANGED <<toServer, user, online>>
    <2>1. serving[w] \in Conns /\ <<reply[w]>> \in Seq(Messages)
        BY <1>0, <1>3 DEF SendReply, Finish, Served, Messages
    <2>2. toClient' \in [Conns -> Seq(Messages)]
        BY <1>3, <2>1, Delivered DEF SendReply
    <2> QED  BY <1>0, <1>3, <2>2 DEF SendReply
<1>4. ASSUME NEW w \in Workers, NEW k \in Conns, TakeRequest(w, k)
      PROVE  /\ toServer' \in [Conns -> Seq(RequestSet)]
             /\ serving' \in [Workers -> Conns \union {None}]
             /\ UNCHANGED <<toClient, user, online, reply>>
    BY <1>0, <1>4, TakenType DEF TakeRequest
<1>5. ASSUME NEW k \in Conns, Serve(k)
      PROVE  /\ toServer' \in [Conns -> Seq(RequestSet)]
             /\ toClient' \in [Conns -> Seq(Messages)]
             /\ user' \in [Conns -> Headings \union {None}]
             /\ online' \in [Headings -> Conns \union {None}]
             /\ UNCHANGED <<serving, reply>>
    <2>1. Request(k) \in RequestSet /\ toServer' \in [Conns -> Seq(RequestSet)]
        BY <1>5, TakenType DEF Serve
    <2>2. <<>> \in Seq(Messages) /\ <<"other", "other">> \in Seq(Messages)
        BY DEF Messages
    <2>3. toClient' \in [Conns -> Seq(Messages)]
        BY <1>5, <2>2, Delivered DEF Serve, ServeRead, ServeSend, ServeLogout, ServeReconnect
    <2>4. Request(k).op \in {"LOGOUT", "RECONNECT"} => Request(k).account \in Headings
        BY <2>1 DEF RequestSet
    <2>5. /\ online' \in [Headings -> Conns \union {None}]
          /\ user' \in [Conns -> Headings \union {None}]
        <3>1. CASE ServeRead(k)
            BY <1>0, <3>1 DEF ServeRead
        <3>2. CASE ServeSend(k)
            BY <1>0, <3>2 DEF ServeSend
        <3>3. CASE ServeLogout(k)
            BY <1>0, <3>3 DEF ServeLogout
        <3>4. CASE ServeReconnect(k)
            BY <1>0, <2>4, <3>4 DEF ServeReconnect
        <3> QED  BY <1>5, <3>1, <3>2, <3>3, <3>4 DEF Serve
    <2> QED  BY <1>5, <2>1, <2>3, <2>5 DEF Serve
<1>6. ASSUME NEW h \in Headings, Evict(h)
      PROVE  /\ online' \in [Headings -> Conns \union {None}]
             /\ UNCHANGED <<toServer, toClient, user, serving, reply>>
    BY <1>0, <1>6 DEF Evict
<1>7. CASE Race
    BY <1>0, <1>7 DEF Race
<1>8. UNCHANGED <<windowVars, objectVars, requests>>
    BY DEF Server, Query, Decide, SendReply, TakeRequest, Serve, Evict, Race
<1> QED  BY <1>0, <1>1, <1>2, <1>3, <1>4, <1>5, <1>6, <1>7, <1>8 DEF Server

LEMMA TypeStep ==
    ASSUME TypeOK, Windows, Served, Inv, [Next]_vars
    PROVE  TypeOK' /\ Inv'
<1>1. Inv'
    BY AccountsStep, StepInv
<1>2. AccountsTypeOK'
    BY <1>1 DEF Inv
<1>3. ASSUME UNCHANGED vars PROVE TypeOK'
    <2>1. UNCHANGED <<windowVars, objectVars, serverVars, toServer, toClient, requests>>
        BY <1>3 DEF vars
    <2> QED  BY <1>2, <2>1 DEF windowVars, objectVars, serverVars, TypeOK
<1>4. ASSUME NEW p \in Clients, EventLoop(p) \/ Timer(p) \/ User(p) PROVE TypeOK'
    BY <1>2, <1>4, ClientTypes, TimerType DEF TypeOK, Messages, serverVars
<1>8. ASSUME NEW p \in Clients, Pass(p) PROVE TypeOK'
    <2>1. UNCHANGED <<window, waiting, entered, chatClient, formClient, heartbeatCount, objectVars,
                      serverVars, toServer, toClient, requests>>
        BY <1>8 DEF Pass, Unserved
    <2>2. timer' \in [Clients -> 0 .. Interval]
        BY <1>8, TimerType
    <2> QED  BY <1>2, <2>1, <2>2 DEF objectVars, serverVars, TypeOK
<1>5. ASSUME NEW k \in Conns, Lose(k) PROVE TypeOK'
    <2>1. <<>> \in Seq(Messages) /\ <<>> \in Seq(RequestSet)
        OBVIOUS
    <2>2. /\ socket' = [c \in Conns |-> IF c \in {k} THEN "unconnected" ELSE socket[c]]
          /\ toClient' = [c \in Conns |-> IF c \in {k} THEN <<>> ELSE toClient[c]]
        BY <1>5 DEF Lose, Disconnect
    <2>3. /\ socket' \in [Conns -> {"none", "connected", "unconnected"}]
          /\ toClient' \in [Conns -> Seq(Messages)]
        BY <2>1, <2>2 DEF TypeOK, Messages
    <2>4. toServer' \in [Conns -> Seq(RequestSet)]
        <3>1. toServer' = toServer \/ toServer' = [toServer EXCEPT ![k] = <<>>]
            BY <1>5 DEF Lose
        <3> QED  BY <2>1, <3>1 DEF TypeOK
    <2> QED
        BY <1>2, <1>5, <2>3, <2>4 DEF Lose, Unserved, TypeOK, Messages, windowVars, serverVars
<1>6. ASSUME Server PROVE TypeOK'
    BY <1>2, <1>6, ServerTypes DEF TypeOK, Messages, windowVars, objectVars
<1>7. TypeOK'
    BY <1>3, <1>4, <1>5, <1>6, <1>8 DEF Next
<1> QED  BY <1>1, <1>7

-----------------------------------------------------------------------------
(***************************************************************************)
(* Steps of a client.                                                      *)
(***************************************************************************)

LEMMA WindowsClient ==
    ASSUME TypeOK, Windows, NEW p \in Clients, EventLoop(p) \/ Timer(p) \/ User(p)
    PROVE  Windows'
<1>0. /\ window \in [Clients -> {"login", "register", "chat", "closed"}]
      /\ waiting \in [Clients -> {"nothing", "LOGIN", "REGISTER", "RECONNECT"}]
      /\ chatClient \in [Clients -> Conns \union {None}]
      /\ formClient \in [Clients -> Conns \union {None}]
      /\ None \notin Conns
    BY DEF TypeOK
<1>1. CASE LoginAnswered(p)
    BY <1>0, <1>1 DEF LoginAnswered, Answered, Windows
<1>2. CASE RegisterAnswered(p)
    BY <1>0, <1>2 DEF RegisterAnswered, Answered, Windows
<1>3. CASE ReconnectAnswered(p)
    BY <1>0, <1>3 DEF ReconnectAnswered, Answered, Windows
<1>4. CASE ReadyRead(p) \/ ClickSend(p)
    BY <1>0, <1>4 DEF ReadyRead, ClickSend, Windows
<1>5. CASE Beat(p) \/ Miss(p)
    BY <1>0, <1>5 DEF Beat, Miss, Windows
<1>6. ASSUME NEW k \in Conns, Reconnect(p, k) PROVE Windows'
    <2>1. /\ chatClient'[p] = k
          /\ \A q \in Clients \ {p} : chatClient'[q] = chatClient[q]
        BY <1>6, ConnectType DEF Reconnect
    <2>2. window[p] = "chat" /\ UNCHANGED <<window, formClient>>
        BY <1>6 DEF Reconnect, Fires, Shows
    <2>3. /\ waiting'[p] = "RECONNECT"
          /\ \A q \in Clients \ {p} : waiting'[q] = waiting[q]
        BY <1>0, <1>6 DEF Reconnect
    <2>4. ASSUME NEW q \in Clients
          PROVE  /\ waiting'[q] = "LOGIN" => window'[q] = "login" /\ formClient'[q] = chatClient'[q]
                 /\ waiting'[q] = "REGISTER" => window'[q] = "register"
                 /\ waiting'[q] = "RECONNECT" => window'[q] = "chat"
                 /\ waiting'[q] # "nothing" \/ window'[q] \in {"register", "chat"}
                       => chatClient'[q] # None
                 /\ window'[q] = "chat" => formClient'[q] # None
        <3>1. CASE q = p
            BY <1>0, <2>1, <2>2, <2>3, <3>1 DEF Windows
        <3>2. CASE q # p
            BY <2>1, <2>2, <2>3, <3>2 DEF Windows
        <3> QED  BY <3>1, <3>2
    <2> QED  BY <2>4 DEF Windows
<1>7. CASE ClickLogin(p) \/ ClickRegister(p)
    <2>1. GetTcpSocketClient(p)
        BY <1>7 DEF ClickLogin, ClickRegister
    <2>2. /\ chatClient'[p] \in Conns
          /\ formClient'[p] \in {chatClient'[p], None}
          /\ \A q \in Clients \ {p} : /\ chatClient'[q] = chatClient[q]
                                      /\ formClient'[q] = formClient[q]
        BY <2>1, Got
    <2>3. /\ window[p] = "login" /\ window'[p] # "chat"
          /\ waiting[p] = "nothing" /\ waiting'[p] \in {"nothing", "LOGIN"}
          /\ waiting'[p] = "LOGIN" => window'[p] = "login" /\ formClient'[p] # None
          /\ \A q \in Clients \ {p} : window'[q] = window[q] /\ waiting'[q] = waiting[q]
        <3>1. CASE ClickLogin(p)
            BY <1>0, <3>1 DEF ClickLogin, Shows, Ask
        <3>2. CASE ClickRegister(p)
            BY <1>0, <3>2 DEF ClickRegister, Shows
        <3> QED  BY <1>7, <3>1, <3>2
    <2>4. ASSUME NEW q \in Clients
          PROVE  /\ waiting'[q] = "LOGIN" => window'[q] = "login" /\ formClient'[q] = chatClient'[q]
                 /\ waiting'[q] = "REGISTER" => window'[q] = "register"
                 /\ waiting'[q] = "RECONNECT" => window'[q] = "chat"
                 /\ waiting'[q] # "nothing" \/ window'[q] \in {"register", "chat"}
                       => chatClient'[q] # None
                 /\ window'[q] = "chat" => formClient'[q] # None
        <3>1. CASE q = p
            BY <1>0, <2>2, <2>3, <3>1
        <3>2. CASE q # p
            BY <2>2, <2>3, <3>2 DEF Windows
        <3> QED  BY <3>1, <3>2
    <2> QED  BY <2>4 DEF Windows
<1>8. CASE SubmitRegister(p)
    BY <1>0, <1>8 DEF SubmitRegister, Ask, Shows, Windows
<1>9. CASE Close(p)
    BY <1>0, <1>9 DEF Close, Windows
<1> QED
    BY <1>1, <1>2, <1>3, <1>4, <1>5, <1>6, <1>7, <1>8, <1>9 DEF EventLoop, Timer, User

\* The objects and the sockets after a step of p.
LEMMA Sockets ==
    ASSUME TypeOK, Owned, NEW p \in Clients, EventLoop(p) \/ Timer(p) \/ User(p)
    PROVE  /\ \A q \in Clients \ {p} : /\ chatClient'[q] = chatClient[q]
                                       /\ formClient'[q] = formClient[q]
                                       /\ window'[q] = window[q]
                                       /\ waiting'[q] = waiting[q]
           /\ chatClient'[p] = chatClient[p] \/ socket[chatClient'[p]] = "none"
           /\ formClient'[p] \in {formClient[p], chatClient'[p], None}
           /\ chatClient'[p] # None => socket'[chatClient'[p]] # "none"
           /\ \A c \in Conns : \/ socket'[c] = socket[c]
                               \/ socket'[c] = "unconnected"
                               \/ c = chatClient'[p] /\ socket[c] = "none"
           /\ \A c \in Conns : socket[c] # "none" => socket'[c] # "none"
<1>0. /\ window \in [Clients -> {"login", "register", "chat", "closed"}]
      /\ waiting \in [Clients -> {"nothing", "LOGIN", "REGISTER", "RECONNECT"}]
      /\ chatClient \in [Clients -> Conns \union {None}]
      /\ formClient \in [Clients -> Conns \union {None}]
      /\ socket \in [Conns -> {"none", "connected", "unconnected"}]
      /\ None \notin Conns
    BY DEF TypeOK
<1>00. chatClient[p] # None => socket[chatClient[p]] # "none"
    BY DEF Owned
<1>1. CASE LoginAnswered(p) \/ RegisterAnswered(p) \/ ReconnectAnswered(p)
    <2>1. /\ UNCHANGED <<chatClient, formClient, socket>>
          /\ waiting' = [waiting EXCEPT ![p] = "nothing"]
        BY <1>1 DEF LoginAnswered, RegisterAnswered, ReconnectAnswered, Answered
    <2>2. \A q \in Clients \ {p} : window'[q] = window[q]
        BY <1>0, <1>1 DEF LoginAnswered, RegisterAnswered, ReconnectAnswered
    <2> QED  BY <1>0, <1>00, <2>1, <2>2
<1>2. CASE ReadyRead(p) \/ ClickSend(p) \/ Beat(p) \/ Miss(p)
    BY <1>0, <1>00, <1>2 DEF ReadyRead, ClickSend, Beat, Miss, windowVars, objectVars
<1>3. ASSUME NEW k \in Conns, Reconnect(p, k)
      PROVE  /\ \A q \in Clients \ {p} : /\ chatClient'[q] = chatClient[q]
                                         /\ waiting'[q] = waiting[q]
             /\ UNCHANGED <<formClient, window>>
             /\ chatClient'[p] = k
             /\ socket[k] = "none" /\ socket'[k] # "none"
             /\ \A c \in Conns \ {k} : socket'[c] = socket[c]
    <2>1. socket[k] = "none" /\ Connect(p, k)
        BY <1>3 DEF Reconnect, Connect
    <2>2. \A q \in Clients \ {p} : waiting'[q] = waiting[q]
        BY <1>0, <1>3 DEF Reconnect
    <2>3. UNCHANGED <<formClient, window>>
        BY <1>3 DEF Reconnect
    <2> QED  BY <2>1, <2>2, <2>3, ConnectType
<1>4. CASE \E k \in Conns : Reconnect(p, k)
    <2>1. PICK k \in Conns : Reconnect(p, k)
        BY <1>4
    <2> QED  BY <1>0, <1>3, <2>1
<1>5. CASE ClickLogin(p) \/ ClickRegister(p)
    <2>1. GetTcpSocketClient(p)
        BY <1>5 DEF ClickLogin, ClickRegister
    <2>2. \A q \in Clients \ {p} : window'[q] = window[q] /\ waiting'[q] = waiting[q]
        <3>1. CASE ClickLogin(p)
            BY <1>0, <3>1 DEF ClickLogin, Shows, Ask
        <3>2. CASE ClickRegister(p)
            BY <1>0, <3>2 DEF ClickRegister, Shows
        <3> QED  BY <1>5, <3>1, <3>2
    <2> QED  BY <1>0, <1>00, <2>1, <2>2, Got
<1>6. CASE SubmitRegister(p)
    BY <1>0, <1>00, <1>6 DEF SubmitRegister, Ask, objectVars
<1>7. CASE Close(p)
    BY <1>0, <1>00, <1>7 DEF Close, Disconnect
<1> QED  BY <1>1, <1>2, <1>4, <1>5, <1>6, <1>7 DEF EventLoop, Timer, User

LEMMA OwnedClient ==
    ASSUME TypeOK, Owned, NEW p \in Clients, EventLoop(p) \/ Timer(p) \/ User(p)
    PROVE  Owned'
<1>1. \A q \in Clients : chatClient[q] \in Conns \union {None}
                         /\ formClient[q] \in Conns \union {None}
    BY DEF TypeOK
<1>2. ASSUME NEW q \in Clients, formClient'[q] # None PROVE socket'[formClient'[q]] # "none"
    BY <1>1, <1>2, Sockets DEF Owned
<1>3. ASSUME NEW q \in Clients, chatClient'[q] # None
      PROVE  /\ socket'[chatClient'[q]] # "none"
             /\ \A r \in Clients : chatClient'[r] = chatClient'[q] => r = q
    <2>1. socket'[chatClient'[q]] # "none"
        BY <1>1, <1>3, Sockets DEF Owned
    <2>2. ASSUME NEW r \in Clients, chatClient'[r] = chatClient'[q], r # q PROVE FALSE
        <3>1. \A s \in Clients \ {p} : chatClient'[s] = chatClient[s]
            BY Sockets
        <3>2. chatClient'[p] = chatClient[p] \/ socket[chatClient'[p]] = "none"
            BY Sockets
        <3>3. \A s \in Clients : chatClient[s] # None =>
                  /\ socket[chatClient[s]] # "none"
                  /\ \A t \in Clients : chatClient[t] = chatClient[s] => t = s
            BY DEF Owned
        <3> QED  BY <1>3, <2>2, <3>1, <3>2, <3>3
    <2> QED  BY <2>1, <2>2
<1> QED  BY <1>2, <1>3 DEF Owned

\* Only a READ asks to go online.
LEMMA NoReadStays ==
    ASSUME TypeOK, NEW k \in Conns, NoRead(k), NEW r \in RequestSet, r.op # "READ",
           toServer'[k] = Append(toServer[k], r)
    PROVE  NoRead(k)'
<1>1. toServer[k] \in Seq(RequestSet)
    BY DEF TypeOK
<1> QED  BY <1>1 DEF NoRead

\* What the sockets of other objects have seen, if p has not closed them.
LEMMA Traffic ==
    ASSUME TypeOK, Windows, NEW p \in Clients, EventLoop(p) \/ Timer(p) \/ User(p),
           NEW c \in Conns, c # chatClient'[p]
    PROVE  /\ loginMsg'[c] = loginMsg[c]
           /\ \/ toServer'[c] = toServer[c] /\ toClient'[c] = toClient[c]
              \/ /\ socket'[c] = "unconnected" /\ toClient'[c] = <<>>
                 /\ \/ toServer'[c] = toServer[c]
                    \/ \E r \in RequestSet :
                          r.op # "READ" /\ toServer'[c] = Append(toServer[c], r)
<1>0. /\ toServer \in [Conns -> Seq(RequestSet)]
      /\ m_account \in [Conns -> Headings \union {None}]
      /\ chatClient \in [Clients -> Conns \union {None}]
      /\ formClient \in [Clients -> Conns \union {None}]
      /\ None \notin Conns
    BY DEF TypeOK
<1>1. waiting[p] # "nothing" \/ window[p] \in {"register", "chat"} => chatClient[p] \in Conns
    BY <1>0 DEF Windows
<1>3. \A k \in Conns : ReceiveData(k) /\ k # c
          => toClient'[c] = toClient[c] /\ loginMsg'[c] = loginMsg[c]
    BY Received
<1>4. CASE LoginAnswered(p) \/ RegisterAnswered(p) \/ ReconnectAnswered(p) \/ ReadyRead(p)
    <2>1. /\ chatClient[p] \in Conns /\ ReceiveData(chatClient[p])
          /\ chatClient' = chatClient
        BY <1>1, <1>4 DEF LoginAnswered, RegisterAnswered, ReconnectAnswered, Answered,
                          ReadyRead, Shows, windowVars
    <2>2. UNCHANGED toServer \/ WriteText(socket, chatClient[p], [op |-> "READ"])
        BY <1>4 DEF LoginAnswered, RegisterAnswered, ReconnectAnswered, ReadyRead
    <2>3. toServer'[c] = toServer[c]
        BY <1>0, <2>1, <2>2 DEF WriteText
    <2> QED  BY <1>3, <2>1, <2>3
<1>5. CASE Beat(p) \/ Miss(p)
    BY <1>5 DEF Beat, Miss, objectVars
<1>6. ASSUME NEW k \in Conns, Reconnect(p, k)
      PROVE  UNCHANGED <<loginMsg, toClient>> /\ toServer'[c] = toServer[c]
    <2>1. chatClient'[p] = k
        BY <1>6, ConnectType DEF Reconnect
    <2>2. PICK h \in KnownAs(chatClient[p]) :
              WriteText(socket', k, [op |-> "RECONNECT", account |-> h])
        BY <1>6 DEF Reconnect
    <2>3. toServer'[c] = toServer[c]
        BY <1>0, <2>1, <2>2 DEF WriteText
    <2> QED  BY <1>6, <2>3 DEF Reconnect
<1>7. ASSUME NEW op, Ask(p, op), chatClient'[p] \in Conns PROVE toServer'[c] = toServer[c]
    BY <1>0, <1>7 DEF Ask, WriteText
<1>8. CASE ClickLogin(p) \/ ClickRegister(p)
    <2>1. chatClient'[p] \in Conns
        BY <1>8, Got DEF ClickLogin, ClickRegister
    <2> QED  BY <1>7, <1>8, <2>1 DEF ClickLogin, ClickRegister
<1>9. CASE SubmitRegister(p)
    <2>1. chatClient'[p] \in Conns
        BY <1>1, <1>9 DEF SubmitRegister, Shows
    <2> QED  BY <1>7, <1>9, <2>1 DEF SubmitRegister, objectVars
<1>10. CASE ClickSend(p)
    <2>1. chatClient[p] \in Conns /\ chatClient' = chatClient
        BY <1>1, <1>10 DEF ClickSend, Shows, windowVars
    <2>2. toServer'[c] = toServer[c]
        BY <1>0, <1>10, <2>1 DEF ClickSend, WriteText
    <2> QED  BY <1>10, <2>2 DEF ClickSend, objectVars
<1>11. CASE Close(p)
    <2>1. chatClient' = chatClient /\ loginMsg' = loginMsg
        BY <1>11 DEF Close
    <2>2. CASE c # formClient[p]
        <3>1. toClient'[c] = toClient[c]
            BY <1>11, <2>1, <2>2 DEF Close, Disconnect
        <3>2. toServer'[c] = toServer[c]
            BY <1>0, <1>11, <2>2 DEF Close
        <3> QED  BY <2>1, <3>1, <3>2
    <2>3. CASE c = formClient[p]
        <3>1. socket'[c] = "unconnected" /\ toClient'[c] = <<>>
            BY <1>0, <1>11, <2>3 DEF Close, Disconnect
        <3>2. \/ toServer'[c] = toServer[c]
              \/ \E r \in RequestSet :
                    r.op # "READ" /\ toServer'[c] = Append(toServer[c], r)
            <4>1. \A h \in KnownAs(c) : [op |-> "LOGOUT", account |-> h] \in RequestSet
                BY KnownAsType DEF RequestSet
            <4>2. CASE UNCHANGED toServer
                BY <4>2
            <4>3. CASE ~UNCHANGED toServer
                <5>1. PICK g \in KnownAs(c) :
                          toServer' = [toServer EXCEPT ![c] =
                                          Append(@, [op |-> "LOGOUT", account |-> g])]
                    BY <1>11, <2>3, <4>3 DEF Close
                <5>2. toServer'[c] = Append(toServer[c], [op |-> "LOGOUT", account |-> g])
                    BY <1>0, <5>1
                <5> QED  BY <4>1, <5>2
            <4> QED  BY <4>2, <4>3
        <3> QED  BY <2>1, <3>1, <3>2
    <2> QED  BY <2>2, <2>3
<1> QED
    BY <1>4, <1>5, <1>6, <1>8, <1>9, <1>10, <1>11 DEF EventLoop, Timer, User

\* Who is not told of a success does not read of one.
LEMMA ReadsNoSuccess ==
    ASSUME TypeOK, NEW k \in Conns, NoSuccess(k), loginMsg[k] # "SUCCESS", ReceiveData(k)
    PROVE  NoSuccess(k)' /\ loginMsg'[k] # "SUCCESS"
<1>1. NoSuccess(k)'
    <2>1. \A i \in 1 .. Len(toClient'[k]) :
              \E j \in 1 .. Len(toClient[k]) : toClient'[k][i] = toClient[k][j]
        BY Received
    <2> QED  BY <2>1 DEF NoSuccess
<1>2. loginMsg'[k] # "SUCCESS"
    <2>1. \/ loginMsg'[k] = loginMsg[k]
          \/ \E j \in 1 .. Len(toClient[k]) : loginMsg'[k] = toClient[k][j]
        BY Received
    <2> QED  BY <2>1 DEF NoSuccess
<1> QED  BY <1>1, <1>2

\* The only message that a client without a user can find is the answer to what it
\* asked, and it takes all of it.
LEMMA FindsAnswer ==
    ASSUME TypeOK, NEW k \in Conns, NEW op, Asked(k, op), toClient[k] # <<>>, ReceiveData(k)
    PROVE  /\ toServer[k] = <<>> /\ Free(k) /\ toClient'[k] = <<>>
           /\ toClient[k][1] \in Answers(op)
           /\ op = "LOGIN" => loginMsg'[k] = toClient[k][1]
<1>1. toServer[k] = <<>> /\ Free(k) /\ Len(toClient[k]) = 1 /\ toClient[k][1] \in Answers(op)
    BY DEF Asked
<1>2. toClient'[k] = <<>>
    <2>1. Len(toClient[k]) <= 1 => toClient'[k] = <<>>
        BY Received
    <2> QED  BY <1>1, <2>1
<1>3. op = "LOGIN" => loginMsg'[k] = toClient[k][1]
    BY <1>1, Received DEF Answers
<1> QED  BY <1>1, <1>2, <1>3

\* What process p and its object keep while the server has no user for it.
Kept(p, k) ==
    /\ NoRead(k) /\ NoSuccess(k) /\ loginMsg[k] # "SUCCESS"
    /\ socket[k] = "connected" =>
          /\ window[p] \in {"login", "register"} /\ waiting[p] = "nothing" => Quiet(k)
          /\ waiting[p] \in {"LOGIN", "REGISTER"} => Asked(k, waiting[p])

LEMMA OwnObject ==
    ASSUME SessionInv, NEW p \in Clients, EventLoop(p) \/ Timer(p) \/ User(p),
           NEW k \in Conns, k = chatClient'[p], user[k] = None
    PROVE  /\ Kept(p, k)'
           /\ socket'[k] = "connected" /\ window'[p] = "chat" => window[p] = "chat"
<1>0. /\ TypeOK /\ Windows /\ Owned
      /\ NoRead(k) /\ NoSuccess(k) /\ loginMsg[k] # "SUCCESS"
      /\ socket[k] = "none" => Quiet(k)
      /\ chatClient[p] = k => Kept(p, k)
    BY DEF SessionInv, Stranger, Fresh, Phase, Kept
<1>00. /\ window \in [Clients -> {"login", "register", "chat", "closed"}]
       /\ waiting \in [Clients -> {"nothing", "LOGIN", "REGISTER", "RECONNECT"}]
       /\ loginMsg \in [Conns -> LoginReplies \union {"empty"}]
       /\ toServer \in [Conns -> Seq(RequestSet)]
       /\ toClient \in [Conns -> Seq(Messages)]
       /\ None \notin Conns
    BY <1>0 DEF TypeOK, Messages
<1>1. UNCHANGED <<accountVars, serverVars>>
    BY <1>0, ClientTypes
<1>2. UNCHANGED <<job, serving>> /\ Free(k)' = Free(k)
    BY <1>1 DEF accountVars, serverVars, Free
<1>3. /\ waiting[p] = "LOGIN" => window[p] = "login"
      /\ waiting[p] = "REGISTER" => window[p] = "register"
      /\ waiting[p] = "RECONNECT" => window[p] = "chat"
    BY <1>0 DEF Windows
<1>4. \A op \in {"LOGIN", "REGISTER"} :
          Answered(p, op) /\ chatClient[p] = k /\ socket[k] = "connected"
          => /\ toServer[k] = <<>> /\ Free(k) /\ toClient'[k] = <<>>
             /\ op = "LOGIN" => loginMsg'[k] \in {"FAIL", "EXIST"}
    <2> SUFFICES ASSUME NEW op \in {"LOGIN", "REGISTER"}, Answered(p, op), chatClient[p] = k,
                        socket[k] = "connected"
                 PROVE  /\ toServer[k] = <<>> /\ Free(k) /\ toClient'[k] = <<>>
                        /\ op = "LOGIN" => loginMsg'[k] \in {"FAIL", "EXIST"}
        OBVIOUS
    <2>1. Asked(k, op) /\ toClient[k] # <<>> /\ ReceiveData(k)
        BY <1>0 DEF Answered, ReadyOrGone, Kept
    <2>2. /\ toServer[k] = <<>> /\ Free(k) /\ toClient'[k] = <<>>
          /\ toClient[k][1] \in Answers(op)
          /\ op = "LOGIN" => loginMsg'[k] = toClient[k][1]
        BY <1>0, <2>1, FindsAnswer
    <2>3. toClient[k][1] # "SUCCESS"
        <3>1. Len(toClient[k]) \in Nat /\ Len(toClient[k]) # 0
            BY <1>00, <2>1
        <3> QED  BY <1>0, <3>1 DEF NoSuccess
    <2> QED  BY <2>2, <2>3 DEF Answers, LoginReplies
<1>5. ASSUME NEW op \in {"LOGIN", "REGISTER", "RECONNECT"}, Answered(p, op), chatClient[p] = k
      PROVE  /\ NoSuccess(k)' /\ loginMsg'[k] # "SUCCESS"
             /\ waiting'[p] = "nothing" /\ socket' = socket
    BY <1>0, <1>00, <1>5, ReadsNoSuccess DEF Answered
<1>6. CASE LoginAnswered(p)
    <2>1. chatClient[p] = k /\ Answered(p, "LOGIN") /\ window[p] = "login"
        BY <1>3, <1>6 DEF LoginAnswered, Answered
    <2>2. CASE socket[k] = "connected"
        <3>1. ~ReadsAsSuccess(loginMsg'[k])
            BY <1>4, <2>1, <2>2 DEF ReadsAsSuccess
        <3>2. UNCHANGED <<window, toServer>>
            BY <1>6, <2>1, <3>1 DEF LoginAnswered
        <3>3. Quiet(k)'
            BY <1>2, <1>4, <2>1, <2>2, <3>2 DEF Quiet
        <3> QED  BY <1>0, <1>5, <2>1, <3>2, <3>3 DEF Kept, NoRead
    <2>3. CASE socket[k] # "connected"
        <3>1. toServer'[k] = toServer[k]
            BY <1>6, <2>1, <2>3 DEF LoginAnswered, WriteText
        <3> QED  BY <1>0, <1>5, <2>1, <2>3, <3>1 DEF Kept, NoRead
    <2> QED  BY <2>2, <2>3
<1>7. CASE RegisterAnswered(p)
    <2>1. chatClient[p] = k /\ Answered(p, "REGISTER") /\ UNCHANGED toServer /\ window'[p] # "chat"
        BY <1>00, <1>3, <1>7 DEF RegisterAnswered, Answered
    <2>2. socket[k] = "connected" => Quiet(k)'
        BY <1>2, <1>4, <2>1 DEF Quiet
    <2> QED  BY <1>0, <1>5, <2>1, <2>2 DEF Kept, NoRead
<1>8. CASE ReconnectAnswered(p)
    <2>1. /\ chatClient[p] = k /\ Answered(p, "RECONNECT")
          /\ UNCHANGED <<toServer, window>> /\ window[p] = "chat"
        BY <1>3, <1>8 DEF ReconnectAnswered, Answered
    <2> QED  BY <1>0, <1>5, <2>1 DEF Kept, NoRead
<1>9. CASE ReadyRead(p)
    <2>1. /\ chatClient[p] = k /\ ReceiveData(k)
          /\ UNCHANGED <<toServer, window, waiting, socket>>
          /\ window[p] = "chat" /\ waiting[p] = "nothing"
        BY <1>9 DEF ReadyRead, windowVars, Shows
    <2> QED  BY <1>0, <2>1, ReadsNoSuccess DEF Kept, NoRead
<1>10. CASE Beat(p) \/ Miss(p)
    <2>1. /\ UNCHANGED <<toServer, toClient, loginMsg, window, waiting, socket>>
          /\ window[p] = "chat" /\ waiting[p] = "nothing"
        BY <1>10 DEF Beat, Miss, Fires, objectVars, Shows
    <2> QED  BY <1>0, <2>1 DEF Kept, NoRead, NoSuccess
<1>11. ASSUME NEW c \in Conns, Reconnect(p, c)
       PROVE  Kept(p, k)' /\ window[p] = "chat"
    <2>1. c = k
        BY <1>0, <1>11, ConnectType DEF Reconnect
    <2>2. PICK h \in KnownAs(chatClient[p]) :
              WriteText(socket', k, [op |-> "RECONNECT", account |-> h])
        BY <1>11, <2>1 DEF Reconnect
    <2>3. chatClient[p] \in Conns
        BY <1>0, <1>11 DEF Reconnect, Fires, Shows, Windows, TypeOK
    <2>4. [op |-> "RECONNECT", account |-> h] \in RequestSet
        BY <1>0, <2>3, KnownAsType DEF RequestSet
    <2>5. \/ toServer'[k] = toServer[k]
          \/ toServer'[k] = Append(toServer[k], [op |-> "RECONNECT", account |-> h])
        BY <1>00, <2>2 DEF WriteText
    <2>6. NoRead(k)'
        <3>1. CASE toServer'[k] = toServer[k]
            BY <1>0, <3>1 DEF NoRead
        <3>2. CASE toServer'[k] = Append(toServer[k], [op |-> "RECONNECT", account |-> h])
            BY <1>0, <2>4, <3>2, NoReadStays
        <3> QED  BY <2>5, <3>1, <3>2
    <2>7. /\ UNCHANGED <<toClient, loginMsg, window>>
          /\ window[p] = "chat" /\ waiting'[p] = "RECONNECT"
        BY <1>00, <1>11 DEF Reconnect, Fires, Shows
    <2> QED  BY <1>0, <2>6, <2>7 DEF Kept, NoSuccess
<1>12. ASSUME NEW op \in {"LOGIN", "REGISTER"}, Ask(p, op), UNCHANGED <<toClient, loginMsg>>,
              socket'[k] = "connected" => Quiet(k)
       PROVE  Kept(p, k)' /\ UNCHANGED window
    <2>1. PICK a \in AccountTexts, pw \in PasswordTexts :
              WriteText(socket', k, [op |-> op, account |-> a, password |-> pw])
        BY <1>12 DEF Ask
    <2> DEFINE r == [op |-> op, account |-> a, password |-> pw]
    <2>2. r \in RequestSet /\ r.op = op
        BY DEF RequestSet
    <2>3. toServer'[k] = IF socket'[k] = "connected" THEN Append(toServer[k], r) ELSE toServer[k]
        BY <1>00, <2>1 DEF WriteText
    <2> HIDE DEF r
    <2>4. NoRead(k)'
        <3>1. CASE toServer'[k] = toServer[k]
            BY <1>0, <3>1 DEF NoRead
        <3>2. CASE toServer'[k] = Append(toServer[k], r)
            BY <1>0, <2>2, <3>2, NoReadStays
        <3> QED  BY <2>3, <3>1, <3>2
    <2>5. waiting'[p] = op /\ UNCHANGED window
        BY <1>00, <1>12 DEF Ask
    <2>6. socket'[k] = "connected" => Asked(k, op)'
        <3> SUFFICES ASSUME socket'[k] = "connected" PROVE Asked(k, op)'
            OBVIOUS
        <3>1. toServer[k] = <<>> /\ toClient[k] = <<>> /\ Free(k)
            BY <1>12 DEF Quiet
        <3>2. toServer'[k] = Append(<<>>, r)
            BY <2>3, <3>1
        <3>3. Len(toServer'[k]) = 1 /\ toServer'[k][1] = r
            BY <2>2, <3>2
        <3> QED  BY <1>2, <1>12, <2>2, <3>1, <3>3 DEF Asked
    <2> QED  BY <1>0, <1>12, <2>4, <2>5, <2>6 DEF Kept, NoSuccess
<1>13. GetTcpSocketClient(p) /\ Shows(p, "login") => (socket'[k] = "connected" => Quiet(k))
    <2> SUFFICES ASSUME GetTcpSocketClient(p), Shows(p, "login"), socket'[k] = "connected"
                 PROVE  Quiet(k)
        OBVIOUS
    <2>1. \/ socket' = socket /\ chatClient' = chatClient
          \/ socket[k] = "none"
        BY <1>0, Got
    <2> QED  BY <1>0, <2>1 DEF Kept, Shows
<1>14. CASE ClickLogin(p)
    <2>1. /\ GetTcpSocketClient(p) /\ Shows(p, "login") /\ UNCHANGED <<toClient, loginMsg>>
          /\ window[p] = "login" /\ waiting[p] = "nothing"
        BY <1>14 DEF ClickLogin, Shows
    <2>2. CASE Ask(p, "LOGIN")
        BY <1>12, <1>13, <2>1, <2>2
    <2>3. CASE UNCHANGED <<window, waiting, toServer>>
        BY <1>0, <1>2, <1>13, <2>1, <2>3 DEF Kept, NoRead, NoSuccess, Quiet
    <2> QED  BY <1>14, <2>2, <2>3 DEF ClickLogin
<1>15. CASE ClickRegister(p)
    <2>1. /\ GetTcpSocketClient(p) /\ Shows(p, "login")
          /\ UNCHANGED <<waiting, toServer, toClient, loginMsg>>
          /\ window[p] = "login" /\ window'[p] # "chat" /\ waiting[p] = "nothing"
        BY <1>00, <1>15 DEF ClickRegister, Shows
    <2> QED  BY <1>0, <1>2, <1>13, <2>1 DEF Kept, NoRead, NoSuccess, Quiet
<1>16. CASE SubmitRegister(p)
    <2>1. /\ Ask(p, "REGISTER") /\ UNCHANGED <<toClient, loginMsg, socket, chatClient>>
          /\ window[p] = "register" /\ waiting[p] = "nothing"
        BY <1>16 DEF SubmitRegister, Shows, objectVars
    <2> QED  BY <1>0, <1>12, <2>1 DEF Kept
<1>17. CASE ClickSend(p)
    <2>1. /\ chatClient[p] = k
          /\ UNCHANGED <<toClient, loginMsg, window, waiting, socket>>
          /\ window[p] = "chat" /\ waiting[p] = "nothing"
        BY <1>17 DEF ClickSend, Shows, windowVars, objectVars
    <2>2. PICK h \in KnownAs(k) : WriteText(socket, k, [op |-> "SEND", account |-> h])
        BY <1>17, <2>1 DEF ClickSend
    <2>3. [op |-> "SEND", account |-> h] \in RequestSet
        BY <1>0, KnownAsType DEF RequestSet
    <2>4. \/ toServer'[k] = toServer[k]
          \/ toServer'[k] = Append(toServer[k], [op |-> "SEND", account |-> h])
        BY <1>00, <2>2 DEF WriteText
    <2>5. NoRead(k)'
        <3>1. CASE toServer'[k] = toServer[k]
            BY <1>0, <3>1 DEF NoRead
        <3>2. CASE toServer'[k] = Append(toServer[k], [op |-> "SEND", account |-> h])
            BY <1>0, <2>3, <3>2, NoReadStays
        <3> QED  BY <2>4, <3>1, <3>2
    <2> QED  BY <1>0, <2>1, <2>5 DEF Kept, NoSuccess
<1>18. CASE Close(p)
    <2>1. /\ chatClient[p] = k /\ UNCHANGED loginMsg /\ window'[p] # "chat"
          /\ socket'[k] = "unconnected" /\ toClient'[k] = <<>>
        BY <1>00, <1>18 DEF Close, Disconnect
    <2>2. NoRead(k)'
        <3>1. CASE toServer'[k] = toServer[k]
            BY <1>0, <3>1 DEF NoRead
        <3>2. CASE toServer'[k] # toServer[k]
            <4>1. formClient[p] = k
                BY <1>00, <1>18, <3>2 DEF Close
            <4>2. PICK h \in KnownAs(k) :
                      toServer' = [toServer EXCEPT ![k] =
                                      Append(@, [op |-> "LOGOUT", account |-> h])]
                BY <1>18, <3>2, <4>1 DEF Close
            <4>3. [op |-> "LOGOUT", account |-> h] \in RequestSet
                BY <1>0, KnownAsType DEF RequestSet
            <4>4. toServer'[k] = Append(toServer[k], [op |-> "LOGOUT", account |-> h])
                BY <1>00, <4>2
            <4> QED  BY <1>0, <4>3, <4>4, NoReadStays
        <3> QED  BY <3>1, <3>2
    <2> QED  BY <1>0, <2>1, <2>2 DEF Kept, NoSuccess
<1> QED
    BY <1>6, <1>7, <1>8, <1>9, <1>10, <1>11, <1>14, <1>15, <1>16, <1>17, <1>18
    DEF EventLoop, Timer, User

\* The chat window opens over the object that has logged in, and keeps it.
LEMMA ChatKeepsForm ==
    ASSUME TypeOK, Windows, NEW p \in Clients, EventLoop(p) \/ Timer(p) \/ User(p),
           NEW q \in Clients, window'[q] = "chat"
    PROVE  IF window[q] = "chat" THEN formClient'[q] = formClient[q]
                                 ELSE formClient'[q] = chatClient'[q]
<1>0. /\ window \in [Clients -> {"login", "register", "chat", "closed"}]
      /\ formClient \in [Clients -> Conns \union {None}]
    BY DEF TypeOK
<1>1. CASE LoginAnswered(p)
    <2>1. /\ UNCHANGED <<chatClient, formClient>>
          /\ formClient[p] = chatClient[p]
          /\ q # p => window'[q] = window[q]
        BY <1>0, <1>1 DEF LoginAnswered, Answered, Windows
    <2> QED  BY <2>1
<1>2. CASE RegisterAnswered(p) \/ SubmitRegister(p) \/ Close(p)
    BY <1>0, <1>2 DEF RegisterAnswered, Answered, SubmitRegister, Ask, Close
<1>3. CASE ReconnectAnswered(p) \/ ReadyRead(p) \/ ClickSend(p) \/ Timer(p)
    BY <1>3 DEF ReconnectAnswered, Answered, ReadyRead, ClickSend, Timer, Beat, Miss, Reconnect,
                windowVars
<1>4. CASE ClickLogin(p) \/ ClickRegister(p)
    <2>1. window[p] = "login" /\ window'[p] # "chat" /\ (q # p => window'[q] = window[q])
        BY <1>0, <1>4 DEF ClickLogin, ClickRegister, Shows, Ask
    <2>2. q # p => formClient'[q] = formClient[q]
        BY <1>4, Got DEF ClickLogin, ClickRegister
    <2> QED  BY <2>1, <2>2
<1> QED  BY <1>1, <1>2, <1>3, <1>4 DEF EventLoop, User

\* What does not depend on the clients stays when the server does nothing.
LEMMA ServerKeeps ==
    ASSUME SessionInv, UNCHANGED <<accountVars, serverVars>>
    PROVE  Served' /\ Known' /\ OnlineIsRegistered'
BY DEF SessionInv, Served, Known, OnlineIsRegistered, Registered, accountVars, serverVars

LEMMA ClientInv ==
    ASSUME SessionInv, NEW p \in Clients, EventLoop(p) \/ Timer(p) \/ User(p), TypeOK'
    PROVE  SessionInv'
<1>0. TypeOK /\ Windows /\ Owned
    BY DEF SessionInv
<1>00. /\ None \notin Conns
       /\ chatClient \in [Clients -> Conns \union {None}]
       /\ formClient \in [Clients -> Conns \union {None}]
       /\ \A q \in Clients : chatClient'[q] \in Conns \union {None}
       /\ \A q \in Clients : formClient'[q] \in Conns \union {None}
    BY <1>0 DEF TypeOK
<1>1. Windows' /\ Owned'
    BY <1>0, WindowsClient, OwnedClient
<1>2. UNCHANGED <<accountVars, serverVars>>
    BY <1>0, ClientTypes
<1>3. /\ UNCHANGED <<user, online, serving, reply, job>>
      /\ \A k \in Conns : Free(k)' = Free(k) /\ Offline(k)' = Offline(k)
    BY <1>2 DEF accountVars, serverVars, Free, Offline
<1>4. Served' /\ Known' /\ OnlineIsRegistered'
    BY <1>2, ServerKeeps
<1>5. ASSUME NEW k \in Conns PROVE Stranger(k)'
    <2> SUFFICES ASSUME user[k] = None
                 PROVE  NoRead(k)' /\ NoSuccess(k)' /\ loginMsg'[k] # "SUCCESS"
        BY <1>3 DEF SessionInv, Stranger
    <2>1. NoRead(k) /\ NoSuccess(k) /\ loginMsg[k] # "SUCCESS"
        BY DEF SessionInv, Stranger
    <2>2. CASE k = chatClient'[p]
        BY <2>2, OwnObject DEF Kept
    <2>3. CASE k # chatClient'[p]
        <3>1. /\ loginMsg'[k] = loginMsg[k]
              /\ toClient'[k] \in {toClient[k], <<>>}
              /\ \/ toServer'[k] = toServer[k]
                 \/ \E r \in RequestSet : r.op # "READ" /\ toServer'[k] = Append(toServer[k], r)
            BY <1>0, <2>3, Traffic
        <3>2. NoSuccess(k)'
            <4>1. CASE toClient'[k] = toClient[k]
                BY <2>1, <4>1 DEF NoSuccess
            <4>2. CASE toClient'[k] = <<>>
                BY <4>2 DEF NoSuccess
            <4> QED  BY <3>1, <4>1, <4>2
        <3>3. NoRead(k)'
            <4>1. CASE toServer'[k] = toServer[k]
                BY <2>1, <4>1 DEF NoRead
            <4>2. ASSUME NEW r \in RequestSet, r.op # "READ", toServer'[k] = Append(toServer[k], r)
                  PROVE  NoRead(k)'
                BY <1>0, <2>1, <4>2, NoReadStays
            <4> QED  BY <3>1, <4>1, <4>2
        <3> QED  BY <2>1, <3>1, <3>2, <3>3
    <2> QED  BY <2>2, <2>3
<1>6. ASSUME NEW k \in Conns PROVE Fresh(k)'
    <2> SUFFICES ASSUME socket'[k] = "none" PROVE Quiet(k)'
        BY DEF Fresh
    <2>1. socket[k] = "none" /\ k # chatClient'[p]
        BY <1>0, <1>00, Sockets
    <2>2. Quiet(k)
        BY <2>1 DEF SessionInv, Fresh
    <2>3. toServer'[k] = toServer[k] /\ toClient'[k] = toClient[k]
        BY <1>0, <2>1, Traffic
    <2> QED  BY <1>3, <2>2, <2>3 DEF Quiet
<1>7. ASSUME NEW q \in Clients, NEW k \in Conns PROVE Phase(q, k)'
    <2> SUFFICES ASSUME chatClient'[q] = k, socket'[k] = "connected", user[k] = None
                 PROVE  /\ window'[q] \in {"login", "register"} /\ waiting'[q] = "nothing"
                              => Quiet(k)'
                        /\ waiting'[q] \in {"LOGIN", "REGISTER"} => Asked(k, waiting[q])'
        BY <1>3 DEF Phase
    <2>1. CASE q = p
        BY <2>1, OwnObject DEF Kept
    <2>2. CASE q # p
        <3>1. k # chatClient'[p]
            BY <1>00, <1>1, <2>2 DEF Owned
        <3>2. /\ chatClient[q] = k
              /\ window'[q] = window[q] /\ waiting'[q] = waiting[q]
            BY <1>0, <2>2, Sockets
        <3>3. socket[k] = "connected"
            BY <1>0, <3>1, Sockets
        <3>4. toServer'[k] = toServer[k] /\ toClient'[k] = toClient[k]
            BY <1>0, <3>1, Traffic
        <3>5. /\ window[q] \in {"login", "register"} /\ waiting[q] = "nothing" => Quiet(k)
              /\ waiting[q] \in {"LOGIN", "REGISTER"} => Asked(k, waiting[q])
            BY <3>2, <3>3 DEF SessionInv, Phase
        <3> QED  BY <1>3, <3>2, <3>4, <3>5 DEF Quiet, Asked
    <2> QED  BY <2>1, <2>2
<1>8. ChatIsLetIn'
    <2> SUFFICES ASSUME NEW q \in Clients, window'[q] = "chat",
                        socket'[formClient'[q]] = "connected", user[formClient'[q]] = None
                 PROVE  FALSE
        BY <1>3 DEF ChatIsLetIn
    <2>1. formClient'[q] \in Conns
        BY <1>00, <1>1 DEF Windows
    <2>2. CASE window[q] = "chat"
        <3>1. formClient[q] \in Conns
            BY <1>0, <1>00, <2>2 DEF Windows
        <3>2. formClient'[q] = formClient[q]
            BY <1>0, <2>2, ChatKeepsForm
        <3>3. socket[formClient[q]] = "connected"
            <4>1. socket[formClient[q]] # "none" /\ socket'[formClient[q]] = "connected"
                BY <1>0, <1>00, <3>1, <3>2 DEF Owned
            <4>2. \A c \in Conns : \/ socket'[c] = socket[c]
                                   \/ socket'[c] = "unconnected"
                                   \/ socket[c] = "none"
                BY <1>0, Sockets
            <4> QED  BY <3>1, <4>1, <4>2
        <3> QED  BY <2>2, <3>2, <3>3 DEF SessionInv, ChatIsLetIn
    <2>3. CASE window[q] # "chat"
        <3>1. q = p
            BY <1>0, <2>3, Sockets
        <3>2. formClient'[p] = chatClient'[p]
            BY <1>0, <2>3, <3>1, ChatKeepsForm
        <3> QED  BY <2>1, <2>3, <3>1, <3>2, OwnObject
    <2> QED  BY <2>2, <2>3
<1> QED
    BY <1>1, <1>4, <1>5, <1>6, <1>7, <1>8 DEF SessionInv

LEMMA LoseInv ==
    ASSUME SessionInv, NEW c \in Conns, Lose(c), TypeOK'
    PROVE  SessionInv'
<1>0. /\ TypeOK /\ Windows /\ Owned
      /\ \A k \in Conns : Stranger(k) /\ Fresh(k)
      /\ \A p \in Clients, k \in Conns : Phase(p, k)
      /\ ChatIsLetIn
    BY DEF SessionInv
<1>1. UNCHANGED <<accountVars, serverVars, windowVars, loginMsg>> /\ socket[c] = "connected"
    BY DEF Lose, Unserved
<1>2. /\ socket'[c] = "unconnected" /\ toClient'[c] = <<>>
      /\ toServer'[c] = toServer[c] \/ toServer'[c] = <<>>
      /\ \A k \in Conns \ {c} : /\ socket'[k] = socket[k]
                                /\ toClient'[k] = toClient[k]
                                /\ toServer'[k] = toServer[k]
    <2>1. toServer' = toServer \/ toServer' = [toServer EXCEPT ![c] = <<>>]
        BY DEF Lose
    <2> QED  BY <1>0, <2>1 DEF Lose, Disconnect, TypeOK
<1>3. /\ UNCHANGED <<user, online, serving, reply, job>>
      /\ UNCHANGED <<window, waiting, chatClient, formClient>>
      /\ \A k \in Conns : Free(k)' = Free(k) /\ Offline(k)' = Offline(k)
    BY <1>1 DEF accountVars, serverVars, windowVars, Free, Offline
<1>4. Served' /\ Known' /\ OnlineIsRegistered'
    BY <1>1, ServerKeeps
<1>5. Windows'
    BY <1>0, <1>3 DEF Windows
<1>6. Owned'
    BY <1>0, <1>2, <1>3 DEF Owned, TypeOK
<1>7. ASSUME NEW k \in Conns PROVE Stranger(k)' /\ Fresh(k)'
    <2>1. CASE k = c
        <3>1. NoRead(k) => NoRead(k)'
            <4>1. CASE toServer'[c] = toServer[c]
                BY <2>1, <4>1 DEF NoRead
            <4>2. CASE toServer'[c] = <<>>
                BY <2>1, <4>2 DEF NoRead
            <4> QED  BY <1>2, <4>1, <4>2
        <3>2. NoSuccess(k)'
            BY <1>2, <2>1 DEF NoSuccess
        <3> QED  BY <1>0, <1>1, <1>2, <1>3, <2>1, <3>1, <3>2 DEF Stranger, Fresh
    <2>2. CASE k # c
        <3>1. /\ toServer'[k] = toServer[k] /\ toClient'[k] = toClient[k]
              /\ socket'[k] = socket[k]
            BY <1>2, <2>2
        <3> QED
            BY <1>0, <1>1, <1>3, <3>1 DEF Stranger, Fresh, NoRead, NoSuccess, Quiet
    <2> QED  BY <2>1, <2>2
<1>8. ASSUME NEW p \in Clients, NEW k \in Conns PROVE Phase(p, k)'
    <2>1. CASE k = c
        BY <1>2, <2>1 DEF Phase
    <2>2. CASE k # c
        <3>1. /\ toServer'[k] = toServer[k] /\ toClient'[k] = toClient[k]
              /\ socket'[k] = socket[k]
            BY <1>2, <2>2
        <3>2. Quiet(k)' = Quiet(k) /\ \A op \in {"LOGIN", "REGISTER"} : Asked(k, op)' = Asked(k, op)
            BY <1>3, <3>1 DEF Quiet, Asked
        <3>3. Phase(p, k)
            BY <1>0
        <3> QED  BY <1>3, <3>1, <3>2, <3>3 DEF Phase
    <2> QED  BY <2>1, <2>2
<1>9. ChatIsLetIn'
    BY <1>0, <1>2, <1>3 DEF ChatIsLetIn, Windows, TypeOK
<1> QED
    BY <1>4, <1>5, <1>6, <1>7, <1>8, <1>9 DEF SessionInv

-----------------------------------------------------------------------------
(***************************************************************************)
(* Steps of the server.                                                    *)
(***************************************************************************)

Requests == {"LOGIN", "REGISTER"}

\* What is on its way on connection k, if anything is, goes its way.
Proceeds(k) ==
    /\ socket[k] # "connected" \/ user'[k] = None => (Quiet(k) => Quiet(k)')
    /\ socket[k] = "connected" /\ user'[k] = None =>
          \A op \in Requests : Asked(k, op) => Asked(k, op)'

\* What a step of the server has to show.
LEMMA ServerFrame ==
    ASSUME SessionInv, Server, TypeOK', Served', Known', OnlineIsRegistered',
           \A k \in Conns : user[k] # None => user'[k] # None,
           \A k \in Conns : Stranger(k)' /\ Proceeds(k)
    PROVE  SessionInv'
<1>0. /\ TypeOK /\ Windows /\ Owned /\ Served
      /\ \A k \in Conns : Fresh(k)
      /\ \A p \in Clients, k \in Conns : Phase(p, k)
      /\ ChatIsLetIn
    BY DEF SessionInv
<1>1. UNCHANGED <<window, waiting, chatClient, formClient, socket>>
    BY <1>0, ServerTypes DEF windowVars, objectVars
<1>2. Windows' /\ Owned'
    BY <1>0, <1>1 DEF Windows, Owned
<1>3. \A k \in Conns : Fresh(k)'
    BY <1>0, <1>1 DEF Fresh, Proceeds
<1>4. ASSUME NEW p \in Clients, NEW k \in Conns PROVE Phase(p, k)'
    <2> SUFFICES ASSUME chatClient[p] = k, socket[k] = "connected", user'[k] = None
                 PROVE  /\ window[p] \in {"login", "register"} /\ waiting[p] = "nothing"
                              => Quiet(k)'
                        /\ waiting[p] \in {"LOGIN", "REGISTER"} => Asked(k, waiting[p])'
        BY <1>1 DEF Phase
    <2>1. user[k] = None
        OBVIOUS
    <2>2. /\ window[p] \in {"login", "register"} /\ waiting[p] = "nothing" => Quiet(k)
          /\ waiting[p] \in {"LOGIN", "REGISTER"} => Asked(k, waiting[p])
        BY <1>0, <2>1 DEF Phase
    <2>3. waiting'[p] = waiting[p]
        BY <1>1
    <2>4. \A op \in Requests : Asked(k, op) => Asked(k, op)'
        BY DEF Proceeds
    <2>5. waiting[p] \in {"LOGIN", "REGISTER"} => Asked(k, waiting[p])'
        <3> SUFFICES ASSUME waiting[p] \in {"LOGIN", "REGISTER"} PROVE Asked(k, waiting[p])'
            OBVIOUS
        <3>1. PICK op \in Requests : op = waiting[p]
            BY DEF Requests
        <3>2. Asked(k, op)'
            BY <2>2, <2>4, <3>1
        <3> QED  BY <2>3, <3>1, <3>2 DEF Asked
    <2>6. Quiet(k) => Quiet(k)'
        BY DEF Proceeds
    <2> QED  BY <2>2, <2>5, <2>6
<1>5. ChatIsLetIn'
    BY <1>0, <1>1 DEF ChatIsLetIn, Windows, TypeOK
<1> QED
    BY <1>2, <1>3, <1>4, <1>5 DEF SessionInv

LEMMA QueryInv ==
    ASSUME SessionInv, TypeOK', NEW w \in Workers, Query(w)
    PROVE  SessionInv'
<1>0. /\ TypeOK /\ Served /\ Known /\ OnlineIsRegistered
      /\ \A k \in Conns : Stranger(k)
    BY DEF SessionInv
<1>1. /\ UNCHANGED <<toServer, toClient, user, online, serving, reply>>
      /\ UNCHANGED <<loginMsg, socket>>
    BY DEF Query, serverVars, OfClients, objectVars
<1>2. job \in [Workers -> Job]
    BY <1>0 DEF TypeOK, AccountsTypeOK
<1>3. /\ job[w].pc \in {"query", "store", "insert"}
      /\ job'[w].pc # "idle"
      /\ job'[w].op = job[w].op /\ job'[w].account = job[w].account
      /\ \A v \in Workers \ {w} : job'[v] = job[v]
      /\ table \subseteq table'
    <2>1. CASE QueryUser(w)
        BY <1>2, <2>1 DEF QueryUser, SelectFails, RegisterUser, Job
    <2>2. CASE StoreResult(w)
        BY <1>2, <2>2 DEF StoreResult, Return, SelectFails, RegisterUser, Job
    <2>3. CASE InsertUser(w)
        BY <1>2, <2>3 DEF InsertUser, Return, Job
    <2> QED  BY <2>1, <2>2, <2>3 DEF Query, DatabaseStep
<1>4. Served'
    BY <1>0, <1>1, <1>3 DEF Served
<1>5. Known' /\ OnlineIsRegistered'
    BY <1>0, <1>1, <1>3 DEF Known, OnlineIsRegistered, Registered
<1>6. ASSUME NEW k \in Conns PROVE Stranger(k)' /\ Proceeds(k)
    <2>1. Stranger(k)'
        BY <1>0, <1>1 DEF Stranger, Offline, NoRead, NoSuccess
    <2>2. \A v \in Workers : job'[v].op = job[v].op
        BY <1>3
    <2>3. Proceeds(k)
        BY <1>1, <2>2 DEF Proceeds, Quiet, Asked, Free
    <2> QED  BY <2>1, <2>3
<1> QED
    BY <1>1, <1>4, <1>5, <1>6, ServerFrame DEF Server

\* A user who goes online after a login has a row, whose number fits a heading.
LEMMA EntersRegistered ==
    ASSUME TypeOK, Inv, NEW w \in Workers, job[w].pc = "done", job[w].op = "LOGIN",
           job[w].success
    PROVE  Registered(Heading(job[w].account)) /\ Heading(job[w].account) # 0
<1>1. /\ Row(job[w].account, job[w].password) \in table
      /\ job[w].account.value # 0
    BY DEF Inv, WorkerOK, AnswerAgrees
<1>2. PICK a \in AccountTexts, p \in PasswordTexts :
          checkAccount(a) /\ Row(a, p) = Row(job[w].account, job[w].password)
    BY <1>1 DEF TypeOK, AccountsTypeOK, ValidRows
<1>3. a.value = job[w].account.value
    BY <1>2 DEF Row
<1>4. a.value \in Nat /\ a.value <= 65535
    BY <1>2, AccountsAssumption DEF AccountText, checkAccount
<1>5. Heading(job[w].account) = job[w].account.value
    BY <1>3, <1>4 DEF Heading
<1> QED
    BY <1>1, <1>5 DEF Registered, Row

LEMMA DecideInv ==
    ASSUME SessionInv, Inv, TypeOK', NEW w \in Workers, Decide(w)
    PROVE  SessionInv'
<1>0. /\ TypeOK /\ Served /\ Known /\ OnlineIsRegistered
      /\ \A k \in Conns : Stranger(k)
    BY DEF SessionInv
<1> DEFINE k == serving[w]
           h == Heading(job[w].account)
           enters == job[w].op = "LOGIN" /\ job[w].success /\ online[h] = None
<1>1. /\ job[w].pc = "done" /\ reply[w] = "nothing"
      /\ user' = IF enters THEN [user EXCEPT ![k] = h] ELSE user
      /\ online' = IF enters THEN [online EXCEPT ![h] = k] ELSE online
      /\ reply' = [reply EXCEPT ![w] = IF job[w].op = "REGISTER" THEN "other"
                                       ELSE IF enters THEN "SUCCESS"
                                       ELSE IF job[w].success THEN "EXIST" ELSE "FAIL"]
      /\ UNCHANGED <<table, job, toServer, toClient, serving, loginMsg, socket>>
    BY DEF Decide, OfClients, objectVars, accountVars
<1>2. /\ user \in [Conns -> Headings \union {None}]
      /\ online \in [Headings -> Conns \union {None}]
      /\ reply \in [Workers -> LoginReplies \union {"nothing", "other"}]
      /\ job[w].op \in {"LOGIN", "REGISTER"}
      /\ None \notin Conns /\ None \notin Headings
    BY <1>0 DEF TypeOK, AccountsTypeOK, Job
<1>3. k \in Conns /\ h \in Headings
    BY <1>0, <1>1, HeadingType DEF Served, TypeOK
<1>4. enters => Registered(h) /\ h # 0
    BY <1>0, <1>1, EntersRegistered
<1>5. /\ reply'[w] \in Answers(job[w].op)
      /\ reply'[w] = "SUCCESS" => enters
      /\ \A v \in Workers \ {w} : reply'[v] = reply[v]
    BY <1>1, <1>2 DEF Answers, LoginReplies
<1>6. /\ enters => user'[k] = h /\ online'[h] = k
      /\ ~enters => user' = user /\ online' = online
      /\ \A c \in Conns \ {k} : user'[c] = user[c]
      /\ \A g \in Headings \ {h} : online'[g] = online[g]
    BY <1>1, <1>2, <1>3
<1> HIDE DEF k, h, enters
<1>7. Served'
    BY <1>0, <1>1, <1>5 DEF Served
<1>8. Known'
    BY <1>0, <1>1, <1>4, <1>6 DEF Known, Registered
<1>9. OnlineIsRegistered'
    BY <1>0, <1>1, <1>4, <1>6 DEF OnlineIsRegistered, Registered
<1>10. \A c \in Conns : user[c] # None => user'[c] # None
    BY <1>2, <1>3, <1>6
<1>11. ASSUME NEW c \in Conns PROVE Stranger(c)'
    <2> SUFFICES ASSUME user'[c] = None
                 PROVE  /\ Offline(c)' /\ NoRead(c)' /\ NoSuccess(c)' /\ loginMsg'[c] # "SUCCESS"
                        /\ \A v \in Workers : serving'[v] = c => reply'[v] # "SUCCESS"
        BY DEF Stranger
    <2>1. user[c] = None /\ ~(enters /\ c = k)
        BY <1>2, <1>3, <1>6, <1>10
    <2>2. /\ Offline(c) /\ NoRead(c) /\ NoSuccess(c) /\ loginMsg[c] # "SUCCESS"
          /\ \A v \in Workers : serving[v] = c => reply[v] # "SUCCESS"
        BY <1>0, <2>1 DEF Stranger
    <2>3. Offline(c)'
        BY <1>6, <2>1, <2>2 DEF Offline
    <2>4. ASSUME NEW v \in Workers, serving'[v] = c PROVE reply'[v] # "SUCCESS"
        BY <1>1, <1>5, <2>1, <2>2, <2>4 DEF k
    <2> QED  BY <1>1, <2>2, <2>3, <2>4 DEF NoRead, NoSuccess
<1>12. ASSUME NEW c \in Conns PROVE Proceeds(c)
    BY <1>1 DEF Proceeds, Quiet, Asked, Free
<1> QED
    BY <1>7, <1>8, <1>9, <1>10, <1>11, <1>12, ServerFrame DEF Server

LEMMA TakeRequestInv ==
    ASSUME SessionInv, TypeOK', NEW w \in Workers, NEW k \in Conns, TakeRequest(w, k)
    PROVE  SessionInv'
<1>0. /\ TypeOK /\ Served /\ Known /\ OnlineIsRegistered
      /\ \A c \in Conns : Stranger(c)
    BY DEF SessionInv
<1>00. /\ toServer \in [Conns -> Seq(RequestSet)]
       /\ serving \in [Workers -> Conns \union {None}]
       /\ job \in [Workers -> Job]
       /\ None \notin Conns
    BY <1>0 DEF TypeOK, AccountsTypeOK
<1>1. /\ toServer[k] # <<>> /\ Free(k)
      /\ UNCHANGED <<table, toClient, user, online, reply, loginMsg, socket>>
    BY DEF TakeRequest, OfClients, objectVars, CheckLogin, IsRegistered, Start
<1>2. /\ Request(k) \in RequestSet
      /\ toServer'[k] = Tail(toServer[k])
      /\ \A c \in Conns \ {k} : toServer'[c] = toServer[c]
    BY <1>0, <1>1, TakenType DEF TakeRequest
<1>3. /\ serving'[w] = k
      /\ \A v \in Workers \ {w} : serving'[v] = serving[v]
    BY <1>00 DEF TakeRequest
<1>4. /\ job[w].pc = "idle"
      /\ Request(k).op \in {"LOGIN", "REGISTER"}
      /\ \A v \in Workers \ {w} : job'[v] = job[v]
      /\ job'[w].pc \in {"query", "done"}
      /\ job'[w].op = Request(k).op /\ job'[w].account = Request(k).account
    <2>1. CASE Request(k).op = "LOGIN" /\ CheckLogin(w, Request(k).account, Request(k).password)
        BY <1>00, <2>1 DEF CheckLogin, Start
    <2>2. CASE /\ Request(k).op = "REGISTER"
               /\ IsRegistered(w, Request(k).account, Request(k).password)
        BY <1>00, <2>2 DEF IsRegistered, Start
    <2> QED  BY <2>1, <2>2 DEF TakeRequest
<1>5. serving[w] = None /\ reply[w] = "nothing"
    BY <1>0, <1>4 DEF Served
<1>6. Request(k).account \in AccountTexts
    BY <1>2, <1>4, RequestType
<1>7. Served'
    <2>1. \A v \in Workers : serving[v] # k
        BY <1>1 DEF Free
    <2>2. reply' = reply
        BY <1>1
    <2>3. ASSUME NEW v \in Workers
          PROVE  /\ serving'[v] = None <=> job'[v].pc = "idle"
                 /\ job'[v].pc # "idle" => job'[v].account \in AccountTexts
                 /\ reply'[v] # "nothing"
                       => job'[v].pc = "done" /\ reply'[v] \in Answers(job'[v].op)
        <3>1. CASE v = w
            BY <1>00, <1>3, <1>4, <1>5, <1>6, <2>2, <3>1
        <3>2. CASE v # w
            BY <1>0, <1>3, <1>4, <2>2, <3>2 DEF Served
        <3> QED  BY <3>1, <3>2
    <2>4. \A u, v \in Workers : serving'[u] = serving'[v] /\ serving'[v] # None => u = v
        BY <1>0, <1>3, <2>1 DEF Served
    <2> QED  BY <2>3, <2>4 DEF Served
<1>8. Known' /\ OnlineIsRegistered'
    BY <1>0, <1>1 DEF Known, OnlineIsRegistered, Registered
<1>9. toServer[k] \in Seq(RequestSet) /\ Len(toServer[k]) \in Nat
    BY <1>00
<1>10. ASSUME NEW c \in Conns PROVE Stranger(c)'
    <2>1. NoRead(c) => NoRead(c)'
        <3>1. CASE c = k
            <4>1. /\ Len(toServer'[k]) = Len(toServer[k]) - 1
                  /\ \A i \in 1 .. Len(toServer[k]) - 1 : toServer'[k][i] = toServer[k][i + 1]
                BY <1>1, <1>2, <1>9
            <4>2. ASSUME NoRead(k), NEW i \in 1 .. Len(toServer'[k])
                  PROVE  toServer'[k][i].op # "READ"
                <5>1. i \in 1 .. Len(toServer[k]) - 1 /\ i + 1 \in 1 .. Len(toServer[k])
                    BY <1>9, <4>1
                <5>2. toServer'[k][i] = toServer[k][i + 1]
                    BY <4>1, <5>1
                <5> QED  BY <4>2, <5>1, <5>2 DEF NoRead
            <4> QED  BY <3>1, <4>2 DEF NoRead
        <3>2. CASE c # k
            BY <1>2, <3>2 DEF NoRead
        <3> QED  BY <3>1, <3>2
    <2>2. \A v \in Workers : serving'[v] = c => reply'[v] = "nothing" \/ serving[v] = c
        BY <1>1, <1>3, <1>5
    <2>3. (Offline(c) => Offline(c)') /\ (NoSuccess(c) => NoSuccess(c)')
        BY <1>1 DEF Offline, NoSuccess
    <2> QED  BY <1>0, <1>1, <2>1, <2>2, <2>3 DEF Stranger
<1>11. ASSUME NEW c \in Conns PROVE Proceeds(c)
    <2>1. CASE c = k
        <3>1. ~Quiet(k)
            BY <1>1 DEF Quiet
        <3>2. ASSUME NEW op \in Requests, Asked(k, op) PROVE Asked(k, op)'
            <4>1. Len(toServer[k]) = 1 /\ toServer[k][1].op = op /\ toClient[k] = <<>>
                BY <1>1, <3>2 DEF Asked
            <4>2. toServer'[k] = <<>>
                <5>1. Tail(toServer[k]) \in Seq(RequestSet) /\ Len(Tail(toServer[k])) = 0
                    BY <1>1, <1>9, <4>1
                <5>2. Tail(toServer[k]) = <<>>
                    BY <5>1, EmptySeq
                <5> QED  BY <1>2, <5>2
            <4>3. job'[w].op = op
                BY <1>4, <4>1 DEF Request
            <4> QED  BY <1>1, <1>3, <4>1, <4>2, <4>3 DEF Asked
        <3> QED  BY <2>1, <3>1, <3>2 DEF Proceeds
    <2>2. CASE c # k
        <3>1. toServer'[c] = toServer[c] /\ toClient'[c] = toClient[c]
            BY <1>1, <1>2, <2>2
        <3>2. Free(c)' = Free(c)
            BY <1>00, <1>3, <1>5, <2>2 DEF Free
        <3>3. \A op : (\E v \in Workers : serving[v] = c /\ job[v].op = op)
                          => \E v \in Workers : serving'[v] = c /\ job'[v].op = op
            BY <1>00, <1>3, <1>4, <1>5
        <3> QED  BY <3>1, <3>2, <3>3 DEF Proceeds, Quiet, Asked
    <2> QED  BY <2>1, <2>2
<1>12. \A c \in Conns : user[c] # None => user'[c] # None
    BY <1>1
<1> QED
    BY <1>7, <1>8, <1>10, <1>11, <1>12, ServerFrame DEF Server

\* A message to somebody else, or one that nobody takes for a success, leaves a
\* stranger what it knows.
LEMMA HearsNoSuccess ==
    ASSUME TypeOK, NEW k \in Conns, NEW ms \in Seq(Messages), NEW all, Deliver(k, ms, all),
           NEW c \in Conns, NoSuccess(c),
           c = k => \A j \in 1 .. Len(ms) : ms[j] # "SUCCESS"
    PROVE  NoSuccess(c)'
<1>1. \A i \in 1 .. Len(toClient'[c]) :
          \/ \E j \in 1 .. Len(toClient[c]) : toClient'[c][i] = toClient[c][j]
          \/ c = k /\ \E j \in 1 .. Len(ms) : toClient'[c][i] = ms[j]
          \/ toClient'[c][i] = "other"
    BY Delivered
<1> QED  BY <1>1 DEF NoSuccess

LEMMA SendReplyInv ==
    ASSUME SessionInv, TypeOK', NEW w \in Workers, SendReply(w)
    PROVE  SessionInv'
<1>0. /\ TypeOK /\ Served /\ Known /\ OnlineIsRegistered
      /\ \A c \in Conns : Stranger(c)
    BY DEF SessionInv
<1>00. /\ serving \in [Workers -> Conns \union {None}]
       /\ reply \in [Workers -> LoginReplies \union {"nothing", "other"}]
       /\ job \in [Workers -> Job]
       /\ None \notin Conns
    BY <1>0 DEF TypeOK, AccountsTypeOK
<1>1. PICK k \in Conns : k = serving[w]
    BY <1>0, <1>00 DEF SendReply, Finish, Served
<1>2. PICK all : /\ all \in {online, Nobody}
                 /\ Deliver(k, <<reply[w]>>, all)
    BY <1>1 DEF SendReply
<1>3. /\ reply[w] # "nothing" /\ <<reply[w]>> \in Seq(Messages)
      /\ UNCHANGED <<table, toServer, user, online, loginMsg, socket>>
    BY <1>00 DEF SendReply, Finish, OfClients, objectVars, Messages
<1>11. \A c \in Conns : socket[c] = "connected" /\ (\A h \in Headings : all[h] # c)
          => toClient'[c] = IF c = k THEN toClient[c] \o <<reply[w]>> ELSE toClient[c]
    <2> DEFINE ms == <<reply[w]>>
    <2>1. ms \in Seq(Messages) /\ Deliver(k, ms, all)
        BY <1>2, <1>3
    <2>2. ms = <<reply[w]>>
        OBVIOUS
    <2> HIDE DEF ms
    <2>3. \A c \in Conns : socket[c] = "connected" /\ (\A h \in Headings : all[h] # c)
              => toClient'[c] = IF c = k THEN toClient[c] \o ms ELSE toClient[c]
        BY <1>0, <2>1, Delivered
    <2> QED  BY <2>2, <2>3
<1>4. /\ serving'[w] = None /\ reply'[w] = "nothing" /\ job'[w].pc = "idle"
      /\ \A v \in Workers \ {w} : /\ serving'[v] = serving[v]
                                  /\ reply'[v] = reply[v]
                                  /\ job'[v] = job[v]
    BY <1>00 DEF SendReply, Finish, Job
<1>5. reply[w] \in Answers(job[w].op) /\ \A v \in Workers : serving[v] = k => v = w
    BY <1>0, <1>00, <1>1, <1>3 DEF Served
<1>6. Served'
    BY <1>0, <1>4 DEF Served
<1>7. Known' /\ OnlineIsRegistered'
    BY <1>0, <1>3 DEF Known, OnlineIsRegistered, Registered
<1>8. ASSUME NEW c \in Conns PROVE Stranger(c)'
    <2> SUFFICES ASSUME user[c] = None
                 PROVE  /\ Offline(c)' /\ NoRead(c)' /\ NoSuccess(c)' /\ loginMsg'[c] # "SUCCESS"
                        /\ \A v \in Workers : serving'[v] = c => reply'[v] # "SUCCESS"
        BY <1>3 DEF Stranger
    <2>1. /\ Offline(c) /\ NoRead(c) /\ NoSuccess(c) /\ loginMsg[c] # "SUCCESS"
          /\ \A v \in Workers : serving[v] = c => reply[v] # "SUCCESS"
        BY <1>0 DEF Stranger
    <2>2. c = k => \A j \in 1 .. Len(<<reply[w]>>) : <<reply[w]>>[j] # "SUCCESS"
        BY <1>1, <2>1
    <2>3. NoSuccess(c)'
        BY <1>0, <1>2, <1>3, <2>1, <2>2, HearsNoSuccess
    <2>4. Offline(c)' /\ NoRead(c)' /\ loginMsg'[c] # "SUCCESS"
        BY <1>3, <2>1 DEF Offline, NoRead
    <2>5. ASSUME NEW v \in Workers, serving'[v] = c PROVE reply'[v] # "SUCCESS"
        BY <1>00, <1>4, <2>1, <2>5
    <2> QED  BY <2>3, <2>4, <2>5
<1>9. ASSUME NEW c \in Conns PROVE Proceeds(c)
    <2> SUFFICES ASSUME socket[c] # "connected" \/ user[c] = None
                 PROVE  /\ Quiet(c) => Quiet(c)'
                        /\ socket[c] = "connected" =>
                              \A op \in Requests : Asked(c, op) => Asked(c, op)'
        BY <1>3 DEF Proceeds
    <2>1. user[c] = None => \A h \in Headings : all[h] # c
        BY <1>0, <1>00, <1>2 DEF Stranger, Offline, Nobody
    <2>2. CASE c = k
        <3>1. ~Quiet(k) /\ ~Free(k)
            BY <1>1 DEF Quiet, Free
        <3>2. ASSUME NEW op \in Requests, Asked(k, op), socket[k] = "connected" PROVE Asked(k, op)'
            <4>1. toServer[k] = <<>> /\ toClient[k] = <<>> /\ job[w].op = op
                BY <1>5, <3>1, <3>2 DEF Asked
            <4>2. \A h \in Headings : all[h] # k
                BY <2>1, <2>2, <3>2
            <4>3. toClient'[k] = toClient[k] \o <<reply[w]>>
                BY <1>11, <3>2, <4>2
            <4>4. Len(toClient'[k]) = 1 /\ toClient'[k][1] = reply[w]
                BY <4>1, <4>3
            <4>5. Free(k)'
                BY <1>00, <1>4, <1>5 DEF Free
            <4> QED  BY <1>3, <1>5, <4>1, <4>4, <4>5 DEF Asked
        <3> QED  BY <2>2, <3>1, <3>2
    <2>3. CASE c # k
        <3>1. toClient'[c] = toClient[c]
            <4>1. CASE socket[c] # "connected"
                BY <1>0, <1>2, <1>3, <4>1, Delivered
            <4>2. CASE socket[c] = "connected"
                BY <1>11, <2>1, <2>3, <4>2
            <4> QED  BY <4>1, <4>2
        <3>2. Free(c)' = Free(c)
            BY <1>00, <1>1, <1>4, <2>3 DEF Free
        <3>3. \A op : (\E v \in Workers : serving[v] = c /\ job[v].op = op)
                          => \E v \in Workers : serving'[v] = c /\ job'[v].op = op
            BY <1>1, <1>4, <2>3
        <3> QED  BY <1>3, <3>1, <3>2, <3>3 DEF Quiet, Asked
    <2> QED  BY <2>2, <2>3
<1>10. \A c \in Conns : user[c] # None => user'[c] # None
    BY <1>3
<1> QED
    BY <1>6, <1>7, <1>8, <1>9, <1>10, ServerFrame DEF Server

\* What the four requests do to the users and the cache: nobody is forgotten by a
\* connection, and whoever is new in the cache was online or has logged in.
LEMMA ServeEffect ==
    ASSUME SessionInv, NEW k \in Conns, Serve(k)
    PROVE  /\ Request(k).op \in {"READ", "SEND", "LOGOUT", "RECONNECT"}
           /\ \A c \in Conns : user'[c] # user[c] =>
                 c = k /\ user'[c] \in Headings /\ online[user'[c]] # None
           /\ \A h \in Headings : online'[h] # online[h] =>
                 \/ online'[h] = None
                 \/ online'[h] = k /\ user'[k] = h
           /\ \E ms \in Seq(Messages) : \E all \in {online, online', Nobody} :
                 /\ Deliver(k, ms, all)
                 /\ \A j \in 1 .. Len(ms) : ms[j] # "SUCCESS"
<1>0. /\ TypeOK /\ \A c \in Conns : Stranger(c)
      /\ user \in [Conns -> Headings \union {None}]
      /\ online \in [Headings -> Conns \union {None}]
      /\ None \notin Headings
    BY DEF SessionInv, TypeOK
<1>1. Request(k) \in RequestSet /\ toServer[k] # <<>>
    BY <1>0, TakenType DEF Serve
<1>2. <<>> \in Seq(Messages) /\ <<"other", "other">> \in Seq(Messages)
    BY DEF Messages
<1>3. /\ \A j \in 1 .. Len(<<>>) : <<>>[j] # "SUCCESS"
      /\ \A j \in 1 .. Len(<<"other", "other">>) : <<"other", "other">>[j] # "SUCCESS"
    OBVIOUS
<1>4. CASE ServeRead(k)
    <2>1. Request(k).op = "READ" /\ user' = user /\ Deliver(k, <<>>, online')
        BY <1>4 DEF ServeRead
    <2>2. user[k] # None
        <3>1. toServer[k] \in Seq(RequestSet) /\ Head(toServer[k]) = toServer[k][1]
            BY <1>0, <1>1 DEF TypeOK
        <3>2. Len(toServer[k]) \in Nat /\ Len(toServer[k]) # 0
            BY <1>1, <3>1
        <3>3. ~NoRead(k)
            BY <2>1, <3>1, <3>2 DEF NoRead, Request
        <3> QED  BY <1>0, <3>3 DEF Stranger
    <2>3. online' = [online EXCEPT ![user[k]] = k]
        BY <1>4, <2>2 DEF ServeRead
    <2>4. \A h \in Headings : online'[h] # online[h] => online'[h] = k /\ user'[k] = h
        BY <1>0, <2>1, <2>3
    <2> QED  BY <1>2, <1>3, <2>1, <2>4
<1>5. CASE ServeSend(k)
    BY <1>2, <1>3, <1>5 DEF ServeSend
<1>6. CASE ServeLogout(k)
    <2>1. /\ Request(k).op = "LOGOUT" /\ user' = user
          /\ online' = [online EXCEPT ![Request(k).account] = None]
          /\ \E all \in {online', Nobody} : Deliver(k, <<>>, all)
        BY <1>6 DEF ServeLogout
    <2>2. \A h \in Headings : online'[h] # online[h] => online'[h] = None
        BY <1>0, <2>1
    <2> QED  BY <1>2, <1>3, <2>1, <2>2
<1>7. CASE ServeReconnect(k)
    <2>1. /\ Request(k).op = "RECONNECT" /\ Deliver(k, <<"other", "other">>, Nobody)
          /\ \/ /\ online[Request(k).account] # None
                /\ user' = [user EXCEPT ![k] = Request(k).account]
                /\ online' = [online EXCEPT ![Request(k).account] = k]
             \/ user' = user /\ online' = online
        BY <1>7 DEF ServeReconnect
    <2>2. Request(k).account \in Headings
        BY <1>1, <2>1 DEF RequestSet
    <2>3. /\ \A c \in Conns : user'[c] # user[c] =>
                c = k /\ user'[c] \in Headings /\ online[user'[c]] # None
          /\ \A h \in Headings : online'[h] # online[h] => online'[h] = k /\ user'[k] = h
        BY <1>0, <2>1, <2>2
    <2> QED  BY <1>2, <1>3, <2>1, <2>3
<1> QED
    BY <1>4, <1>5, <1>6, <1>7 DEF Serve

LEMMA ServeInv ==
    ASSUME SessionInv, TypeOK', NEW k \in Conns, Serve(k)
    PROVE  SessionInv'
<1>0. /\ TypeOK /\ Served /\ Known /\ OnlineIsRegistered
      /\ \A c \in Conns : Stranger(c)
      /\ None \notin Conns /\ None \notin Headings
    BY DEF SessionInv, TypeOK
<1>1. /\ toServer[k] # <<>> /\ Free(k)
      /\ UNCHANGED <<table, job, serving, reply, loginMsg, socket>>
    BY DEF Serve, OfClients, objectVars, accountVars
<1>2. /\ toServer[k] \in Seq(RequestSet) /\ Len(toServer[k]) \in Nat
      /\ toServer'[k] = Tail(toServer[k])
      /\ \A c \in Conns \ {k} : toServer'[c] = toServer[c]
    BY <1>0, <1>1, TakenType DEF Serve, TypeOK
<1>3. /\ \A c \in Conns : user'[c] # user[c] =>
            c = k /\ user'[c] \in Headings /\ online[user'[c]] # None
      /\ \A h \in Headings : online'[h] # online[h] =>
            online'[h] = None \/ (online'[h] = k /\ user'[k] = h)
      /\ Request(k).op \notin Requests
    BY ServeEffect DEF Requests
<1>4. PICK ms \in Seq(Messages), all \in {online, online', Nobody} :
          /\ Deliver(k, ms, all)
          /\ \A j \in 1 .. Len(ms) : ms[j] # "SUCCESS"
    BY ServeEffect
<1>5. Served'
    BY <1>0, <1>1 DEF Served
<1>6. Known'
    BY <1>0, <1>1, <1>3 DEF Known, OnlineIsRegistered, Registered
<1>7. OnlineIsRegistered'
    <2> SUFFICES ASSUME NEW h \in Headings, online'[h] # None
                 PROVE  Registered(h)' /\ h # 0
        BY DEF OnlineIsRegistered
    <2>1. CASE online'[h] = online[h]
        BY <1>0, <1>1, <2>1 DEF OnlineIsRegistered, Registered
    <2>2. CASE online'[h] # online[h]
        BY <1>0, <1>3, <1>6, <2>2 DEF Known
    <2> QED  BY <2>1, <2>2
<1>8. \A c \in Conns : user[c] # None => user'[c] # None
    BY <1>0, <1>3
<1>9. ASSUME NEW c \in Conns, user'[c] = None
      PROVE  user[c] = None /\ Offline(c) /\ Offline(c)'
    <2>1. user[c] = None
        BY <1>8, <1>9
    <2>2. Offline(c)
        BY <1>0, <2>1 DEF Stranger
    <2>3. ASSUME NEW h \in Headings PROVE online'[h] # c
        BY <1>0, <1>3, <1>9, <2>2 DEF Offline
    <2> QED  BY <2>1, <2>2, <2>3 DEF Offline
<1>10. ASSUME NEW c \in Conns PROVE Stranger(c)'
    <2> SUFFICES ASSUME user'[c] = None
                 PROVE  /\ Offline(c)' /\ NoRead(c)' /\ NoSuccess(c)' /\ loginMsg'[c] # "SUCCESS"
                        /\ \A v \in Workers : serving'[v] = c => reply'[v] # "SUCCESS"
        BY DEF Stranger
    <2>1. /\ user[c] = None /\ Offline(c)'
          /\ NoRead(c) /\ NoSuccess(c) /\ loginMsg[c] # "SUCCESS"
          /\ \A v \in Workers : serving[v] = c => reply[v] # "SUCCESS"
        BY <1>0, <1>9 DEF Stranger
    <2>2. NoSuccess(c)'
        BY <1>0, <1>4, <2>1, HearsNoSuccess
    <2>3. NoRead(c)'
        <3>1. CASE c = k
            <4>1. /\ Len(toServer'[k]) = Len(toServer[k]) - 1
                  /\ \A i \in 1 .. Len(toServer[k]) - 1 : toServer'[k][i] = toServer[k][i + 1]
                BY <1>1, <1>2
            <4>2. ASSUME NEW i \in 1 .. Len(toServer'[k]) PROVE toServer'[k][i].op # "READ"
                <5>1. i \in 1 .. Len(toServer[k]) - 1 /\ i + 1 \in 1 .. Len(toServer[k])
                    BY <1>2, <4>1
                <5>2. toServer'[k][i] = toServer[k][i + 1]
                    BY <4>1, <5>1
                <5> QED  BY <2>1, <3>1, <5>1, <5>2 DEF NoRead
            <4> QED  BY <3>1, <4>2 DEF NoRead
        <3>2. CASE c # k
            BY <1>2, <2>1, <3>2 DEF NoRead
        <3> QED  BY <3>1, <3>2
    <2> QED  BY <1>1, <2>1, <2>2, <2>3
<1>11. \A c \in Conns : user'[c] = None => \A h \in Headings : all[h] # c
    BY <1>0, <1>4, <1>9 DEF Offline, Nobody
<1>12. ASSUME NEW c \in Conns PROVE Proceeds(c)
    <2>1. CASE c = k
        <3>1. ~Quiet(k)
            BY <1>1 DEF Quiet
        <3>2. \A op \in Requests : ~Asked(k, op)
            <4>1. toServer[k][1] = Request(k)
                BY <1>1, <1>2 DEF Request
            <4> QED  BY <1>1, <1>3, <4>1 DEF Asked
        <3> QED  BY <2>1, <3>1, <3>2 DEF Proceeds
    <2>2. CASE c # k
        <3>1. toServer'[c] = toServer[c]
            BY <1>2, <2>2
        <3>2. socket[c] # "connected" \/ user'[c] = None => toClient'[c] = toClient[c]
            <4>1. socket[c] # "connected" => toClient'[c] = toClient[c]
                BY <1>0, <1>4, Delivered
            <4>2. socket[c] = "connected" /\ (\A h \in Headings : all[h] # c)
                      => toClient'[c] = toClient[c]
                BY <1>0, <1>4, <2>2, Delivered
            <4> QED  BY <1>11, <4>1, <4>2
        <3> QED  BY <1>1, <3>1, <3>2 DEF Proceeds, Quiet, Asked, Free
    <2> QED  BY <2>1, <2>2
<1> QED
    BY <1>5, <1>6, <1>7, <1>8, <1>10, <1>12, ServerFrame DEF Server

LEMMA OtherInv ==
    ASSUME SessionInv, TypeOK', Race \/ \E h \in Headings : Evict(h)
    PROVE  SessionInv'
<1>0. /\ TypeOK /\ Served /\ Known /\ OnlineIsRegistered
      /\ \A c \in Conns : Stranger(c)
    BY DEF SessionInv
<1>1. UNCHANGED <<table, job, toServer, toClient, user, serving, reply, loginMsg, socket>>
    BY DEF Race, ConnectorRace, Evict, OfClients, objectVars, accountVars, serverVars
<1>2. \A h \in Headings : online'[h] \in {online[h], None}
    <2>1. CASE Race
        BY <2>1 DEF Race, serverVars
    <2>2. ASSUME NEW g \in Headings, Evict(g)
          PROVE  \A h \in Headings : online'[h] \in {online[h], None}
        BY <1>0, <2>2 DEF Evict, TypeOK
    <2> QED  BY <2>1, <2>2
<1>3. Served' /\ Known'
    BY <1>0, <1>1 DEF Served, Known, Registered
<1>4. OnlineIsRegistered'
    BY <1>0, <1>1, <1>2 DEF OnlineIsRegistered, Registered
<1>5. ASSUME NEW c \in Conns PROVE Stranger(c)' /\ Proceeds(c)
    <2>1. Offline(c) => Offline(c)'
        BY <1>0, <1>2 DEF Offline, TypeOK
    <2>2. Stranger(c)'
        BY <1>0, <1>1, <2>1 DEF Stranger, NoRead, NoSuccess
    <2>3. Proceeds(c)
        BY <1>1 DEF Proceeds, Quiet, Asked, Free
    <2> QED  BY <2>2, <2>3
<1> QED
    BY <1>1, <1>3, <1>4, <1>5, ServerFrame DEF Server

-----------------------------------------------------------------------------
(***************************************************************************)
(* The theorems.                                                           *)
(***************************************************************************)

SessionIInv == SessionInv /\ Inv

LEMMA InitSession == Init => SessionIInv
<1> SUFFICES ASSUME Init PROVE SessionIInv
    OBVIOUS
<1>1. Inv
    BY InitInv DEF Init
<1>2. TypeOK
    <2>1. \A k \in Conns : toServer[k] = <<>> /\ toClient[k] = <<>>
        BY DEF Init
    <2>2. AccountsTypeOK
        BY <1>1 DEF Inv
    <2>3. /\ requests \in 0 .. MaxRequests /\ heartbeatCount \in [Clients -> 0 .. Tolerated + 1]
          /\ timer \in [Clients -> 0 .. Interval]
        BY DEF Init
    <2>4. <<>> \in Seq(RequestSet) /\ <<>> \in Seq(LoginReplies \union {"other"})
        OBVIOUS
    <2>5. /\ toServer \in [Conns -> Seq(RequestSet)]
          /\ toClient \in [Conns -> Seq(LoginReplies \union {"other"})]
        BY <2>4 DEF Init
    <2> QED  BY <2>2, <2>3, <2>5 DEF Init, TypeOK
<1>3. Windows /\ Owned
    BY DEF Init, Windows, Owned
<1>4. Served
    BY DEF Init, AccountsInit, NoJob, Served
<1>5. \A k \in Conns : Stranger(k) /\ Fresh(k)
    BY DEF Init, Stranger, Fresh, Offline, NoRead, NoSuccess, Quiet, Free
<1>6. \A p \in Clients, k \in Conns : Phase(p, k)
    BY DEF Init, Phase
<1>7. Known /\ ChatIsLetIn /\ OnlineIsRegistered
    BY DEF Init, Known, ChatIsLetIn, OnlineIsRegistered
<1> QED
    BY <1>1, <1>2, <1>3, <1>4, <1>5, <1>6, <1>7 DEF SessionIInv, SessionInv

LEMMA StepSession == SessionIInv /\ [Next]_vars => SessionIInv'
<1> SUFFICES ASSUME SessionInv, Inv, [Next]_vars PROVE SessionIInv'
    BY DEF SessionIInv
<1>1. TypeOK' /\ Inv'
    BY TypeStep DEF SessionInv
<1>2. ASSUME UNCHANGED vars \/ \E p \in Clients : Pass(p) PROVE SessionInv'
    <2>1. /\ UNCHANGED <<table, job, window, waiting, chatClient, formClient, socket, loginMsg>>
          /\ UNCHANGED <<toServer, toClient, user, online, serving, reply>>
        BY <1>2 DEF vars, Pass, Unserved, accountVars, windowVars, objectVars, serverVars
    <2>2. \A k \in Conns : /\ Stranger(k)' = Stranger(k) /\ Fresh(k)' = Fresh(k)
                           /\ \A p \in Clients : Phase(p, k)' = Phase(p, k)
        BY <2>1 DEF Stranger, Offline, NoRead, NoSuccess, Fresh, Phase, Quiet, Asked, Free
    <2>3. Windows' /\ Owned' /\ Served' /\ Known' /\ ChatIsLetIn' /\ OnlineIsRegistered'
        BY <2>1 DEF SessionInv, Windows, Owned, Served, Known, ChatIsLetIn, OnlineIsRegistered,
                    Registered
    <2> QED  BY <1>1, <2>2, <2>3 DEF SessionInv
<1>3. ASSUME NEW p \in Clients, EventLoop(p) \/ Timer(p) \/ User(p) PROVE SessionInv'
    BY <1>1, <1>3, ClientInv
<1>4. ASSUME NEW k \in Conns, Lose(k) PROVE SessionInv'
    BY <1>1, <1>4, LoseInv
<1>5. ASSUME Server PROVE SessionInv'
    BY <1>1, <1>5, QueryInv, DecideInv, SendReplyInv, TakeRequestInv, ServeInv, OtherInv
    DEF Server
<1> QED
    BY <1>1, <1>2, <1>3, <1>4, <1>5 DEF Next, SessionIInv

\* All that holds of a session follows from the invariant.
LEMMA AlwaysSession == Spec => []SessionIInv
BY InitSession, StepSession, PTL DEF Spec

\* Every variable of clients and server has its type in every state that Next reaches,
\* for any number of clients, connections, workers and texts.
THEOREM SessionTypeCorrect == Spec => []TypeOK
BY AlwaysSession, PTL DEF SessionIInv, SessionInv

\* Nobody sits in a connected chat window whom the server has not let in, although
\* LoginAnswered takes whatever message it finds first for the answer to the login.
THEOREM ChatAlwaysLetIn == Spec => []ChatIsLetIn
BY AlwaysSession, PTL DEF SessionIInv, SessionInv

\* Whoever is in the cache of the server has an account in the table, under the two
\* bytes that a heading has for it, through READ, RECONNECT and the checks of a login.
THEOREM OnlineAlwaysRegistered == Spec => []OnlineIsRegistered
BY AlwaysSession, PTL DEF SessionIInv, SessionInv

\* The server of a session uses the database only as the workers of Accounts do: what
\* is proved of them holds here.
THEOREM SessionImplementsAccounts == Spec => AccountsSpec
<1>1. Init => AccountsInit
    BY DEF Init
<1>2. SessionIInv /\ [Next]_vars => [AccountsNext]_accountVars
    BY AccountsStep DEF SessionIInv, SessionInv
<1> QED
    BY <1>1, <1>2, AlwaysSession, PTL DEF Spec, AccountsSpec

\* So what checkLogin and registerUser return in a session agrees with the table as the
\* three properties of Accounts say, as long as no two library calls overlap.
COROLLARY SessionAnswersAgree ==
    Spec => [](SuccessIsStored /\ RefusedIsUnknown /\ RegisteredOnce)
BY SessionImplementsAccounts, SuccessAlwaysStored, RefusedAlwaysUnknown,
   AlwaysRegisteredOnce, PTL

=============================================================================
