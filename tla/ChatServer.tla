----------------------------- MODULE ChatServer -----------------------------
(***************************************************************************)
(* The server as a whole: Server.cpp, Epoll.cpp and Connection.cpp over    *)
(* the cache of online users (LRUCache) and the worker pool, whose jobs    *)
(* run in the order they are pushed, each by one worker (ThreadPool).      *)
(*                                                                         *)
(* The main thread runs Server::run: it waits for events, hands readable   *)
(* and writable connections to the workers, and runs the functors that     *)
(* the workers have posted.  A worker runs getRequestInfo or               *)
(* sendResponseInfo.  What a worker still has to do is a sequence of       *)
(* operations, todo[w], each of which is one step: a call that another     *)
(* thread can observe, with the computation that leads to it.              *)
(*                                                                         *)
(* Messages arrive and leave whole; of a request that arrives in two       *)
(* reads, the rest is a request of its own, Fragment.  Nothing is said of  *)
(* what a program does after undefined behaviour, or a signal that ends    *)
(* it: the model stops there, with its kind in ub.                         *)
(***************************************************************************)
EXTENDS Integers, Sequences, FiniteSets, SequencesExt

CONSTANTS
    Conns,          \* connections, each accepted at most once
    Accounts,       \* the accounts in the database
    NoAccount,      \* an account that is not there, as in the reply headers
    Listener,       \* the listening socket
    Workers,        \* the threads of the pool
    Ops,            \* the requests that clients make
    Requests,       \* bound on the requests sent and the clients that die
    MaxClock,       \* bound on the periods of live_Time that pass
    SlowPeers       \* whether a socket may accept less than is written

ASSUME ServerAssumption ==
    /\ Requests \in Nat
    /\ MaxClock \in Nat
    /\ SlowPeers \in BOOLEAN
    /\ Listener \notin Conns
    /\ NoAccount \notin Accounts

VARIABLES
    \* connections, as the server has them
    status,         \* "none", "backlog", "open" or "deleted"
    m_account,      \* the account set_userInfo stored
    interest,       \* the events the one-shot registration is armed for
    inBuffer,       \* requests read from the socket and not yet parsed
    outBuffer,      \* messages not yet written to the socket
    \* the clients
    phase,          \* see ClientPhase below
    user,           \* the account the client entered
    loginMsg,       \* the reply to LOGIN it received last
    socket,         \* requests sent and not yet read
    delivered,      \* the numbers of the messages received, in the order of arrival
    sent,           \* how many requests were sent, and clients died
    ignored,        \* history: the connections of which a request was dropped since
                    \* epoll_wait reported them last
    \* the server
    main,           \* "wait", "handle", "swap" or "run"
    events,         \* what epoll_wait returned and is not handled yet
    m_FunctorList,
    functors,       \* the functors doPendingFunctors took and has not run
    posted,         \* how many chat messages were posted
    jobs,           \* the queue of the pool
    todo,           \* what each worker still has to do
    online,         \* m_online_cache
    clock,          \* the period of live_Time the current time is in
    ub              \* "none" or the undefined behaviour that occurred

connVars   == <<status, m_account, interest, inBuffer, outBuffer>>
clientVars == <<phase, user, loginMsg, socket, delivered, sent, ignored>>
mainVars   == <<main, events, functors>>
vars == <<status, m_account, interest, inBuffer, outBuffer, phase, user, loginMsg,
          socket, delivered, sent, ignored, main, events, m_FunctorList, functors, posted,
          jobs, todo, online, clock, ub>>

EPOLLIN  == "EPOLLIN"
EPOLLOUT == "EPOLLOUT"
EPOLLHUP == "EPOLLHUP"

\* live_Time is one period: a user that no request has named since the period
\* began is silent.
Cache == INSTANCE LRUCache WITH
    Keys <- Accounts, NULL <- NoAccount, LiveTime <- 0,
    list <- online, result <- NoAccount

Waiting == {"login", "register", "reconnect"}     \* for the reply to that request

ClientPhase == Waiting \union
               {"none", "connected",     \* not logged in
                "welcome", "chatting",   \* logged in, before and after READ
                "rejoined",              \* back in the chat after a reconnect
                "lost",                  \* given up by a client that reconnects
                "left"}                  \* closed

\* The types of the members of Connection and of the client, as far as they are one of
\* a few values: a registration in epoll is for input and output only (Epoller::mod).
TypeOK ==
    /\ status \in [Conns -> {"none", "backlog", "open", "deleted"}]
    /\ m_account \in [Conns -> Accounts \union {NoAccount}]
    /\ interest \in [Conns -> SUBSET {EPOLLIN, EPOLLOUT}]
    /\ phase \in [Conns -> ClientPhase]
    /\ sent \in 0 .. Requests
    /\ ignored \subseteq Conns
    /\ main \in {"wait", "handle", "swap", "run"}
    /\ clock \in 0 .. MaxClock

Init ==
    /\ status = [c \in Conns |-> "none"]
    /\ m_account = [c \in Conns |-> NoAccount]
    /\ interest = [c \in Conns |-> {}]
    /\ inBuffer = [c \in Conns |-> <<>>]
    /\ outBuffer = [c \in Conns |-> <<>>]
    /\ phase = [c \in Conns |-> "none"]
    /\ user = [c \in Conns |-> NoAccount]
    /\ loginMsg = [c \in Conns |-> "none"]
    /\ socket = [c \in Conns |-> <<>>]
    /\ delivered = [c \in Conns |-> <<>>]
    /\ sent = 0
    /\ ignored = {}
    /\ main = "wait"
    /\ events = {}
    /\ m_FunctorList = <<>>
    /\ functors = <<>>
    /\ posted = 0
    /\ jobs = <<>>
    /\ todo = [w \in Workers |-> <<>>]
    /\ online = <<>>
    /\ clock = 0
    /\ ub = "none"

-----------------------------------------------------------------------------
(***************************************************************************)
(* Messages, functors and operations.                                      *)
(***************************************************************************)

\* A message to a client; n numbers the chat messages in the order their functors
\* were posted, and is 0 for every other message.
Message(kind) == [kind |-> kind, n |-> 0]

ToOne(c, kind)  == [fn |-> "one", c |-> c, m |-> Message(kind)]
ToAll(kind)     == [fn |-> "all", m |-> Message(kind)]
RemoveOnline(a) == [fn |-> "remove", a |-> a]
Close(c)        == [fn |-> "close", c |-> c]
\* updateOnlineList sends the same text to every user.
UpdateOnlineList == ToAll("ONLINELIST")

Add(c, f)       == [do |-> "addFunctor", c |-> c, f |-> f]
\* Mutant: edge triggered, as the listener is.
ModEdgeTriggered(c, ev) == [do |-> "mod", c |-> c, ev |-> ev \union {"EPOLLET"}]

Mod(c, ev)      == [do |-> "mod", c |-> c, ev |-> ev]
Put(c, a)       == [do |-> "put", c |-> c, a |-> a]
Get(c, r)       == [do |-> "get", c |-> c, r |-> r]
CheckSize(c)    == [do |-> "size", c |-> c]
ReadJob(c)      == [do |-> "read", c |-> c]
SendJob(c)      == [do |-> "send", c |-> c]

\* The rest of the LOGIN case once statue is known.
LoginReply(c, statue) ==
    <<Add(c, ToOne(c, statue)), Mod(c, {EPOLLIN, EPOLLOUT}), Add(c, UpdateOnlineList)>>

ReconnectReply(c, statue) ==
    <<Add(c, ToOne(c, statue)), Add(c, ToOne(c, "123")), Mod(c, {EPOLLIN, EPOLLOUT})>>

\* What a worker does after reading request r, up to and including the first get.  For
\* a CLOSE, and for a protocolId that has no case, it does nothing: the connection
\* stays disarmed.
Handle(c, r, valid) ==
    CASE r.op = "LOGIN"     -> IF valid THEN <<Get(c, r)>> ELSE LoginReply(c, "LOGIN_FAIL")
      [] r.op = "READ"      -> <<Put(c, m_account[c]), Add(c, ToAll("NOTICE")),
                                 Mod(c, {EPOLLIN, EPOLLOUT}), Add(c, UpdateOnlineList)>>
      [] r.op = "REGISTER"  -> <<Add(c, ToOne(c, "REGISTER"))>>
      [] r.op = "SEND"      -> <<Add(c, ToAll("SEND")), Add(c, ToAll("SEND")),
                                 Mod(c, {EPOLLIN, EPOLLOUT})>>
      [] r.op = "ACK"       -> <<Mod(c, {EPOLLIN}), Get(c, r)>>
      [] r.op \in {"LOGOUT", "RECONNECT"} -> <<Get(c, r)>>
      [] r.op = "UNMATCHED" -> <<>>

\* What it does after the get, which found the account or not.
AfterLookup(c, r, found) ==
    CASE r.op = "LOGIN"     -> IF found THEN LoginReply(c, "LOGIN_EXIST")
                               ELSE <<Put(c, r.account)>> \o LoginReply(c, "LOGIN_SUCCESS")
      [] r.op = "LOGOUT"    -> IF found
                               THEN <<Add(c, RemoveOnline(r.account)), Add(c, Close(c)),
                                      CheckSize(c)>>
                               ELSE <<Add(c, Close(c))>>
      [] r.op = "RECONNECT" -> IF found
                               THEN <<Put(c, r.account)>>
                                      \o ReconnectReply(c, "RECONNECT_SUCCESS")
                               ELSE ReconnectReply(c, "RECONNECT_FAIL")
      [] r.op = "ACK"       -> <<>>

\* The two cases that call set_userInfo, before their put.
StoresUser(r, found) ==
    \/ r.op = "LOGIN" /\ ~found
    \/ r.op = "RECONNECT" /\ found

\* The two cases that follow the pointer the cache returned.
FollowsPointer(r) == r.op \in {"LOGOUT", "RECONNECT"}

-----------------------------------------------------------------------------
(***************************************************************************)
(* The main thread.                                                        *)
(***************************************************************************)

\* delete cnn closes the socket, which ends the registration.
CloseConnection(c) ==
    /\ status' = [status EXCEPT ![c] = "deleted"]
    /\ interest' = [interest EXCEPT ![c] = {}]

Undefined(kind) ==
    /\ ub' = kind
    /\ UNCHANGED <<connVars, clientVars, mainVars, m_FunctorList, posted, jobs,
                   todo, online, clock>>

\* The end of the stream is readable; a socket takes what is written.
Ready(c) ==
    {e \in interest[c] :
        e = EPOLLIN => socket[c] # <<>> \/ phase[c] = "left"}

ReadyConns == {c \in Conns : status[c] = "open" /\ Ready(c) # {}}
Backlog    == {c \in Conns : status[c] = "backlog"}

\* epoll_wait.  A connection it returns is disarmed, EPOLLONESHOT; a reset of the
\* connection by its peer is reported with it.
Wait ==
    /\ main = "wait"
    /\ ReadyConns # {} \/ Backlog # {}
    /\ \E reset \in SUBSET {c \in ReadyConns : phase[c] = "left"} :
          events' = {[c |-> c, got |-> Ready(c) \union (IF c \in reset THEN {EPOLLHUP} ELSE {})] :
                        c \in ReadyConns}
                    \union {[c |-> Listener, got |-> {EPOLLIN}] : c \in Backlog}
    /\ interest' = [c \in Conns |-> IF c \in ReadyConns THEN {} ELSE interest[c]]
    /\ ignored' = ignored \ ReadyConns
    /\ main' = "handle"
    /\ UNCHANGED <<status, m_account, inBuffer, outBuffer, phase, user, loginMsg, socket,
                   delivered, sent, m_FunctorList, functors, posted, jobs, todo, online,
                   clock, ub>>

\* acceptConnection takes everything in the backlog.
Accept ==
    /\ status' = [c \in Conns |-> IF c \in Backlog THEN "open" ELSE status[c]]
    /\ interest' = [c \in Conns |-> IF c \in Backlog THEN {EPOLLIN} ELSE interest[c]]
    /\ UNCHANGED jobs

\* handleEvent for one event; an event that is readable and writable is readable.
HandleEvent(e) ==
    /\ main = "handle"
    /\ e \in events
    /\ e.c # Listener => status[e.c] = "open"
    /\ IF e.c = Listener THEN Accept
       ELSE IF EPOLLHUP \in e.got THEN CloseConnection(e.c) /\ UNCHANGED jobs
       ELSE /\ jobs' = Append(jobs, IF EPOLLIN \in e.got THEN ReadJob(e.c) ELSE SendJob(e.c))
            /\ UNCHANGED <<status, interest>>
    /\ events' = events \ {e}
    /\ main' = IF events' = {} THEN "swap" ELSE "handle"
    /\ UNCHANGED <<m_account, inBuffer, outBuffer, clientVars, m_FunctorList,
                   functors, posted, todo, online, clock, ub>>

HandleFreed(e) ==
    /\ main = "handle"
    /\ e \in events
    /\ e.c # Listener /\ status[e.c] = "deleted"
    /\ Undefined("event_of_deleted")

\* Mutants: the functors are taken from the back; and all but the first are lost.
SwapReversed ==
    /\ main = "swap"
    /\ functors' = Reverse(m_FunctorList)
    /\ m_FunctorList' = <<>>
    /\ main' = IF functors' = <<>> THEN "wait" ELSE "run"
    /\ UNCHANGED <<connVars, clientVars, events, posted, jobs, todo, online, clock, ub>>

SwapLosesRest ==
    /\ main = "swap"
    /\ functors' = IF m_FunctorList = <<>> THEN <<>> ELSE <<Head(m_FunctorList)>>
    /\ m_FunctorList' = <<>>
    /\ main' = IF functors' = <<>> THEN "wait" ELSE "run"
    /\ UNCHANGED <<connVars, clientVars, events, posted, jobs, todo, online, clock, ub>>

\* doPendingFunctors takes the list under m_Func_mtx ...
Swap ==
    /\ main = "swap"
    /\ functors' = m_FunctorList
    /\ m_FunctorList' = <<>>
    /\ main' = IF functors' = <<>> THEN "wait" ELSE "run"
    /\ UNCHANGED <<connVars, clientVars, events, posted, jobs, todo, online, clock, ub>>

\* ... and runs it without.
Functor == Head(functors)

Running ==
    /\ functors' = Tail(functors)
    /\ main' = IF functors' = <<>> THEN "wait" ELSE "run"
    /\ UNCHANGED <<m_account, inBuffer, clientVars, events, m_FunctorList, posted,
                   jobs, todo, clock, ub>>

\* appendOutBuffer and mod, for every connection in cs.
SendTo(cs, m) ==
    /\ outBuffer' = [c \in Conns |-> IF c \in cs THEN Append(outBuffer[c], m)
                                                 ELSE outBuffer[c]]
    /\ interest' = [c \in Conns |-> IF c \in cs THEN {EPOLLIN, EPOLLOUT} ELSE interest[c]]

\* Mutant: no mod after the message is appended.
SendTextUnarmed ==
    /\ Functor.fn = "one"
    /\ status[Functor.c] = "open"
    /\ Running
    /\ outBuffer' = [outBuffer EXCEPT ![Functor.c] = Append(@, Functor.m)]
    /\ UNCHANGED <<status, interest, online>>

\* sendTextToOneUser_.
SendTextToOneUser_ ==
    /\ Functor.fn = "one"
    /\ status[Functor.c] = "open"
    /\ Running
    /\ SendTo({Functor.c}, Functor.m)
    /\ UNCHANGED <<status, online>>

Users == Cache!KeysIn(online)

\* Gets the users one by one, in the order p of the copied map.
GetAll(p) == FoldLeft(Cache!AfterGet, online, p)

\* sendTextToAllUser and updateOnlineList, in the order p: no get of the loop
\* evicts a user that is still to come, and every connection is there.
SendTextToAllUser(p) ==
    /\ Functor.fn = "all"
    /\ Cache!KeysIn(GetAll(p)) = Users
    /\ \A i \in DOMAIN online : status[online[i].value] = "open"
    /\ Running
    /\ online' = GetAll(p)
    /\ SendTo({online[i].value : i \in DOMAIN online}, Functor.m)
    /\ UNCHANGED status

RemoveOnlineUser ==
    /\ Functor.fn = "remove"
    /\ Running
    /\ online' = Cache!AfterRemove(online, Functor.a)
    /\ UNCHANGED <<status, interest, outBuffer>>

CloseFunctor ==
    /\ Functor.fn = "close"
    /\ status[Functor.c] = "open"
    /\ Running
    /\ CloseConnection(Functor.c)
    /\ UNCHANGED <<outBuffer, online>>

RunFunctor ==
    /\ main = "run"
    /\ \/ SendTextToOneUser_
       \/ \E p \in SetToSeqs(Users) : SendTextToAllUser(p)
       \/ RemoveOnlineUser
       \/ CloseFunctor

\* The ways in which a functor goes wrong.  A get that evicts a user of the
\* copied map makes the later get of that user return null.
RunFunctorUndefined ==
    /\ main = "run"
    /\ \/ /\ Functor.fn \in {"one", "close"}
          /\ status[Functor.c] = "deleted"
          /\ Undefined("functor_of_deleted")
       \/ /\ Functor.fn = "all"
          /\ \E i \in DOMAIN online : status[online[i].value] = "deleted"
          /\ Undefined("broadcast_to_deleted")
       \/ /\ Functor.fn = "all"
          /\ \E p \in SetToSeqs(Users) : Cache!KeysIn(GetAll(p)) # Users
          /\ Undefined("broadcast_to_null")

-----------------------------------------------------------------------------
(***************************************************************************)
(* The workers.                                                            *)
(***************************************************************************)

TakeJob(w) ==
    /\ todo[w] = <<>>
    /\ jobs # <<>>
    /\ todo' = [todo EXCEPT ![w] = <<Head(jobs)>>]
    /\ jobs' = Tail(jobs)
    /\ UNCHANGED <<connVars, clientVars, mainVars, m_FunctorList, posted, online,
                   clock, ub>>

Doing(w, what) == todo[w] # <<>> /\ Head(todo[w]).do = what
Op(w) == Head(todo[w])

\* w goes on with ops.
GoOn(w, ops) == todo' = [todo EXCEPT ![w] = ops]

ServerOnly == UNCHANGED <<clientVars, mainVars, jobs, clock, ub>>

\* readData takes all that the socket has; one request is parsed and handled.
\* The end of the stream closes the connection, EAGAIN arms it again.
Read(w) ==
    LET c == Op(w).c
        got == inBuffer[c] \o socket[c]
    IN  /\ Doing(w, "read")
        /\ status[c] = "open"
        /\ IF socket[c] # <<>>
           THEN /\ inBuffer' = [inBuffer EXCEPT ![c] = Tail(got)]
                /\ socket' = [socket EXCEPT ![c] = <<>>]
                /\ \E valid \in BOOLEAN : GoOn(w, Handle(c, Head(got), valid))
                /\ ignored' = IF Head(got).op = "UNMATCHED" THEN ignored \union {c}
                                                           ELSE ignored
                /\ UNCHANGED <<status, interest>>
           ELSE /\ IF phase[c] = "left"
                   THEN CloseConnection(c) /\ GoOn(w, <<>>)
                   ELSE GoOn(w, <<Mod(c, {EPOLLIN})>>) /\ UNCHANGED <<status, interest>>
                /\ UNCHANGED <<inBuffer, socket, ignored>>
        /\ UNCHANGED <<m_account, outBuffer, phase, user, loginMsg, delivered, sent, mainVars,
                       m_FunctorList, posted, jobs, online, clock, ub>>

\* m_online_cache->get outside m_online_mtx.
Lookup(w) ==
    LET c == Op(w).c
        r == Op(w).r
        found == Cache!Contains(online, r.account)
    IN  /\ Doing(w, "get")
        /\ found /\ FollowsPointer(r)
             => status[Cache!ValueOf(online, r.account)] = "open"
        /\ StoresUser(r, found) => status[c] = "open"
        /\ online' = Cache!AfterGet(online, r.account)
        /\ m_account' = IF StoresUser(r, found)
                        THEN [m_account EXCEPT ![c] = r.account] ELSE m_account
        /\ GoOn(w, AfterLookup(c, r, found) \o Tail(todo[w]))
        /\ ServerOnly
        /\ UNCHANGED <<status, interest, inBuffer, outBuffer, m_FunctorList, posted>>

\* m_online_cache->put under m_online_mtx.
PutOnline(w) ==
    /\ Doing(w, "put")
    /\ online' = Cache!AfterPut(online, Op(w).a, Op(w).c)
    /\ GoOn(w, Tail(todo[w]))
    /\ ServerOnly
    /\ UNCHANGED <<connVars, m_FunctorList, posted>>

\* LOGOUT tells the others, if the cache had others when it asked.
AskSize(w) ==
    /\ Doing(w, "size")
    /\ GoOn(w, IF Len(online) > 1
               THEN <<Add(Op(w).c, ToAll("NOTICE")), Add(Op(w).c, UpdateOnlineList)>>
               ELSE <<>>)
    /\ ServerOnly
    /\ UNCHANGED <<connVars, m_FunctorList, posted, online>>

AddFunctor(w) ==
    LET f == Op(w).f
        chat == f.fn = "all" /\ f.m.kind = "SEND"
    IN  /\ Doing(w, "addFunctor")
        /\ posted' = IF chat THEN posted + 1 ELSE posted
        /\ m_FunctorList' = Append(m_FunctorList,
                                   IF chat THEN [f EXCEPT !.m.n = posted'] ELSE f)
        /\ GoOn(w, Tail(todo[w]))
        /\ ServerOnly
        /\ UNCHANGED <<connVars, online>>

\* epoll_ctl fails for the descriptor of a closed socket.
ModEvents(w) ==
    LET c == Op(w).c
    IN  /\ Doing(w, "mod")
        /\ interest' = IF status[c] = "open" THEN [interest EXCEPT ![c] = Op(w).ev]
                                             ELSE interest
        /\ GoOn(w, Tail(todo[w]))
        /\ ServerOnly
        /\ UNCHANGED <<status, m_account, inBuffer, outBuffer, m_FunctorList,
                       posted, online>>

Refusals == {"LOGIN_FAIL", "LOGIN_EXIST"}

\* What a client makes of the messages ms.  A client that waits takes whatever
\* arrives for its reply: the login form looks at the reply to LOGIN that came last,
\* and takes none for a success; the others go on in any case.
Receive(c, ms) ==
    LET replies == SelectSeq(ms, LAMBDA m : m.kind \in Refusals \union {"LOGIN_SUCCESS"})
    IN  /\ delivered' = [delivered EXCEPT ![c] = @ \o [i \in DOMAIN ms |-> ms[i].n]]
        /\ loginMsg' = IF replies = <<>> THEN loginMsg
                       ELSE [loginMsg EXCEPT ![c] = Last(replies).kind]
        /\ phase' = [phase EXCEPT ![c] =
               IF ms = <<>> THEN @
               ELSE CASE @ = "login"     -> IF loginMsg'[c] \in Refusals THEN "connected"
                                                                        ELSE "welcome"
                      [] @ = "register"  -> "connected"
                      [] @ = "reconnect" -> "rejoined"
                      [] OTHER           -> @]

\* sendResponseInfo: nothing to write, a write of all or part (none is EAGAIN), or
\* a write that fails because the peer has gone (the one after a reset raises SIGPIPE,
\* see WorkerUndefined).
Send(w) ==
    LET c == Op(w).c
        n == Len(outBuffer[c])
    IN  /\ Doing(w, "send")
        /\ status[c] = "open"
        /\ \/ /\ n = 0
              /\ GoOn(w, <<Mod(c, {EPOLLIN})>>)
              /\ UNCHANGED <<status, interest, outBuffer, phase, loginMsg, delivered>>
           \/ /\ n > 0
              /\ \E k \in (IF SlowPeers THEN 0 ELSE n) .. n :
                    /\ outBuffer' = [outBuffer EXCEPT ![c] = SubSeq(@, k + 1, n)]
                    /\ Receive(c, SubSeq(outBuffer[c], 1, k))
                    /\ GoOn(w, <<Mod(c, IF k = n THEN {EPOLLIN} ELSE {EPOLLIN, EPOLLOUT})>>)
              /\ UNCHANGED <<status, interest>>
           \/ /\ n > 0 /\ phase[c] = "left"
              /\ CloseConnection(c)
              /\ GoOn(w, <<>>)
              /\ UNCHANGED <<outBuffer, phase, loginMsg, delivered>>
        /\ UNCHANGED <<m_account, inBuffer, user, socket, sent, ignored, mainVars,
                       m_FunctorList, posted, jobs, online, clock, ub>>

WorkerStep(w) ==
    \/ TakeJob(w)
    \/ Read(w) \/ Lookup(w) \/ PutOnline(w) \/ AskSize(w)
    \/ AddFunctor(w) \/ ModEvents(w)
    \/ Send(w)

\* A worker that uses a deleted connection, or writes to one whose peer has reset it:
\* write raises SIGPIPE, which nothing handles, and the process ends.
WorkerUndefined(w) ==
    \/ /\ Doing(w, "read") \/ Doing(w, "send")
       /\ status[Op(w).c] = "deleted"
       /\ Undefined("job_of_deleted")
    \/ /\ Doing(w, "get")
       /\ LET found == Cache!Contains(online, Op(w).r.account)
          IN  \/ /\ FollowsPointer(Op(w).r) /\ found
                 /\ status[Cache!ValueOf(online, Op(w).r.account)] = "deleted"
              \/ /\ StoresUser(Op(w).r, found)
                 /\ status[Op(w).c] = "deleted"
       /\ Undefined("lookup_of_deleted")
    \/ /\ Doing(w, "send")
       /\ status[Op(w).c] = "open" /\ phase[Op(w).c] = "left"
       /\ outBuffer[Op(w).c] # <<>>
       /\ Undefined("sigpipe")

\* The cache used by one thread outside m_online_mtx while another uses it too.
CacheRace ==
    \E w \in Workers :
        /\ Doing(w, "get") \/ Doing(w, "size")
        /\ \/ \E v \in Workers \ {w} : Doing(v, "get") \/ Doing(v, "put")
           \/ main = "run" /\ Functor.fn \in {"all", "remove"}

\* The connections whose outBuffer the next functor appends to.
Appends ==
    IF main # "run" THEN {}
    ELSE CASE Functor.fn = "one" -> {Functor.c}
           [] Functor.fn = "all" -> {online[i].value : i \in DOMAIN online}
           [] OTHER -> {}

\* A buffer used by two threads: nothing protects it but the one-shot event.
BufferRace ==
    \E w \in Workers :
        \/ Doing(w, "send") /\ Op(w).c \in Appends
        \/ \E v \in Workers \ {w}, what \in {"read", "send"} :
              Doing(v, what) /\ Doing(w, what) /\ Op(v).c = Op(w).c

\* The build may run the two accesses one after the other, which the other steps
\* say, or in a way that leaves nothing to say.
RaceUndefined ==
    \/ CacheRace /\ Undefined("cache_race")
    \/ BufferRace /\ Undefined("buffer_race")

-----------------------------------------------------------------------------
(***************************************************************************)
(* The clients, as chatclient.cpp and the windows that use it drive them.  *)
(***************************************************************************)

ClientOnly == UNCHANGED <<m_account, interest, inBuffer, outBuffer, loginMsg, delivered,
                          ignored, mainVars, m_FunctorList, posted, jobs, todo, online,
                          clock, ub>>

Connect(c) ==
    /\ phase[c] = "none"
    /\ status' = [status EXCEPT ![c] = "backlog"]
    /\ phase' = [phase EXCEPT ![c] = "connected"]
    /\ UNCHANGED <<user, socket, sent>>
    /\ ClientOnly

\* writeText on connection c, with account a in the heading.
Request(c, op, a) ==
    /\ op \in Ops
    /\ sent < Requests
    /\ sent' = sent + 1
    /\ socket' = [socket EXCEPT ![c] = Append(@, [op |-> op, account |-> a])]
    /\ UNCHANGED status
    /\ ClientOnly

\* Connection c goes to phase p.
GoTo(c, p) == phase' = [phase EXCEPT ![c] = p]

Login(c, a) ==
    /\ phase[c] = "connected"
    /\ Request(c, "LOGIN", a)
    /\ GoTo(c, "login")
    /\ user' = [user EXCEPT ![c] = a]

Register(c) ==
    /\ phase[c] = "connected"
    /\ Request(c, "REGISTER", NoAccount)
    /\ GoTo(c, "register")
    /\ UNCHANGED user

\* The chat window opens.
Enter(c) ==
    /\ phase[c] = "welcome"
    /\ Request(c, "READ", user[c])
    /\ GoTo(c, "chatting")
    /\ UNCHANGED user

Say(c) ==
    /\ phase[c] \in {"chatting", "rejoined"}
    /\ Request(c, "SEND", user[c])
    /\ UNCHANGED <<phase, user>>

\* The rest of a request that arrived in two reads: the server takes text for a
\* heading, and finds no case for it.
Fragment(c) ==
    /\ phase[c] \in {"chatting", "rejoined"}
    /\ Request(c, "UNMATCHED", user[c])
    /\ UNCHANGED <<phase, user>>

\* Heartbeat sends the account of the heading it received last, which may be anyone's.
Heartbeat(c, a) ==
    /\ phase[c] \in {"chatting", "rejoined"}
    /\ Request(c, "ACK", a)
    /\ UNCHANGED <<phase, user>>

\* m_account in ChatClient: before a login, and in the client that a reconnect makes,
\* it is not initialised.
KnowsAccount(c, a) == phase[c] = "chatting" => a = user[c]

\* The login form closes: LOGOUT, and the end of the stream.
Logout(c, a) ==
    /\ phase[c] \in {"connected", "chatting"}
    /\ KnowsAccount(c, a)
    /\ Request(c, "LOGOUT", a)
    /\ GoTo(c, "left")
    /\ UNCHANGED user

\* The client of connection d has lost it, without an end of the stream that the
\* server could see, and takes connection c for it.
Reconnect(c, d, a) ==
    /\ phase[c] = "connected" /\ phase[d] \in {"chatting", "rejoined"}
    /\ KnowsAccount(d, a)
    /\ Request(c, "RECONNECT", a)
    /\ phase' = [phase EXCEPT ![c] = "reconnect", ![d] = "lost"]
    /\ user' = [user EXCEPT ![c] = user[d]]

\* The client dies.
Drop(c) ==
    /\ phase[c] \notin {"none", "left", "lost"}
    /\ "DROP" \in Ops
    /\ sent < Requests
    /\ sent' = sent + 1
    /\ GoTo(c, "left")
    /\ UNCHANGED <<status, user, socket>>
    /\ ClientOnly

ClientStep(c) ==
    \/ Connect(c)
    \/ \E a \in Accounts : Login(c, a)
    \/ Register(c) \/ Enter(c) \/ Say(c) \/ Fragment(c) \/ Drop(c)
    \/ \E a \in Accounts \union {NoAccount} :
          \/ Heartbeat(c, a)
          \/ Logout(c, a)
          \/ \E d \in Conns \ {c} : Reconnect(c, d, a)

\* A period of live_Time passes while the server has nothing to do: it takes far
\* less than that to serve a request.
Elapse ==
    /\ clock < MaxClock
    /\ main = "wait" /\ ReadyConns = {} /\ Backlog = {}
    /\ jobs = <<>> /\ \A w \in Workers : todo[w] = <<>>
    /\ clock' = clock + 1
    /\ UNCHANGED <<connVars, clientVars, mainVars, m_FunctorList, posted, jobs, todo,
                   online, ub>>

-----------------------------------------------------------------------------

MainStep ==
    \/ Wait
    \/ \E e \in events : HandleEvent(e) \/ HandleFreed(e)
    \/ Swap
    \/ RunFunctor
    \/ RunFunctorUndefined

Next ==
    /\ ub = "none"
    /\ \/ MainStep
       \/ \E w \in Workers : WorkerStep(w) \/ WorkerUndefined(w)
       \/ RaceUndefined
       \/ \E c \in Conns : ClientStep(c)
       \/ Elapse

Spec == Init /\ [][Next]_vars

\* The threads run; clients and the clock may stop at any time.
Fairness ==
    /\ WF_vars(ub = "none" /\ MainStep)
    /\ \A w \in Workers : WF_vars(ub = "none" /\ (WorkerStep(w) \/ WorkerUndefined(w)))

FairSpec == Spec /\ Fairness

-----------------------------------------------------------------------------
(***************************************************************************)
(* Properties.                                                             *)
(***************************************************************************)

\* A functor that arms connection c when it runs, or closes it: the reply to a REGISTER,
\* whose case has no mod of its own, and a LOGOUT.
ArmsLater(f, c) ==
    /\ f.fn = "close" \/ (f.fn = "one" /\ f.m.kind = "REGISTER")
    /\ f.c = c

\* An operation of a worker that arms c again or closes it, or leads to one that does.
Arms(op, c) ==
    \/ op.do \in {"read", "send", "mod"} /\ op.c = c
    \/ op.do = "get" /\ op.c = c /\ op.r.op # "ACK"
    \/ op.do = "addFunctor" /\ ArmsLater(op.f, c)

\* Connection c in the hands of a thread: reported, queued, worked on, or awaited by a
\* functor that the main thread is about to run.
InHands(c) ==
    \/ \E e \in events : e.c = c
    \/ \E i \in DOMAIN jobs : jobs[i].c = c
    \/ \E w \in Workers : \E i \in DOMAIN todo[w] : Arms(todo[w][i], c)
    \/ \E i \in DOMAIN functors : ArmsLater(functors[i], c)

\* It waits for a functor on the list.  addFunctor wakes nobody: the main thread runs
\* the functor when the next event of any connection wakes it.
Promised(c) == \E i \in DOMAIN m_FunctorList : ArmsLater(m_FunctorList[i], c)

\* An open connection that is not armed, after requests that have a case.
Disarmed(c) == status[c] = "open" /\ interest[c] = {} /\ c \notin ignored

\* EPOLLONESHOT disarms a connection whenever it reports it.  Whichever thread finishes
\* last, an open connection is armed again, or in the hands of a thread, or a functor is
\* there that will arm or close it: on every return of sendResponseInfo and on those of
\* getRequestInfo but two.  After a CLOSE, and after a protocolId without a case, which
\* the rest of a fragmented request has, the connection stays disarmed until a
\* broadcast arms it.
NeverOrphaned ==
    \A c \in Conns : Disarmed(c) => InHands(c) \/ Promised(c)

\* The numbers of the messages that client c has received are strictly increasing, but
\* for the messages that have none: it receives the chat messages in the order the server
\* took them, and none twice, through the list of functors, the swap, the output buffer
\* and writes in part, within a write and from one to the next.
InOrder ==
    \A c \in Conns : \A i, j \in DOMAIN delivered[c] :
        i < j /\ delivered[c][i] # 0 /\ delivered[c][j] # 0
            => delivered[c][i] < delivered[c][j]

Unsent(c) == {outBuffer[c][i].n : i \in DOMAIN outBuffer[c]}

\* The chat messages that client c has, or that are in its output buffer.
Heard(c) == (ToSet(delivered[c]) \union Unsent(c)) \ {0}

\* The chat messages whose functors have run.
Broadcast ==
    (1 .. posted) \ LET pending == functors \o m_FunctorList
                    IN  {pending[i].m.n : i \in {j \in DOMAIN pending : pending[j].fn = "all"}}

\* The connections whose users the cache has.
OnlineConns == {online[i].value : i \in DOMAIN online}

\* Nobody who is online misses a chat message, whatever other threads post, swap, write
\* or remove meanwhile: one that leaves the lists of functors is then in the output
\* buffer of every connection in the cache, and it stays there until the client has it
\* (addFunctor, doPendingFunctors, sendTextToAllUser, writes in part).
StayersHearAll ==
    [][\A c \in Conns :
          /\ status'[c] = "open" => Heard(c) \subseteq Heard(c)'
          /\ c \in OnlineConns => Broadcast' \ Broadcast \subseteq Heard(c)']_vars

\* Server.cpp:407 says that a broadcast writes to the buffers of all connected sockets.
\* It may write to a connection that was closed and deleted: closeConnection leaves
\* the pointer in the cache.
BroadcastsToConnected == ub # "broadcast_to_deleted"

\* Server.cpp:172 says that a user who logs in is not among the online users.  The
\* check and the put are two calls, and two clients can enter as one user.
OneClientPerAccount ==
    \A c, d \in Conns :
        c # d /\ {phase[c], phase[d]} \subseteq {"welcome", "chatting"} => user[c] # user[d]

\* Server.cpp:168 says that the server returns the state of a login.  The worker that
\* found nothing to write may arm the connection for input only after the functor has
\* armed it for output.
LoginsAreAnswered ==
    \A c \in Conns :
        phase[c] = "login" /\ ub = "none" ~> phase[c] # "login" \/ ub # "none"
=============================================================================
