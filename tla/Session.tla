------------------------------ MODULE Session ------------------------------
(***************************************************************************)
(* The sessions of the clients: chatclient.cpp and the windows that use    *)
(* it, loginform.cpp, registerfrom.cpp and widget.cpp, over connections    *)
(* that break, with the accounts behind the server.                        *)
(*                                                                         *)
(* A client object, ChatClient, has one socket, so both are named by their *)
(* connection.  A window that waits for an answer, waitForReadyRead(-1),   *)
(* blocks its process: until data arrives or the connection is gone it     *)
(* neither reads, nor draws, nor beats.                                    *)
(*                                                                         *)
(* The server is the one of ChatServer with requests served one at a time  *)
(* for each connection, and without what is undefined there: it does not   *)
(* notice that a connection is gone.                                       *)
(***************************************************************************)
EXTENDS Accounts, Sequences, FiniteSets

CONSTANTS
    Clients,        \* client processes
    Conns,          \* client objects and their connections
    None,
    Tolerated,      \* heartbeats that may fail in a row: 5 in widget.cpp
    Interval,       \* heartbeatTime, in steps of Pass; 0 for a timer that may always fire
    MaxRequests     \* bound on the clicks that send a request

\* An account cut to the two bytes that a heading has for it.
Heading(a) == a.value % 65536
Headings == {Heading(a) : a \in AccountTexts}

ASSUME SessionAssumption ==
    /\ Tolerated \in Nat
    /\ Interval \in Nat
    /\ MaxRequests \in Nat
    /\ None \notin Conns \union Headings

VARIABLES
    \* the client processes
    window,         \* the window that is shown
    waiting,        \* the request whose answer the process waits for
    entered,        \* the account in it, as a heading has it
    chatClient,     \* the singleton of getTcpSocketClient
    formClient,     \* loginForm::chatClient, which the chat window listens to as well
    heartbeatCount,
    timer,          \* what is left until heartbeatTimer fires
    \* the client objects
    socket,         \* "none", "connected" or "unconnected"
    loginMsg,       \* the reply to LOGIN that it read last
    m_account,
    toServer,       \* requests on their way
    toClient,       \* and messages
    \* the server
    user,           \* the account set_userInfo stored in a connection
    online,         \* m_online_cache
    serving,        \* the connection whose request a worker has
    reply,          \* what the worker will answer
    requests        \* how many requests were sent

windowVars == <<window, waiting, entered, chatClient, formClient, heartbeatCount, timer>>
objectVars == <<socket, loginMsg, m_account>>
serverVars == <<user, online, serving, reply>>
vars == <<accountVars, windowVars, objectVars, toServer, toClient, serverVars, requests>>

\* What a request says to the server beyond its protocol.
RequestSet ==
    [op : {"LOGIN", "REGISTER"}, account : AccountTexts, password : PasswordTexts]
        \union [op : {"READ"}]
        \union [op : {"SEND", "LOGOUT", "RECONNECT"}, account : Headings]

LoginReplies == {"SUCCESS", "FAIL", "EXIST"}

\* The types of the members of the windows, of ChatClient and of the server's connections.
TypeOK ==
    /\ AccountsTypeOK
    /\ window \in [Clients -> {"login", "register", "chat", "closed"}]
    /\ waiting \in [Clients -> {"nothing", "LOGIN", "REGISTER", "RECONNECT"}]
    /\ entered \in [Clients -> Headings \union {None}]
    /\ chatClient \in [Clients -> Conns \union {None}]
    /\ formClient \in [Clients -> Conns \union {None}]
    /\ heartbeatCount \in [Clients -> 0 .. Tolerated + 1]
    /\ timer \in [Clients -> 0 .. Interval]
    /\ socket \in [Conns -> {"none", "connected", "unconnected"}]
    /\ loginMsg \in [Conns -> LoginReplies \union {"empty"}]
    /\ m_account \in [Conns -> Headings \union {None}]
    /\ toServer \in [Conns -> Seq(RequestSet)]
    /\ toClient \in [Conns -> Seq(LoginReplies \union {"other"})]
    /\ user \in [Conns -> Headings \union {None}]
    /\ online \in [Headings -> Conns \union {None}]
    /\ serving \in [Workers -> Conns \union {None}]
    /\ reply \in [Workers -> LoginReplies \union {"nothing", "other"}]
    /\ requests \in 0 .. MaxRequests

Init ==
    /\ AccountsInit
    /\ window = [p \in Clients |-> "login"]
    /\ waiting = [p \in Clients |-> "nothing"]
    /\ entered = [p \in Clients |-> None]
    /\ chatClient = [p \in Clients |-> None]
    /\ formClient = [p \in Clients |-> None]
    /\ heartbeatCount = [p \in Clients |-> 0]
    /\ timer = [p \in Clients |-> Interval]
    /\ socket = [k \in Conns |-> "none"]
    /\ loginMsg = [k \in Conns |-> "empty"]
    /\ m_account = [k \in Conns |-> None]
    /\ toServer = [k \in Conns |-> <<>>]
    /\ toClient = [k \in Conns |-> <<>>]
    /\ user = [k \in Conns |-> None]
    /\ online = [h \in Headings |-> None]
    /\ serving = [w \in Workers |-> None]
    /\ reply = [w \in Workers |-> "nothing"]
    /\ requests = 0

-----------------------------------------------------------------------------
(***************************************************************************)
(* The client object: chatclient.cpp.                                      *)
(***************************************************************************)

\* The singleton becomes object k, whose connection is made or not.
Connect(p, k) ==
    /\ socket[k] = "none"
    /\ \E state \in {"connected", "unconnected"} : socket' = [socket EXCEPT ![k] = state]
    /\ chatClient' = [chatClient EXCEPT ![p] = k]

\* getTcpSocketClient, for the login form: nullptr if the object is made now and its
\* connection is not, and an object that is there already in any case.
GetTcpSocketClient(p) ==
    \/ /\ chatClient[p] = None
       /\ \E k \in Conns :
             /\ Connect(p, k)
             /\ formClient' = [formClient EXCEPT ![p] =
                                  IF socket'[k] = "connected" THEN k ELSE None]
    \/ /\ chatClient[p] # None
       /\ formClient' = [formClient EXCEPT ![p] = chatClient[p]]
       /\ UNCHANGED <<socket, chatClient>>

\* writeText, given the states of the sockets: a write to one that is not connected
\* returns -1.
WriteText(states, k, r) ==
    toServer' = IF states[k] = "connected" THEN [toServer EXCEPT ![k] = Append(@, r)]
                                            ELSE toServer

\* waitForReadyRead returns when data has arrived or the connection is gone.
ReadyOrGone(k) == toClient[k] # <<>> \/ socket[k] = "unconnected"

\* Mutant: the reply to a login stays where the next one goes.
ReceiveDataKeeps(k) ==
    /\ toClient' = [toClient EXCEPT ![k] = <<>>]
    /\ UNCHANGED loginMsg

\* receiveData takes the messages that have arrived, at least one if there are any.
\* loginMsg keeps the last reply to LOGIN; the object has nowhere to keep the one to
\* REGISTER, which has the protocol of a chat message.
ReceiveData(k) ==
    \E n \in (IF toClient[k] = <<>> THEN {0} ELSE 1 .. Len(toClient[k])) :
        LET IsReply(i) == toClient[k][i] \in LoginReplies
        IN  /\ toClient' = [toClient EXCEPT ![k] = SubSeq(@, n + 1, Len(@))]
            /\ \/ /\ \A i \in 1 .. n : ~IsReply(i)
                  /\ UNCHANGED loginMsg
               \/ \E i \in 1 .. n :
                     /\ IsReply(i)
                     /\ \A j \in i + 1 .. n : ~IsReply(j)
                     /\ loginMsg' = [loginMsg EXCEPT ![k] = toClient[k][i]]

\* A heading has what m_account holds, which is anything before it is set.
KnownAs(k) == IF m_account[k] = None THEN Headings ELSE {m_account[k]}

-----------------------------------------------------------------------------
(***************************************************************************)
(* The windows.                                                            *)
(***************************************************************************)

Shows(p, w) == window[p] = w /\ waiting[p] = "nothing"

\* restartTimer, and the start of the timer when the chat window opens.
RestartTimer(p) == timer' = [timer EXCEPT ![p] = Interval]

Click ==
    /\ requests < MaxRequests
    /\ requests' = requests + 1

Unserved == UNCHANGED <<accountVars, serverVars>>

\* Process p sends a request of the user, with an account and a password, and waits.
Ask(p, op) ==
    /\ Click
    /\ \E a \in AccountTexts, pw \in PasswordTexts :
          /\ WriteText(socket', chatClient'[p], [op |-> op, account |-> a, password |-> pw])
          /\ entered' = [entered EXCEPT ![p] = Heading(a)]
    /\ waiting' = [waiting EXCEPT ![p] = op]
    /\ UNCHANGED window

\* Without a client object the button does nothing more.
ClickLogin(p) ==
    /\ Shows(p, "login")
    /\ GetTcpSocketClient(p)
    /\ \/ formClient'[p] = None /\ UNCHANGED <<window, waiting, entered, toServer, requests>>
       \/ formClient'[p] # None /\ Ask(p, "LOGIN")
    /\ UNCHANGED <<heartbeatCount, timer, loginMsg, m_account, toClient>>
    /\ Unserved

\* The register window opens.
ClickRegister(p) ==
    /\ Shows(p, "login")
    /\ GetTcpSocketClient(p)
    /\ window' = IF formClient'[p] = None THEN window
                 ELSE [window EXCEPT ![p] = "register"]
    /\ UNCHANGED <<waiting, entered, heartbeatCount, timer, loginMsg, m_account, toServer,
                   toClient, requests>>
    /\ Unserved

SubmitRegister(p) ==
    /\ Shows(p, "register")
    /\ UNCHANGED <<chatClient, formClient, heartbeatCount, timer, objectVars, toClient>>
    /\ Ask(p, "REGISTER")
    /\ Unserved

\* The statue of an empty reply reads as 0.
ReadsAsSuccess(msg) == msg \in {"empty", "SUCCESS"}

\* The process goes on after the answer that window p waited for.
Answered(p, op) ==
    /\ waiting[p] = op
    /\ ReadyOrGone(chatClient[p])
    /\ ReceiveData(chatClient[p])
    /\ waiting' = [waiting EXCEPT ![p] = "nothing"]
    /\ entered' = [entered EXCEPT ![p] = None]
    /\ UNCHANGED <<chatClient, formClient, heartbeatCount, socket, requests>>
    /\ Unserved

\* The chat window opens, sends READ and starts its timer.
LoginAnswered(p) ==
    LET k == chatClient[p]
    IN  /\ Answered(p, "LOGIN")
        /\ \/ /\ ReadsAsSuccess(loginMsg'[k])
              /\ m_account' = [m_account EXCEPT ![k] = entered[p]]
              /\ window' = [window EXCEPT ![p] = "chat"]
              /\ WriteText(socket, k, [op |-> "READ"])
              /\ RestartTimer(p)
           \/ /\ ~ReadsAsSuccess(loginMsg'[k])
              /\ UNCHANGED <<m_account, window, toServer, timer>>

\* The register window looks at loginMsg too.
RegisterAnswered(p) ==
    LET k == chatClient[p]
    IN  /\ Answered(p, "REGISTER")
        /\ \/ /\ ReadsAsSuccess(loginMsg'[k])
              /\ m_account' = [m_account EXCEPT ![k] = entered[p]]
              /\ window' = [window EXCEPT ![p] = "login"]
           \/ /\ ~ReadsAsSuccess(loginMsg'[k])
              /\ UNCHANGED <<m_account, window>>
        /\ UNCHANGED <<toServer, timer>>

\* Whether the reconnect succeeded is only logged.
ReconnectAnswered(p) ==
    /\ Answered(p, "RECONNECT")
    /\ UNCHANGED <<m_account, window, toServer, timer>>

\* A button of the chat window, which restarts the timer whether the write succeeds or not.
ClickSend(p) ==
    /\ Shows(p, "chat")
    /\ Click
    /\ \E h \in KnownAs(chatClient[p]) :
          WriteText(socket, chatClient[p], [op |-> "SEND", account |-> h])
    /\ RestartTimer(p)
    /\ UNCHANGED <<window, waiting, entered, chatClient, formClient, heartbeatCount,
                   objectVars, toClient>>
    /\ Unserved

\* Mutant: the socket is connected to the login window, which is hidden.
ReadyReadOfLogin(p) ==
    /\ Shows(p, "login")
    /\ formClient[p] # None /\ toClient[formClient[p]] # <<>>
    /\ ReceiveData(chatClient[p])
    /\ UNCHANGED <<windowVars, socket, m_account, toServer, requests>>
    /\ Unserved

\* The readyRead of the socket that the window was connected to when it opened.
ReadyRead(p) ==
    /\ Shows(p, "chat")
    /\ toClient[formClient[p]] # <<>>
    /\ ReceiveData(chatClient[p])
    /\ RestartTimer(p)
    /\ UNCHANGED <<window, waiting, entered, chatClient, formClient, heartbeatCount,
                   socket, m_account, toServer, requests>>
    /\ Unserved

\* Time passes for the timer of an open chat window, even while its process waits.
Pass(p) ==
    /\ window[p] = "chat"
    /\ timer[p] > 0
    /\ timer' = [timer EXCEPT ![p] = @ - 1]
    /\ UNCHANGED <<window, waiting, entered, chatClient, formClient, heartbeatCount,
                   objectVars, toServer, toClient, requests>>
    /\ Unserved

\* The timer has run down, and starts again as it fires.
Fires(p) ==
    /\ Shows(p, "chat")
    /\ timer[p] = 0
    /\ RestartTimer(p)

\* A heartbeat that is sent.  At the server it puts off an Evict.
Beat(p) ==
    /\ Fires(p)
    /\ socket[chatClient[p]] = "connected"
    /\ heartbeatCount' = [heartbeatCount EXCEPT ![p] = 0]
    /\ UNCHANGED <<window, waiting, entered, chatClient, formClient, objectVars,
                   toServer, toClient, requests>>
    /\ Unserved

\* Mutant: a heartbeat that fails resets the count, too.
MissResets(p) ==
    /\ Fires(p)
    /\ socket[chatClient[p]] = "unconnected"
    /\ heartbeatCount[p] < Tolerated
    /\ heartbeatCount' = [heartbeatCount EXCEPT ![p] = 0]
    /\ UNCHANGED <<window, waiting, entered, chatClient, formClient, objectVars,
                   toServer, toClient, requests>>
    /\ Unserved

\* Mutant: the count is not looked at.
MissForever(p) ==
    /\ Fires(p)
    /\ socket[chatClient[p]] = "unconnected"
    /\ heartbeatCount' = [heartbeatCount EXCEPT ![p] = @ + 1]
    /\ UNCHANGED <<window, waiting, entered, chatClient, formClient, objectVars,
                   toServer, toClient, requests>>
    /\ Unserved

\* One that fails, and is tolerated.
Miss(p) ==
    /\ Fires(p)
    /\ socket[chatClient[p]] = "unconnected"
    /\ heartbeatCount[p] < Tolerated
    /\ heartbeatCount' = [heartbeatCount EXCEPT ![p] = @ + 1]
    /\ UNCHANGED <<window, waiting, entered, chatClient, formClient, objectVars,
                   toServer, toClient, requests>>
    /\ Unserved

\* One too many: a new object, which knows neither the account nor the window; only
\* a heartbeat that is sent resets the count, which stops here at one too many.
Reconnect(p, k) ==
    /\ Fires(p)
    /\ socket[chatClient[p]] = "unconnected"
    /\ heartbeatCount[p] >= Tolerated
    /\ heartbeatCount' = [heartbeatCount EXCEPT ![p] = Tolerated + 1]
    /\ Connect(p, k)
    /\ \E h \in KnownAs(chatClient[p]) :
          WriteText(socket', k, [op |-> "RECONNECT", account |-> h])
    /\ waiting' = [waiting EXCEPT ![p] = "RECONNECT"]
    /\ UNCHANGED <<window, entered, formClient, loginMsg, m_account, toClient, requests>>
    /\ Unserved

\* The sockets of a process that ends are closed.
Disconnect(ks) ==
    /\ socket' = [k \in Conns |-> IF k \in ks THEN "unconnected" ELSE socket[k]]
    /\ toClient' = [k \in Conns |-> IF k \in ks THEN <<>> ELSE toClient[k]]

\* The process ends.  Closing the chat or the login window writes LOGOUT to the
\* object of the login form, which may not leave the process any more.
Close(p) ==
    LET k == formClient[p]
    IN  /\ window[p] # "closed"
        /\ window' = [window EXCEPT ![p] = "closed"]
        /\ waiting' = [waiting EXCEPT ![p] = "nothing"]
        /\ entered' = [entered EXCEPT ![p] = None]
        /\ \/ UNCHANGED toServer
           \/ /\ Shows(p, "login") \/ Shows(p, "chat")
              /\ k # None /\ socket[k] = "connected"
              /\ \E h \in KnownAs(k) :
                    toServer' = [toServer EXCEPT ![k] =
                                    Append(@, [op |-> "LOGOUT", account |-> h])]
        /\ Disconnect({k, chatClient[p]} \ {None})
        /\ UNCHANGED <<chatClient, formClient, heartbeatCount, timer, loginMsg, m_account,
                       requests>>
        /\ Unserved

\* A connection breaks, and its client learns of it.  What was on its way to the
\* client is lost; the server may still get what was on its way there.
Lose(k) ==
    /\ socket[k] = "connected"
    /\ Disconnect({k})
    /\ toServer' \in {toServer, [toServer EXCEPT ![k] = <<>>]}
    /\ UNCHANGED <<windowVars, loginMsg, m_account, requests>>
    /\ Unserved

-----------------------------------------------------------------------------
(***************************************************************************)
(* The server.                                                             *)
(***************************************************************************)

OfClients == UNCHANGED <<windowVars, objectVars, requests>>

Free(k) == \A w \in Workers : serving[w] # k

\* ms to connection k, then one message to everyone online, if there is one.
Deliver(k, ms, all) ==
    toClient' = [c \in Conns |->
                    IF socket[c] # "connected" THEN toClient[c]
                    ELSE toClient[c] \o (IF c = k THEN ms ELSE <<>>)
                           \o (IF \E h \in Headings : all[h] = c THEN <<"other">> ELSE <<>>)]

\* A broadcast that is not made.
Nobody == [h \in Headings |-> None]

Request(k) == Head(toServer[k])

Taken(k) == toServer' = [toServer EXCEPT ![k] = Tail(@)]

\* A worker takes a LOGIN or a REGISTER, and goes to the database for it.
TakeRequest(w, k) ==
    LET r == Request(k)
    IN  /\ toServer[k] # <<>> /\ Free(k)
        /\ Taken(k)
        /\ serving' = [serving EXCEPT ![w] = k]
        /\ \/ r.op = "LOGIN" /\ CheckLogin(w, r.account, r.password)
           \/ r.op = "REGISTER" /\ IsRegistered(w, r.account, r.password)
        /\ UNCHANGED <<toClient, user, online, reply>>
        /\ OfClients

Query(w) ==
    /\ DatabaseStep(w)
    /\ UNCHANGED <<toServer, toClient, serverVars>>
    /\ OfClients

\* The answer of UserManage: the user goes online, or not.
Decide(w) ==
    LET k == serving[w]
        h == Heading(job[w].account)
        enters == job[w].op = "LOGIN" /\ job[w].success /\ online[h] = None
    IN  /\ job[w].pc = "done" /\ reply[w] = "nothing"
        /\ user' = IF enters THEN [user EXCEPT ![k] = h] ELSE user
        /\ online' = IF enters THEN [online EXCEPT ![h] = k] ELSE online
        /\ reply' = [reply EXCEPT ![w] = IF job[w].op = "REGISTER" THEN "other"
                                         ELSE IF enters THEN "SUCCESS"
                                         ELSE IF job[w].success THEN "EXIST" ELSE "FAIL"]
        /\ UNCHANGED <<accountVars, toServer, toClient, serving>>
        /\ OfClients

\* The functors that the worker posts: the reply, and the list of users after a LOGIN.
SendReply(w) ==
    /\ reply[w] # "nothing"
    /\ Finish(w)
    /\ Deliver(serving[w], <<reply[w]>>, IF job[w].op = "LOGIN" THEN online ELSE Nobody)
    /\ serving' = [serving EXCEPT ![w] = None]
    /\ reply' = [reply EXCEPT ![w] = "nothing"]
    /\ UNCHANGED <<toServer, user, online>>
    /\ OfClients

\* READ puts the user of the connection into the cache: anyone, if none was set.
ServeRead(k) ==
    /\ Request(k).op = "READ"
    /\ \E h \in (IF user[k] = None THEN Headings ELSE {user[k]}) :
          online' = [online EXCEPT ![h] = k]
    /\ Deliver(k, <<>>, online')
    /\ UNCHANGED user

ServeSend(k) ==
    /\ Request(k).op = "SEND"
    /\ Deliver(k, <<>>, online)
    /\ UNCHANGED <<user, online>>

ServeLogout(k) ==
    LET h == Request(k).account
    IN  /\ Request(k).op = "LOGOUT"
        /\ online' = [online EXCEPT ![h] = None]
        /\ Deliver(k, <<>>, IF online[h] = None THEN Nobody ELSE online')
        /\ UNCHANGED user

ServeReconnect(k) ==
    LET h == Request(k).account
        found == online[h] # None
    IN  /\ Request(k).op = "RECONNECT"
        /\ user' = IF found THEN [user EXCEPT ![k] = h] ELSE user
        /\ online' = IF found THEN [online EXCEPT ![h] = k] ELSE online
        /\ Deliver(k, <<"other", "other">>, Nobody)

\* The other requests, which do not ask the database.
Serve(k) ==
    /\ toServer[k] # <<>> /\ Free(k)
    /\ Taken(k)
    /\ ServeRead(k) \/ ServeSend(k) \/ ServeLogout(k) \/ ServeReconnect(k)
    /\ UNCHANGED <<accountVars, serving, reply>>
    /\ OfClients

\* checkList: a user that no request has named for live_Time goes.
Evict(h) ==
    /\ online[h] # None
    /\ online' = [online EXCEPT ![h] = None]
    /\ UNCHANGED <<accountVars, toServer, toClient, user, serving, reply>>
    /\ OfClients

Race ==
    /\ ConnectorRace
    /\ UNCHANGED <<toServer, toClient, serverVars>>
    /\ OfClients

-----------------------------------------------------------------------------

\* What the event loop of the process of client p does by itself.
EventLoop(p) ==
    \/ LoginAnswered(p) \/ RegisterAnswered(p) \/ ReconnectAnswered(p)
    \/ ReadyRead(p)

Timer(p) ==
    \/ Beat(p) \/ Miss(p)
    \/ \E k \in Conns : Reconnect(p, k)

User(p) ==
    \/ ClickLogin(p) \/ ClickRegister(p) \/ SubmitRegister(p)
    \/ ClickSend(p) \/ Close(p)

Server ==
    \/ \E w \in Workers : Query(w) \/ Decide(w) \/ SendReply(w)
    \/ \E w \in Workers, k \in Conns : TakeRequest(w, k)
    \/ \E k \in Conns : Serve(k)
    \/ \E h \in Headings : Evict(h)
    \/ Race

Next ==
    /\ ~ub
    /\ \/ \E p \in Clients : EventLoop(p) \/ Pass(p) \/ Timer(p) \/ User(p)
       \/ \E k \in Conns : Lose(k)
       \/ Server

Spec == Init /\ [][Next]_vars

\* Processes run, time passes, and a timer that has run down fires; users, the network
\* and the server owe nothing.  Every send and every arrival restarts the timer, so a
\* heartbeat comes only when both pause for its interval: here they do in the end, the
\* clicks being bounded by MaxRequests.
Fairness ==
    \A p \in Clients :
        /\ WF_vars(~ub /\ EventLoop(p))
        /\ WF_vars(~ub /\ Pass(p))
        /\ WF_vars(~ub /\ Timer(p))

FairSpec == Spec /\ Fairness

-----------------------------------------------------------------------------
(***************************************************************************)
(* Properties.                                                             *)
(***************************************************************************)

\* A chat window whose connection stands was let in by the server: its READ makes
\* getRequestInfo put m_account of the connection into the cache, which nobody but a
\* login has set (LoginAnswered takes an empty reply for a success).
ChatIsLetIn ==
    \A p \in Clients :
        window[p] = "chat" /\ socket[formClient[p]] = "connected" => user[formClient[p]] # None

\* Whoever is online has an account, under the number that its headings have:
\* two bytes, a table of numbers and reconnects with whatever m_account holds.
OnlineIsRegistered ==
    \A h \in Headings : online[h] # None => Registered(h) /\ h # 0

\* No object is left to reconnect with.
Exhausted == \A k \in Conns : socket[k] # "none"

\* The server's readme.md:42-44 promises that a client that has lost its connection
\* reconnects, once it has counted its failing heartbeats: while the process lives it
\* makes a new object, whatever has restarted the timer meanwhile, provided that its user
\* stops sending at some time.  A user who sends in every interval never gets there: each
\* send puts the next heartbeat off, even one that fails (restartTimer).
LostIsNoticed ==
    \A p \in Clients, k \in Conns :
        window[p] = "chat" /\ chatClient[p] = k /\ socket[k] = "unconnected" /\ ~ub
            ~> chatClient[p] # k \/ window[p] = "closed" \/ Exhausted \/ ub

\* What arrives at a chat window that has not reconnected is read in the end.
ArrivalsAreRead ==
    \A p \in Clients, k \in Conns :
        window[p] = "chat" /\ chatClient[p] = k /\ formClient[p] = k /\ toClient[k] # <<>> /\ ~ub
            ~> toClient[k] = <<>> \/ window[p] = "closed" \/ ub

\* widget.cpp:59 says that a message is shown when it is received.  The window does
\* not listen to the socket of the object that a reconnect makes.
MessagesShown ==
    \A p \in Clients, k \in Conns :
        window[p] = "chat" /\ chatClient[p] = k /\ toClient[k] # <<>> /\ ~ub
            ~> toClient[k] = <<>> \/ window[p] = "closed" \/ ub
=============================================================================
