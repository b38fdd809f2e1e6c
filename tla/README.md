# A formal model of the chat room

TLA+ modules that model the chat server in `src/ChatServer_0301` and the session its Qt client
(`src/ChatClient_0227`) drives, TLC runs over small instances, and proofs checked by TLAPS.

## The system

A server process accepts TCP connections on port 8080. One thread, the one that calls
`Server::run`, waits in `epoll_wait`, accepts connections, pushes a job into a pool of worker
threads for every connection that is readable or writable, and then runs the *functors* that the
workers have left for it. A worker runs `Server::getRequestInfo` or `Server::sendResponseInfo` for
one connection. Users that have logged in are in a cache, a map from accounts to connections from
which users disappear that no request has named for `live_Time` seconds.

| Part | State | Operations | Talks to |
| --- | --- | --- | --- |
| Worker pool (`ThreadPool`) | queue of jobs, threads, counters of waiting and existing threads, two shutdown flags | `run`, `pushJob`, `shutDown`, `shutDownNow`; the loop of a worker | the event loop pushes, the workers call the server |
| Cache of online users (`LRUCache`) | doubly linked list of nodes, map from accounts to nodes | `get`, `put`, `remove`, `checkList`, `size`, `getMap` | workers and main thread, partly under `m_online_mtx` |
| Event loop (`Server::run`, `Epoll`) | descriptors and the events they are armed for, the list of functors | `wait`, `handleEvent`, `acceptConnection`, `closeConnection`, `doPendingFunctors` | pool, connections |
| Requests (`Server::getRequestInfo`) | none of its own | LOGIN, READ, REGISTER, SEND, LOGOUT, CLOSE, RECONNECT, ACK | cache, functors, `UserManage` |
| Replies and broadcasts | output buffers | `sendTextToOneUser_`, `sendTextToAllUser`, `updateOnlineList`, `sendResponseInfo` | connections, cache |
| Connection, buffers, headings (`Connection`, `Buffer`, `DataEncoder`) | two byte buffers, the heading parsed last, the user | `readData`, `writeData`, `parseHead`, `readTextContent`, `set_userInfo` | sockets |
| Accounts (`UserManage`, `MySQLConnector`) | tables of a MySQL database | `checkLogin`, `isRegistered`, `registerUser` | requests |
| Client session (`ChatClient`, the windows) | one socket, the heading read last, the reply to LOGIN, the user | login, registration, chat, heartbeat, reconnect, logout | server |

What is hard about it: jobs of one connection can be in the hands of two workers, because a
broadcast arms a connection again that a worker has; a worker changes what a connection is armed
for after it looked at its buffer; functors run in another thread than the one that posted them;
the cache is used inside and outside its mutex; a connection that dies stays in the cache; the
pool's counters move outside the mutex of its queue; threads come and go; writes are partial.

What makes each part correct:

* pool: every job runs once and in the end; no wakeup is lost; the number of threads stays between
  the core threads and the maximum; idle cache threads go; shutdown drains;
* cache: a user is in it exactly while some request named it in the last `live_Time` seconds; list
  and map agree, and no pointer dangles;
* event loop and requests: every open connection is armed, or somebody will arm it; everyone online
  hears every message once and in order; one client per account; no use of a deleted connection;
  every request that asks for a reply gets it;
* connection: its bytes are a queue, whatever the buffers do to hold them; requests and messages
  come out of the stream as they went in;
* accounts: what `UserManage` answers to a login or a registration agrees with the table, although
  all workers share one connection to the database;
* client: it does not take for granted what the server did not say; a connection that is lost is
  noticed, and what arrives is shown.

## Modules

| Module | Models | Checked by |
| --- | --- | --- |
| `ThreadPool` | `ThreadPool.h`, `ThreadPool.cpp` | `MCThreadPool`, and proofs in `ThreadPoolProofs` |
| `CacheParameters` | the constants that the three modules of the cache share | |
| `OnlineUsers` | what the server asks of its cache: a map with expiry, no list | refined by `LRUCache` |
| `LRUCache` | `LRUCache.cpp` as operations on a list of nodes | refined by `LRUList`, and proofs in `LRUCacheProofs` |
| `LRUList` | `LRUCache.cpp` with its pointers, heap and map | `MCLRUList`, and proofs in `LRUListProofs` |
| `ChatServer` | `Server.cpp`, `Epoll.cpp`, `Connection.cpp`, the clients' requests; uses the operators of `LRUCache` for its cache | `MCChatServer`, and proofs in `ChatServerProofs` and `ChatOrderProofs` |
| `Accounts` | `UserManage.cpp` and `MySQLConnector.cpp`, with all workers on one connection to the database | `MCSession`, and proofs in `AccountsProofs` |
| `Session` | the client processes: `chatclient.cpp`, `loginform.cpp`, `registerfrom.cpp`, `widget.cpp`, over connections that break; extends `Accounts` | `MCSession`, and proofs in `SessionProofs` |
| `Buffer` | `Buffer.h`, `Buffer.cpp` of the server, `buffer.h`, `buffer.cpp` of the client: operators on a vector with two indices | `MCStream`, and proofs in `StreamProofs` |
| `Heading` | `DataEncoder.cpp`, `dataencoder.cpp`, `dataparser.cpp`, `Connection::parseHead` | `MCStream`, and a proof in `StreamProofs` |
| `Stream` | one connection as bytes: `Connection.cpp`, the reading and writing parts of `Server.cpp` and of `chatclient.cpp` | `MCStream`, and proofs in `StreamProofs` |

`ChatServer` and `Stream` are two views of a connection. `ChatServer` has all connections and
whole messages; `Stream` has one connection and no other thread, but every byte. What joins them:
`Stream` shows that the output buffer is a queue of the bytes appended to it and that messages
come out of it as they went in, which is what `ChatServer`'s sequences of messages take for
granted. For requests it shows the same only of reads that end where a request ends.

`ChatServer` and `Session` are two views of the whole as well. `ChatServer` has the threads of the
server and leaves the clients what their windows allow; `Session` has the windows, the client
objects and the database, and a server that serves one request of a connection at a time.
`Session` is `Accounts` with clients: `SessionProofs` proves the refinement.

### ThreadPool

One process, the owner, for the thread that constructs the pool and pushes into it, and one per
thread that `AddThread` started. `owner` and `pc[w]` are their places in the code; `mtx` is the
holder of `m_mtx`. The other variables have the names of the members. A step runs from one point
where another thread can interfere to the next: `pushJob` is `PushJob` (under the mutex),
`ReadWaiting`, `ReadTotal`, `PushAdd`, `PushRegister`, `NotifyOne`; a worker's wait is `Lock`,
`CheckPredicate`, `Sleep`, then a wakeup (`NotifyOne`, `NotifyAll`, `SpuriousWake`, `TimeOut`) and
`Relock`. The critical section is split between the test of the predicate and the block because
`shutDown` stores its flags without the mutex. Jobs are the numbers of their pushes; what they do
is `ChatServer`'s subject.

### OnlineUsers, LRUCache, LRUList

`OnlineUsers` says what the `readme.md` of the server promises: `Hit`, `Miss`, `Put`, `Remove`, and
at each of the first three every user who has been silent for more than `LiveTime` goes. `LRUCache`
has the list of nodes from `m_head` to `m_tail`; `get`, `put` and `remove` are the public
operations, the others operators on lists. In both an operation is one step.

`LRUList` has the heap: addresses, `pre` and `next`, `m_map`, and helper for helper what
`LRUCache.cpp` does. `get` and `put` end with `checkList`, and each turn of its loop is a step of
its own (`checkList`): `call` holds the operation that is in it, until `Return` ends the loop and
looks up what `get` returns. Meanwhile nothing else is called: two threads inside the cache at once
is undefined behaviour, which `ChatServer` records. The clock, which the loop reads once, stands
still; otherwise it moves forward. `List` is the refinement: it gives `LRUCache` the list that the
`checkList` in progress will leave and the result it will return, so that `get` or `put` is the
step of `LRUCache` and the turns of the loop change nothing in it.

### ChatServer

Main thread: `main` is `"wait"`, `"handle"` (events that `epoll_wait` returned are in `events`),
`"swap"` or `"run"` (`functors` is the list `doPendingFunctors` took). Worker `w` has a sequence
`todo[w]` of operations still to do, each of them a call that other threads can observe: `read`,
`get`, `put`, `size`, `addFunctor`, `mod`, `send`. `Handle` and `AfterLookup` say, case by case of
the `switch`, which calls follow. Connections have `status`, `interest` (what the one-shot
registration is armed for), buffers, and the user that `set_userInfo` stored.

Messages are whole and without text; chat messages are numbered in the order their functors are
posted, and a SEND posts two, the heading and the text. The reply to a login is one of three
kinds. `UserManage` answers any login with valid or not.

A step that would touch a deleted connection, follow a null pointer or race on the cache or on a
buffer sets `ub` to its kind, and so does a write to a client that is gone: it may raise SIGPIPE,
which nothing handles and which ends the process (the other outcome is a write that fails); then
the model stops: nothing is claimed about the program afterwards. Where a race may also have an
ordinary outcome, the ordinary steps stay possible. A closed descriptor's number is not reused in
the model: a late `mod` finds nothing.

The client is what the windows allow: one request at a time before the chat, where it waits for
the reply and takes whatever arrives for it; READ when the chat opens; then messages and
heartbeats. In the chat it may also send what the server reads as a protocol id without a case
(`Fragment`): the rest of a request of which an earlier read took a part, or a CLOSE, which
`getRequestInfo` treats alike. It returns without arming the connection again; `ignored` remembers
this. A heartbeat carries the account of the heading received last, which may be anyone's.
`m_account` of a client that has not logged in, and of the client object that a reconnect makes,
is not initialised: any account.

### Accounts

`table` has the rows of table `user`, `conn` the rows that a select left pending on the
connection, and `job[w]` the check that worker `w` is at, with the account and the password it was
given. `CheckLogin` and `IsRegistered` are the checks that come before the select; `QueryUser` is
its `mysql_query`, `StoreResult` its `mysql_store_result` with what `checkLogin` or `registerUser`
make of the rows, `InsertUser` the insert. A call into libmysqlclient is one step, and any of them
may fail. `mysql_query` also fails while another worker's rows are pending. Two calls at the same
time are undefined behaviour (`ConnectorRace`), after which nothing is claimed.

A text is what the checks look at: its size, whether its characters are allowed, and the number
the SQL makes of it. Passwords are compared for equality only. Whether the account is a key of the
table is not in the repository: an insert may be refused.

### Session

A client process has a window and perhaps waits for an answer (`waitForReadyRead(-1)`, which blocks
it); `chatClient` is the singleton of `getTcpSocketClient`, `formClient` the object that the login
form and the chat window got. A client object has one socket, so both are named by their
connection; it keeps the reply to LOGIN that it read last (`loginMsg`) and `m_account`. The
actions of a process are the slots of its windows: buttons (`User`), `readyRead` and the end of a
wait (`EventLoop`), and the timer of the heartbeats (`Timer`): `Beat`, `Miss`, `Reconnect`.
`timer` counts what is left of its interval: `Pass` lets time go by, and every message that the
window sends or reads starts it again (`RestartTimer`).

The server answers from `Accounts` (`TakeRequest`, `Query`, `Decide`, `SendReply`) or from its
cache (`Serve`); `Evict` is an expiry at any time. What `ChatServer` has and this one has not: two
workers on one connection, deleted connections, replies that stay in a buffer. The messages that
one handler broadcasts count as one. A heartbeat only puts off an `Evict`, so it is not put on the
wire. The end of a connection that LOGOUT makes the server close is left to the client's own
disconnect, in the same step.

`Lose` breaks a connection at any time: what was on its way to the client is lost, what was on its
way to the server may be. A connection may also fail to be made.

### Buffer, Heading, Stream

A buffer is a record of the vector, its size and the two indices; each operator is the method of
its name and returns the buffer that the call leaves. `readFd` is the server's, `readSocket` the
client's; both take the bytes that the system call returned. The client reads all that
`bytesAvailable` counts, and what the vector has no room for into an array of 65536 bytes, with no
bound: `HasRoom` says that it fits (the array has `ExtraBuf` bytes), and `Overrun` is the read that
does not, after which the client does nothing more and nothing is claimed of it. `Heading` has the
eight bytes and their numbers, each cut to the bytes of its field.

In `Stream` the client writes requests and the server messages, each a heading and a text.
`toServer` and `toClient` are the bytes on their way. Three things are arbitrary: how many of the
bytes that have arrived a read returns, how many of its bytes a write takes, and when. Bytes are
not lost or reordered on their way: TCP. `requests` and `messages` remember what was written and
how much of it was read, and `torn` whether a read ever ended inside a message, which the
properties need and the code does not have.

`GetRequestInfo` parses one heading per read, complete or not. parseInt does not look at
`m_writeIndex`, so the reader may pass the writer. From then on the assertion in
`retrieveAsString`, a comparison with an unsigned difference, holds of every length (`Asserted`),
and the server reads on into bytes that nobody wrote; the model reads what the vector holds there.
Neither `parseInt` nor `retrieveAsString` compares an index with the size of the vector, so the
code goes on outside it; the model does not follow it there. Where the vector would be left
(`InVector`), or an assertion fails, the side stops (`stopped`) and nothing is claimed about it any
more. A vector never loses a byte of its capacity, and new bytes of it are zeros: `resize`.

## Runs

| Run | What it shows | Bounds |
| --- | --- | --- |
| `pool` | six invariants and two liveness properties of the pool | 1 core thread, at most 2, 3 pushes: a second thread is added, a third job queues, a thread is reclaimed and another one started |
| `pool_grows` | finding: a pool that reclaimed a thread does not grow again | as `pool` |
| `pointers` | no dangling pointer, no leak; the list is in order of use; the pointers implement the list of `LRUCache`, and that list the map of `OnlineUsers` | three accounts, two connections, `live_Time` 2 in 7 seconds: enough for a node to expire, be put again and expire again; more addresses than nodes, so that freed ones are reused |
| `chat_room` | no open connection is forgotten but after a request without a case; whoever stays in the chat hears everything, in order and once, when users log in, register, talk, log out, reconnect or die | 1 user, 1 more connection, 1 account, 2 workers, 2 requests (heartbeats and fragments included) or deaths of every kind, writes in part, a period of `live_Time` that may pass |
| `chat_twice` | finding: two clients log in as one user | 2 connections, 1 account, 2 workers |
| `chat_dangling` | finding: a broadcast uses a deleted connection | 2 users |
| `chat_reply` | finding: the reply to a login can stay in the buffer | 1 client, 1 worker |
| `stream` | the output buffer is a queue; requests read whole and messages come out intact; buffers grow only when they are full | vectors of 12 bytes and an array of 8 behind the client's, 3 messages of 8 and 10 bytes in either direction, all ways to cut them: the vectors are compacted and grow, a message lies across both, a heading is cut, a read of the client does not fit |
| `session` | nobody gets into the chat over a connection that stands unless the server let it in, nor into the cache without an account; what `checkLogin` and `registerUser` return agrees with the table | 2 clients, 2 connections, 2 workers, 2 clicks, heartbeats fail once before a reconnect; the accounts are a valid one, "000", and 65636, which a heading would turn into another |
| `session_live` | liveness: a lost connection is noticed, what arrives is read | 1 client, 3 connections (a reconnect may fail and be tried again), 2 failing heartbeats tolerated, an interval of 1 that every message starts again, 3 clicks |
| `session_deaf` | finding: the chat window does not hear the connection that a reconnect made | 1 client, 2 connections |
| `stream_packets` | finding: of two requests that one read returns, the second waits for more bytes | as `stream`, reads end where requests end |

`chat_room` and `chat_dangling` start from `Steady`, a state in which some users
are in the chat and the server is idle, as a login, a READ and enough time lead to: it lets the few
requests of a run be the interesting ones. `chat_twice` and `chat_reply` start from an empty
server. In these runs a user has one connection and is in the cache. One SEND already posts two
chat messages, so that two of them are two broadcasts of two functors each, from two workers if
both clients are in the chat; two workers are enough for every race of the code, all of which are
between two threads. `InOrder`, `StayersHearAll` and `NeverOrphaned` are proved for any number.

`chat_room` has 1.8 million states, `stream` 2.1, `session` 0.7 and `session_live` 0.3, in one to
two and a half minutes each; the others take seconds.

In `session`, two clicks are enough to have both workers between the calls of a query, or a login
and the READ that follows it (which is no click); the proofs are for any number.

`StayersHearAll` speaks of those who are online, step by step: what is broadcast at a step is in
the output buffer of everyone in the cache, and a message leaves the buffer only for the client.
The comment at `Server.cpp:407` speaks of all connected sockets; the code, and the property, of
those in the cache. A user who was evicted and is put back by READ has missed what was said in
between. That is what the code does, and no document says otherwise.

`ChatIsLetIn` speaks of a chat window whose connection stands. A login wait that ends because the
connection broke, or was never made, reads an empty reply as `LOGIN_SUCCESS` and opens the chat
without an account: the model has it, and the property excludes it. `SuccessIsStored`,
`RefusedIsUnknown` and `RegisteredOnce` are about the return values of `checkLogin` and
`registerUser`, not about what windows show: the register window shows a success whatever the server
answered (`registerfrom.cpp:33`). They end where two calls into the client library overlap (`ub`).

Deadlock is not checked for the server, the sessions, the stream and the pool: a server without
requests waits, all clients may have closed their windows, a stream ends when everything was read,
and a pool that was shut down stops.

### Fairness

`ThreadPool`: a thread that can take a step in the end takes one (weak fairness of the owner's
started calls and of every worker: the scheduler, and jobs that return). Strong fairness of taking
`m_mtx`: a thread that keeps asking gets it in the end. Strong fairness of `TimeOut`: the deadline
of `wait_for` does not move when the thread is woken. Nobody owes a push or a shutdown.

`ChatServer`: weak fairness of the main thread and of every worker, for `chat_reply`. Clients and
the clock owe nothing.

`Session`: weak fairness of the event loop and of the timer of each process, and of the passing of
time (`Pass`). Qt's loop runs the slots of signals that were emitted unless a slot blocks, which is
what `waiting` says. Every message sent or received starts the timer again, so that a user who never
pauses for an interval never has a heartbeat, and a lost connection stays unnoticed as long: the
model bounds what a user sends (`MaxRequests`), and `LostIsNoticed` is about users who do pause.
Users, the network and the server owe nothing: `LostIsNoticed` ends with the new object, not with an
answer. `readme.md:44` of the server gives five failed heartbeats in a row as the sign of a lost
connection; `heartbeatCount > 5` takes a sixth, and so does `Tolerated`.

`Stream` and the cache state no liveness.

### Findings

* **Two clients on one account** (`chat_twice`), between `get` and `put` of LOGIN.
* **A broadcast to a deleted connection** (`chat_dangling`).
* **A reply that is never written** (`chat_reply`). For REGISTER it takes no race at all: nothing
  arms the connection or wakes the main thread until another event does.
* **Requests stick together** (`stream_packets`). `getRequestInfo` parses one request per read and
  then waits for the socket, so a second request that arrived in the same segment waits in
  `m_inBuffer` until the client sends something else, and every request after it is handled one
  read too late. `Server.cpp:140` says that the check for incomplete requests is "not completed
  yet"; the joined ones are not mentioned there.
* **A deaf window** (`session_deaf`). `heartbeatFunc` replaces `chatClient` by the object that the
  reconnect made; `readyRead` and the three signals stay connected to the old one. Nothing that
  arrives afterwards is shown, although the reconnect is logged as a success.
* **A pool that stops growing** (`pool_grows`). Every `break` of the worker's loop skips
  `--thread_waiting_num`, so a thread that has ended counts as waiting for ever
  (`WaitingAlwaysCountsTheDead` proves exactly that), and after the first reclaim `pushJob` never
  finds zero waiting threads again. The comment at `ThreadPool.cpp:121` and the server's
  `readme.md:10` and `readme.md:47-50` describe a pool that adds threads when all are busy.

One more behaviour is in the model and in no run of its own: a shutdown can leave a worker asleep,
because its flags are stored without `m_mtx` between a worker's test of them and its block. The
server never shuts its pool down.

## Proofs

`ThreadPoolProofs`, for every number of core threads, maximum and pushes, from `PoolAssumption`
alone:

* `TypeCorrect`: `Spec => []TypeOK`. `Typed`, the inductive form, adds that a running worker has a
  job and that a thread about to be registered has a number.
* `WakeupNotLost`: `Spec => []NoLostWakeup`. Not inductive by itself. `WakeupInv` adds: the worker
  inside the critical section, and no other, holds the mutex (`Mutex`); a worker about to block saw
  the queue empty, and nobody can push while it holds the mutex (`SleepsOnEmpty`); a core thread is
  never timed out, and leaves only after a shutdown at once or with the queue empty (`CoreStays`);
  `run` adds thread 0 as a core thread before any job is pushed, and no push follows a shutdown
  (`OwnerOrder`). The case that needs them all is the notification: if somebody is blocked,
  `NotifyOne` wakes one of them; if nobody is, thread 0 is neither blocked nor gone, so it is awake.
* `PoolStaysBounded`: `Spec => []PoolBounded`. `BoundInv` says in addition that between
  `ReadTotal` and `PushAdd` there is room: only the owner adds threads, so the number can only
  fall in between.

* `WaitingAlwaysCountsTheDead`: `Spec => []WaitingCountsTheDead`, the cause of the finding of
  `pool_grows`, by the cardinality of `Counted`,
  the threads that wait or have left: a step moves at most one thread into the set or out of it.
* `CoreStaysWhole`: `Spec => []CoreNeverReclaimed`. `CoreInv` adds that while `run` adds core
  threads there are as many as it has added (`CoreCount`).
* `JobsStayConserved`: `Spec => []JobsConserved`. `JobsInv` says that the queue holds the jobs from
  `Started + 1` to the last push in order (`Queued`), that workers hold different ones of those
  before (`Held`), and that the rest of them are done (`Kept`).
* `ShutDownAlwaysDrains`: `Spec => []ShutDownDrains`, from the two before: after `shutDown` a core
  thread leaves only with the queue empty, and nobody pushes any more (`OneShutDown`).

Each proof goes action by action; lemmas about `AddThread`, the owner and the workers come first.

`LRUCacheProofs`, for all sets of accounts and connections and every `live_Time`:
`ListTypeCorrect`, `OneNodeForEachKey`, `ListOrderedByUse` and the refinement
`CacheImplementsUsers`: `Spec => UsersSpec`. A list is good if no key is in it twice and the times
fall from front to tail, none of them in the future. In a good list the nodes that have not expired
are a prefix; `checkList` therefore keeps exactly them (`CheckKeepsFresh`). `Says` relates a list to
the map it stands for; each of `Without`, `Insert` and `CheckList` says what the operation of
`OnlineUsers` makes of the map, and a step of the list is a step of the map.

`LRUListProofs`, for all sets of accounts and connections and every `live_Time`, from
`LRUAssumption` and `ListAssumption` (an address for every account beside the sentinels):
`PointersTypeCorrect`, `PointersMatch`, `NothingLeaks`, `PointersOrderedByUse` and the refinements
`PointersImplementList` (`ListSpec`) and `PointersImplementUsers` (`UsersSpec`). The invariant
needs a witness that no variable holds: a chain, the addresses from `m_head` to `m_tail` in order.
`Whole` says of it that `next` and `pre` lead along it (`Linked`), that the nodes between its ends
are those of the map, each with its key (`Owned`) and that they show a good list (`View`, as
`LRUCacheProofs` has it). `del` takes an address out of the chain and `insert` puts one behind
`m_head`; both are proved pointer by pointer (`DelLinks`, `FrontNode`), and what they make of the
view is `Without` and `Insert`. That a free address exists is a matter of counting
(`AddressIsFree`). `NodesOf` follows `next` by a recursive function; along a chain it is the chain,
since there is no least position at which the two differ (`FollowChain`), so that the list of the
refinement is the view. A turn of `checkList` removes the last node, which `CheckList` of the list
would remove as well (`CheckTurns`), and at `Return` there is nothing left to remove (`CheckEnds`).
`UsersSpec` follows from the refinement of `LRUCacheProofs`, instantiated with the view.

`ChatServerProofs`, for any number of connections, accounts, workers and requests:
`ServerTypeCorrect` and `NobodyIsOrphaned`: `Spec => []NeverOrphaned`. The invariant has the types
of everything on its way (`ClientTypes`, `ServerTypes`): a worker's operations, the jobs, the
functors. `MainOrder` says that the main thread has no events left when it swaps and no functors
left when it waits, and `Shape` that a worker that reads, looks up or asks has nothing else to do
afterwards. `Attended` is the property with its cases apart: a connection is reported, queued,
tended to by a worker, named by a functor that is pending or posted, or in `ignored`. `HandleTends`
and `LookupTends` are the heart of it: whatever the request, what a worker has to do after it arms
the connection or posts a functor that does, unless the request has no case. A posted functor is a
promise and no more: `addFunctor` wakes nobody, so that the reply to REGISTER waits for the next
event of any connection (`Promised`; `InHands` is what runs by itself).

`ChatOrderProofs`, which builds on it: `MessagesInOrder`: `Spec => []InOrder`. The number of a chat
message goes from `m_FunctorList` to `functors`, to the output buffers and to the clients; the
invariant `Ordered` says that the numbers rise at each of these places, and that those at a later
place are smaller than those at an earlier one. `delivered` is the sequence of the numbers a client
has received, and `InOrder` that it rises strictly: no message twice, and the order inside one
write as well. On the same invariant rests `OnlineUsersHearAll`: `Spec => StayersHearAll`. A
message counts as broadcast when it was posted and is on neither list (`BroadcastIs`). The swap
moves the numbers from one list to the other and a post puts its own on the first, so that only the
functor that runs broadcasts anything, and only its own message (`RunBroadcasts`); the rest is what
an append adds to a buffer and a write in part takes from it.

`AccountsProofs`, for any number of workers and all texts: `SuccessAlwaysStored`,
`RefusedAlwaysUnknown`, `AlwaysRegisteredOnce`. The invariant says of every worker what its answer
rests on (`WorkerOK`), and that only one worker is between its two calls (`OneStores`): the select
of another fails as long as the rows are pending. That is what keeps workers that take turns from
taking each other's rows.

`SessionProofs`, for any number of clients, connections, workers and texts: `SessionTypeCorrect`,
`ChatAlwaysLetIn`, `OnlineAlwaysRegistered`, and the refinement `SessionImplementsAccounts`, which
carries the theorems about the accounts over (`SessionAnswersAgree`). `SessionInv` says which
windows have an object (`Windows`), that no two processes share one (`Owned`), that no two workers
serve one connection (`Served`), and that a connection without a user has at most one request or
one answer on its way, the one its process waits for (`Phase`): that is why a process that takes
the first message for its answer is right before it is in the chat. `Stranger` says that a
connection without a user is not in the cache and was not told of a success, `Fresh` that one that
is not made yet is empty, and `Known` that the server stores only users that have a row.

`StreamProofs` begins with the buffers, for every one whose reader has not passed its writer
(`IsQueue`), all bytes and every initial size: `BytesAppendedAtEnd`, `BytesReadAtEnd`,
`BytesRetrievedFromFront`: what is readable afterwards is what was readable before with the new
bytes behind it, or without its front. For the client's `readSocket` this takes `HasRoom`.
`SpaceKeepsReadable` has the three cases of `ensureWriteableSpace`: room enough, grow, move to the
front. `ReadFdType` covers the reader that has passed: `readFd` puts `m_writeIndex` at the end of
the vector before it appends, so that no negative count is ever moved.

Of the connection it proves, from `BufferAssumption` and `StreamAssumption`, for all messages:

* `HeadingRoundTrip`: a heading is read as it was meant if its numbers fit their bytes, by the
  server's `parseHead` and by the client's `baseParse`.
* `StreamTypeCorrect`: `Spec => []TypeOK`, up to the step where a side stops and no further: that
  the server's reader stays inside its vector is a guard of the model, not of the code. And
  `OutputIsQueue`: `Spec => []OutBufferIsQueue`, from one inductive invariant. `Inv` adds that the
  output buffer and the client's are queues (`QueuesOK`: the client's assertions hold its reader
  back, the server's do not) and that the bytes and the count of those read belong together
  (`BytesOK`). `OutBufferIsQueue` says where the bytes between the server's append and the client's
  read are; an append extends both sides of the equation at the end (`UnreadGrows`), a read drops
  the same bytes from both (`UnreadShrinks`), and a write in part moves bytes from one side of the
  concatenation to the other.
* `ClientTakesMessages`: `Spec => []MessagesIntact`, and `ServerHandlesRequests`: `Spec =>
  []RequestsIntact`. Where a message ends in the bytes that were written is in no variable.
  `TakenApart` says that such ends exist, and that those taken so far are the first messages and
  the bytes still to read begin at the end of the last. A write adds an end. A read takes the
  heading that `HeadingRoundTrip` gives back and then as many bytes as it says, which is up to the
  next end. `ClientInv` and `ServerInv` add where either side is: before a heading or before a
  text; for the server, only as long as no read has ended inside a message (`torn`), and for the
  client, as long as its reads have room.
* `BuffersGrowWhenFull`: `Spec => GrowsOnlyWhenFull`, of all three buffers, from the cases of
  `ensureWriteableSpace`.

Model-checked only: the liveness properties of `pool` and `session_live`, which are out of
the prover's reach. Every invariant and every action property of the passing runs has a theorem.

## Not modelled

* `createListenFd`, failing system calls (`epoll_wait` interrupted, `accept4` out of descriptors)
  other than a write to a client that is gone; reuse of a descriptor's number.
* What the server does once it reads outside a vector, or a client once `extraBuf` overflows: the
  models stop there.
* The second reading of the clock: `get` and `put` of the cache stamp a node with one reading and
  `checkList` compares with another (`LRUCache.cpp:46`, `63`, `77` and `104`). The models read it
  once. A second that begins in between only lets `checkList` remove a node one second earlier
  than the list of the model, never the node just stamped, as long as `live_Time` (200) is more than
  the time of one call.
* `sendTextToOneUser`, `runAsSingle`, `parseMessage`, `sendMessage`, `isInServerThread`; `findCRLF`,
  `retrieveUnitil` and the client's `writeFd`: no callers.
* `client.cpp`, commented out; the read thread, never started; images, which no client sends.
* MySQL, of which `Accounts` has what its client library promises about two calls on one
  connection, and jsoncpp; the windows' layout.

The promotion of the event loop to *modelled* would take failing system calls, which
`createListenFd` and the database's `connect` answer by ending the process and the rest of the
code by a message on the console.

## Plan

1. In `ChatServer`: that only a request of an account refreshes it (false for broadcasts and for
   heartbeats with another's account), with a period for each account.
2. Proofs: of `ChatServer`, that a user who is in the cache has a connection that was accepted and
   a heading that named it; a theorem for what `ub` excludes when a single worker runs.
