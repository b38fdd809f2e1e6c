----------------------------- MODULE ThreadPool -----------------------------
(***************************************************************************)
(* The server's worker pool, ThreadPool.h and ThreadPool.cpp.              *)
(*                                                                         *)
(* One thread, the owner, constructs the pool, pushes jobs into it and     *)
(* shuts it down: in the server that is the thread of Server::run, the     *)
(* only caller of pushJob.  The workers are the threads AddThread starts;  *)
(* they are numbered by thread_id, and a worker that ends is never reused. *)
(*                                                                         *)
(* A step is what a thread does between two points where another thread    *)
(* can see or change what it works on.  The critical sections of m_mtx are *)
(* split where a variable that the mutex does not protect (the two         *)
(* shutdown flags and the two counters) can be read or written by the      *)
(* owner in between; the section of m_mtx_threads is one step.             *)
(***************************************************************************)
EXTENDS Integers, Sequences, FiniteSets

CONSTANTS
    CoreNumWorkers,     \* m_coreNumWorkers: threads started by run()
    MaxNumWorkers,      \* m_MaxNumWorkers: no thread is added at this number
    Pushes              \* bound on the calls of pushJob

\* main.cpp constructs the pool with 4 core threads, and the constructor sets
\* the maximum to 8 without comparing the two.
ASSUME PoolAssumption ==
    /\ CoreNumWorkers \in Nat \ {0}
    /\ MaxNumWorkers \in Nat
    /\ CoreNumWorkers <= MaxNumWorkers
    /\ Pushes \in Nat

VARIABLES
    owner,                  \* where the owner is
    mtx,                    \* the holder of m_mtx
    m_jobs,                 \* the queue of jobs, each named by its push
    pushed,                 \* how many jobs were pushed
    done,                   \* the jobs that have been run
    pc,                     \* where each worker is
    flag,                   \* flag_ of each worker
    task,                   \* the job each worker holds, or NoTask
    m_threads,              \* the registered workers
    thread_id,              \* the next worker's number
    thread_waiting_num,
    thread_existing_num,
    is_shutdown,
    is_shutdown_now

poolVars == <<m_jobs, pushed, done>>
counters == <<thread_id, thread_waiting_num, thread_existing_num>>
flags    == <<is_shutdown, is_shutdown_now>>
workers  == <<pc, flag, task>>
vars     == <<owner, mtx, m_jobs, pushed, done, pc, flag, task, m_threads,
              thread_id, thread_waiting_num, thread_existing_num,
              is_shutdown, is_shutdown_now>>

NoOne  == -1
NoTask == 0

Workers == 0 .. thread_id - 1

OwnerPc  == {"run", "run_register", "idle", "pushed", "count", "add",
             "push_register", "notify", "closing", "closed"}
\* "check", "sleep" and "decide" are inside the critical section of m_mtx.
WorkerPc == {"top", "check", "sleep", "blocked", "woken", "timedout", "decide",
             "running", "exiting", "erase", "dead"}
Holding  == {"check", "sleep", "decide"}
Ended    == {"exiting", "erase", "dead"}

-----------------------------------------------------------------------------

Init ==
    /\ owner = "run"
    /\ mtx = NoOne
    /\ m_jobs = <<>>
    /\ pushed = 0
    /\ done = {}
    /\ pc   = [w \in {} |-> "top"]
    /\ flag = [w \in {} |-> "core"]
    /\ task = [w \in {} |-> NoTask]
    /\ m_threads = {}
    /\ thread_id = 0
    /\ thread_waiting_num = 0
    /\ thread_existing_num = 0
    /\ is_shutdown = FALSE
    /\ is_shutdown_now = FALSE

\* What a parked worker waits for.
WaitPredicate == is_shutdown \/ is_shutdown_now \/ m_jobs # <<>>

\* AddThread: the flag is chosen from the number of existing threads, the
\* counters move and the thread is started; AddThread then registers it.
AddThread ==
    LET Grow(f, x) == [w \in 0 .. thread_id |-> IF w = thread_id THEN x ELSE f[w]]
    IN  /\ flag' = Grow(flag, IF thread_existing_num < CoreNumWorkers
                              THEN "core" ELSE "cache")
        /\ pc'   = Grow(pc, "top")
        /\ task' = Grow(task, NoTask)
        /\ thread_id' = thread_id + 1
        /\ thread_existing_num' = thread_existing_num + 1

\* Mutant: registers under the number of the thread that comes next.
RegisterNext == m_threads' = m_threads \union {thread_id}

Register == m_threads' = m_threads \union {thread_id - 1}

(***************************************************************************)
(* The owner: the constructor's run().                                     *)
(***************************************************************************)

RunAdd ==
    /\ owner = "run"
    /\ thread_existing_num < CoreNumWorkers
    /\ AddThread
    /\ owner' = "run_register"
    /\ UNCHANGED <<mtx, poolVars, m_threads, thread_waiting_num, flags>>

RunRegister ==
    /\ owner = "run_register"
    /\ Register
    /\ owner' = "run"
    /\ UNCHANGED <<mtx, poolVars, workers, counters, flags>>

RunDone ==
    /\ owner = "run"
    /\ thread_existing_num >= CoreNumWorkers
    /\ owner' = "idle"
    /\ UNCHANGED <<mtx, poolVars, workers, m_threads, counters, flags>>

(***************************************************************************)
(* The owner: pushJob.                                                     *)
(***************************************************************************)

PushJob ==
    /\ owner = "idle"
    /\ pushed < Pushes
    /\ mtx = NoOne
    /\ m_jobs' = Append(m_jobs, pushed + 1)
    /\ pushed' = pushed + 1
    /\ owner' = "pushed"
    /\ UNCHANGED <<mtx, done, workers, m_threads, counters, flags>>

\* getWaitingThread() == 0, read after m_mtx is released.
ReadWaiting ==
    /\ owner = "pushed"
    /\ owner' = IF thread_waiting_num = 0 THEN "count" ELSE "notify"
    /\ UNCHANGED <<mtx, poolVars, workers, m_threads, counters, flags>>

\* Mutant: compares with <=.
ReadTotalOffByOne ==
    /\ owner = "count"
    /\ owner' = IF thread_existing_num <= MaxNumWorkers THEN "add" ELSE "notify"
    /\ UNCHANGED <<mtx, poolVars, workers, m_threads, counters, flags>>

\* getTotalThread() < m_MaxNumWorkers.
ReadTotal ==
    /\ owner = "count"
    /\ owner' = IF thread_existing_num < MaxNumWorkers THEN "add" ELSE "notify"
    /\ UNCHANGED <<mtx, poolVars, workers, m_threads, counters, flags>>

PushAdd ==
    /\ owner = "add"
    /\ AddThread
    /\ owner' = "push_register"
    /\ UNCHANGED <<mtx, poolVars, m_threads, thread_waiting_num, flags>>

PushRegister ==
    /\ owner = "push_register"
    /\ Register
    /\ owner' = "notify"
    /\ UNCHANGED <<mtx, poolVars, workers, counters, flags>>

Blocked == {w \in Workers : pc[w] = "blocked"}

\* Mutant: the notification is dropped.
NotifyNobody ==
    /\ owner = "notify"
    /\ owner' = "idle"
    /\ UNCHANGED <<mtx, poolVars, workers, m_threads, counters, flags>>

\* m_cond.notify_one: one of the blocked workers, if any, is unblocked.
NotifyOne ==
    /\ owner = "notify"
    /\ owner' = "idle"
    /\ IF Blocked = {}
       THEN UNCHANGED pc
       ELSE \E w \in Blocked : pc' = [pc EXCEPT ![w] = "woken"]
    /\ UNCHANGED <<mtx, poolVars, flag, task, m_threads, counters, flags>>

(***************************************************************************)
(* The owner: shutDown and shutDownNow.  The flag is stored without m_mtx. *)
(***************************************************************************)

ShutDown(is_now) ==
    /\ owner = "idle"
    /\ IF is_now
       THEN is_shutdown_now' = TRUE /\ UNCHANGED is_shutdown
       ELSE is_shutdown' = TRUE /\ UNCHANGED is_shutdown_now
    /\ owner' = "closing"
    /\ UNCHANGED <<mtx, poolVars, workers, m_threads, counters>>

NotifyAll ==
    /\ owner = "closing"
    /\ owner' = "closed"
    /\ pc' = [w \in Workers |-> IF w \in Blocked THEN "woken" ELSE pc[w]]
    /\ UNCHANGED <<mtx, poolVars, flag, task, m_threads, counters, flags>>

(***************************************************************************)
(* A worker: the function AddThread starts.                                *)
(***************************************************************************)

\* The lock is taken and the worker counts itself as waiting.
Lock(w) ==
    /\ pc[w] = "top"
    /\ mtx = NoOne
    /\ mtx' = w
    /\ thread_waiting_num' = thread_waiting_num + 1
    /\ pc' = [pc EXCEPT ![w] = "check"]
    /\ UNCHANGED <<owner, poolVars, flag, task, m_threads, thread_id,
                   thread_existing_num, flags>>

\* Mutant: m_mtx is released between the test and the block.
CheckPredicateUnlocks(w) ==
    /\ pc[w] = "check"
    /\ pc' = [pc EXCEPT ![w] = IF WaitPredicate THEN "decide" ELSE "sleep"]
    /\ mtx' = IF WaitPredicate THEN mtx ELSE NoOne
    /\ UNCHANGED <<owner, poolVars, flag, task, m_threads, counters, flags>>

\* m_cond.wait and wait_for first evaluate the predicate ...
CheckPredicate(w) ==
    /\ pc[w] = "check"
    /\ pc' = [pc EXCEPT ![w] = IF WaitPredicate THEN "decide" ELSE "sleep"]
    /\ UNCHANGED <<owner, mtx, poolVars, flag, task, m_threads, counters, flags>>

\* ... and then release the lock and block, as one step.
Sleep(w) ==
    /\ pc[w] = "sleep"
    /\ mtx' = NoOne
    /\ pc' = [pc EXCEPT ![w] = "blocked"]
    /\ UNCHANGED <<owner, poolVars, flag, task, m_threads, counters, flags>>

\* A condition variable may wake a thread that nobody notified.
SpuriousWake(w) ==
    /\ pc[w] = "blocked"
    /\ pc' = [pc EXCEPT ![w] = "woken"]
    /\ UNCHANGED <<owner, mtx, poolVars, flag, task, m_threads, counters, flags>>

\* Mutant: core threads wait with the time limit too.
TimeOutAnyone(w) ==
    /\ pc[w] = "blocked"
    /\ pc' = [pc EXCEPT ![w] = "timedout"]
    /\ UNCHANGED <<owner, mtx, poolVars, flag, task, m_threads, counters, flags>>

\* Mutant: a time limit that passes only wakes the thread.
TimeOutWakes(w) ==
    /\ pc[w] = "blocked"
    /\ flag[w] = "cache"
    /\ pc' = [pc EXCEPT ![w] = "woken"]
    /\ UNCHANGED <<owner, mtx, poolVars, flag, task, m_threads, counters, flags>>

\* m_sleepTime has passed; only cache threads wait with a time limit.
TimeOut(w) ==
    /\ pc[w] = "blocked"
    /\ flag[w] = "cache"
    /\ pc' = [pc EXCEPT ![w] = "timedout"]
    /\ UNCHANGED <<owner, mtx, poolVars, flag, task, m_threads, counters, flags>>

\* A woken worker evaluates the predicate again; wait_for returns after its
\* time limit whatever the predicate says.
Relock(w) ==
    /\ pc[w] \in {"woken", "timedout"}
    /\ mtx = NoOne
    /\ mtx' = w
    /\ pc' = [pc EXCEPT ![w] = IF pc[w] = "woken" THEN "check" ELSE "decide"]
    /\ UNCHANGED <<owner, poolVars, flag, task, m_threads, counters, flags>>

\* Mutant: shutDown does not look at the queue.
MustEndAtOnce ==
    \/ ~WaitPredicate
    \/ is_shutdown
    \/ is_shutdown_now

\* The three ways out of the loop: reclaimed, shut down, shut down now.
MustEnd ==
    \/ ~WaitPredicate
    \/ is_shutdown /\ m_jobs = <<>>
    \/ is_shutdown_now

\* A break leaves the critical section without touching thread_waiting_num.
End(w) ==
    /\ pc[w] = "decide"
    /\ MustEnd
    /\ mtx' = NoOne
    /\ pc' = [pc EXCEPT ![w] = "exiting"]
    /\ UNCHANGED <<owner, poolVars, flag, task, m_threads, counters, flags>>

\* Mutant: the front is taken and not popped.
TakeJobNoPop(w) ==
    /\ pc[w] = "decide"
    /\ ~MustEnd
    /\ task' = [task EXCEPT ![w] = Head(m_jobs)]
    /\ thread_waiting_num' = thread_waiting_num - 1
    /\ mtx' = NoOne
    /\ pc' = [pc EXCEPT ![w] = "running"]
    /\ UNCHANGED <<owner, poolVars, flag, m_threads, thread_id,
                   thread_existing_num, flags>>

TakeJob(w) ==
    /\ pc[w] = "decide"
    /\ ~MustEnd
    /\ task' = [task EXCEPT ![w] = Head(m_jobs)]
    /\ m_jobs' = Tail(m_jobs)
    /\ thread_waiting_num' = thread_waiting_num - 1
    /\ mtx' = NoOne
    /\ pc' = [pc EXCEPT ![w] = "running"]
    /\ UNCHANGED <<owner, pushed, done, flag, m_threads, thread_id,
                   thread_existing_num, flags>>

FinishJob(w) ==
    /\ pc[w] = "running"
    /\ done' = done \union {task[w]}
    /\ task' = [task EXCEPT ![w] = NoTask]
    /\ pc' = [pc EXCEPT ![w] = "top"]
    /\ UNCHANGED <<owner, mtx, m_jobs, pushed, flag, m_threads, counters, flags>>

\* After the loop: the thread stops existing, then unregisters itself.
Exit(w) ==
    /\ pc[w] = "exiting"
    /\ thread_existing_num' = thread_existing_num - 1
    /\ pc' = [pc EXCEPT ![w] = "erase"]
    /\ UNCHANGED <<owner, mtx, poolVars, flag, task, m_threads, thread_id,
                   thread_waiting_num, flags>>

Erase(w) ==
    /\ pc[w] = "erase"
    /\ m_threads' = m_threads \ {w}
    /\ pc' = [pc EXCEPT ![w] = "dead"]
    /\ UNCHANGED <<owner, mtx, poolVars, flag, task, counters, flags>>

-----------------------------------------------------------------------------

\* The steps the owner takes once it has begun a call.
OwnerStep ==
    \/ RunAdd \/ RunRegister \/ RunDone
    \/ ReadWaiting \/ ReadTotal \/ PushAdd \/ PushRegister \/ NotifyOne
    \/ NotifyAll

OwnerCall == PushJob \/ \E is_now \in BOOLEAN : ShutDown(is_now)

\* The steps the scheduler owes a worker.
WorkerStep(w) ==
    \/ Lock(w) \/ CheckPredicate(w) \/ Sleep(w) \/ Relock(w)
    \/ End(w) \/ TakeJob(w) \/ FinishJob(w) \/ Exit(w) \/ Erase(w)

Next ==
    \/ OwnerStep
    \/ OwnerCall
    \/ \E w \in Workers : WorkerStep(w) \/ SpuriousWake(w) \/ TimeOut(w)

Spec == Init /\ [][Next]_vars

\* Threads are scheduled, the jobs return, and a thread that keeps asking for
\* m_mtx gets it in the end, however often the others take it.  Nobody owes the
\* pool a push, a shutdown or a spurious wakeup.  The time limit of wait_for is a
\* deadline that wakeups do not move: it passes however often a worker is woken.
MaxThreads == CoreNumWorkers + Pushes

Fairness ==
    /\ WF_vars(OwnerStep)
    /\ \A w \in 0 .. MaxThreads - 1 :
          /\ WF_vars(w \in Workers /\ WorkerStep(w))
          /\ SF_vars(w \in Workers /\ (Lock(w) \/ Relock(w)))
          /\ SF_vars(w \in Workers /\ TimeOut(w))

FairSpec == Spec /\ Fairness

-----------------------------------------------------------------------------

\* The types of the members of ThreadPool.h.
TypeOK ==
    /\ owner \in OwnerPc
    /\ thread_id \in Nat
    /\ mtx \in Workers \union {NoOne}
    /\ pushed \in 0 .. Pushes
    /\ m_jobs \in Seq(1 .. pushed)
    /\ done \subseteq 1 .. pushed
    /\ pc \in [Workers -> WorkerPc]
    /\ flag \in [Workers -> {"core", "cache"}]
    /\ task \in [Workers -> 0 .. pushed]
    /\ m_threads \subseteq Workers
    /\ thread_waiting_num \in Int
    /\ thread_existing_num \in Int
    /\ is_shutdown \in BOOLEAN
    /\ is_shutdown_now \in BOOLEAN

\* Every pushed job is in exactly one place, still queued in push order, in the
\* hands of one worker, or done: the queue hands no job out twice and loses none
\* (pushJob's emplace against the worker's front and pop).
JobsConserved ==
    LET started == pushed - Len(m_jobs)
        holders(n) == {w \in Workers : task[w] = n}
    IN  /\ m_jobs = [i \in 1 .. Len(m_jobs) |-> started + i]
        /\ \A n \in 1 .. started :
              IF n \in done THEN holders(n) = {}
                            ELSE Cardinality(holders(n)) = 1
        /\ \A n \in started + 1 .. pushed : n \notin done /\ holders(n) = {}

\* A worker that will look at the queue again without being notified.
Awake(w) == pc[w] \notin Ended \union {"blocked"}

\* A queued job never waits on workers that all sleep: outside pushJob, before
\* its notify_one, some worker is on its way to the queue.  A worker that tests
\* the predicate and then blocks, or is reclaimed just as a job arrives, must not
\* swallow the one notification (m_mtx around emplace and around the wait).
NoLostWakeup ==
    m_jobs # <<>> /\ ~is_shutdown_now /\ owner \in {"idle", "closing", "closed"}
        => \E w \in Workers : Awake(w)

Live == {w \in Workers : pc[w] \notin {"erase", "dead"}}

\* thread_existing_num is the number of threads that have not left their loop
\* and never passes the maximum, although pushJob compares and AddThread
\* increments in two steps while workers end.
PoolBounded ==
    /\ thread_existing_num = Cardinality(Live)
    /\ thread_existing_num <= MaxNumWorkers

\* Reclaiming takes cache threads only: from the end of run() until a shutdown
\* the pool keeps its core threads, whatever was added and reclaimed since.
CoreNeverReclaimed ==
    owner \notin {"run", "run_register"} /\ ~is_shutdown /\ ~is_shutdown_now
        => Cardinality({w \in Workers : flag[w] = "core" /\ pc[w] \notin Ended})
             = CoreNumWorkers

InWait == {"check", "sleep", "blocked", "woken", "timedout", "decide"}

\* What thread_waiting_num really counts: the workers inside the wait and every
\* worker that ever left the loop, since no break takes it back.
WaitingCountsTheDead ==
    thread_waiting_num = Cardinality({w \in Workers : pc[w] \in InWait \union Ended})

\* ThreadPool.cpp:121 says that pushJob adds a thread when all threads are occupied,
\* and readme.md:48 that threads are added when there is much to do.  With room for
\* another thread, a push that adds none should have found one that is not running a
\* job; but a thread that was reclaimed counts as waiting for ever.
GrowsWhenBusy ==
    [][owner = "pushed" /\ owner' = "notify" /\ thread_existing_num < MaxNumWorkers
          => \E w \in m_threads : pc[w] # "running"]_vars

\* shutDown drains: when the last worker has left after shutDown, and not
\* shutDownNow, every job that was pushed has been run.
ShutDownDrains ==
    is_shutdown /\ (\A w \in Workers : pc[w] \in Ended) => done = 1 .. pushed

\* Every pushed job is run, unless the pool is shut down at once.
EveryJobRuns ==
    \A n \in 1 .. Pushes : n <= pushed ~> n \in done \/ is_shutdown_now

\* Idle cache threads are reclaimed: once the pushes stop, only core threads
\* remain (wait_for with m_sleepTime).
CacheReclaimed ==
    <>[](\A w \in Workers : flag[w] = "cache" => pc[w] = "dead")
=============================================================================
