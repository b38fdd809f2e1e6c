-------------------------- MODULE ThreadPoolProofs --------------------------
(***************************************************************************)
(* What ThreadPool promises for every number of core threads, every        *)
(* maximum and every number of pushes.                                     *)
(***************************************************************************)
EXTENDS ThreadPool, FiniteSetTheorems, TLAPS

USE PoolAssumption

-----------------------------------------------------------------------------
(***************************************************************************)
(* Typing.                                                                 *)
(***************************************************************************)

LEMMA NoOneIsNoWorker == NoOne \notin Workers
BY DEF NoOne, Workers

\* A thread that AddThread is about to register has its number already, and a
\* running worker has a job.
Typed ==
    /\ TypeOK
    /\ \A w \in Workers : pc[w] = "running" => task[w] # NoTask
    /\ owner \in {"run_register", "push_register"} => thread_id > 0

LEMMA TypeInit == Init => Typed
<1> SUFFICES ASSUME Init PROVE Typed
    OBVIOUS
<1>1. Workers = {}
    BY DEF Init, Workers
<1>2. m_jobs \in Seq(1 .. pushed)
    BY DEF Init
<1>3. pc \in [{} -> WorkerPc] /\ flag \in [{} -> {"core", "cache"}]
      /\ task \in [{} -> 0 .. pushed]
    BY DEF Init
<1>4. pushed \in 0 .. Pushes /\ done \subseteq 1 .. pushed
    BY DEF Init
<1>5. owner \in OwnerPc /\ owner \notin {"run_register", "push_register"}
    BY DEF Init, OwnerPc
<1>6. mtx \in Workers \union {NoOne} /\ m_threads \subseteq Workers
    BY DEF Init
<1>7. thread_id \in Nat /\ thread_waiting_num \in Int /\ thread_existing_num \in Int
    BY DEF Init
<1>8. is_shutdown \in BOOLEAN /\ is_shutdown_now \in BOOLEAN
    BY DEF Init
<1> QED  BY <1>1, <1>2, <1>3, <1>4, <1>5, <1>6, <1>7, <1>8 DEF Typed, TypeOK

\* A larger set of elements has more sequences.
LEMMA SeqMonotone ==
    ASSUME NEW S, NEW T, S \subseteq T, NEW s \in Seq(S)
    PROVE  s \in Seq(T)
<1>1. Len(s) \in Nat /\ DOMAIN s = 1 .. Len(s) /\ s = [i \in 1 .. Len(s) |-> s[i]]
    OBVIOUS
<1>2. \A i \in 1 .. Len(s) : s[i] \in T
    OBVIOUS
<1> QED  BY <1>1, <1>2

\* AddThread and nothing else changes the set of workers.
LEMMA TypeAddThread ==
    ASSUME Typed, AddThread, owner' \in OwnerPc,
           UNCHANGED <<mtx, poolVars, m_threads, thread_waiting_num, flags>>
    PROVE  Typed'
<1> USE DEF Typed, TypeOK
<1>1. /\ Workers' = 0 .. thread_id
      /\ Workers' = Workers \union {thread_id}
      /\ thread_id' \in Nat \ {0}
    BY DEF AddThread, Workers
<1>2. /\ pc' \in [Workers' -> WorkerPc]
      /\ flag' \in [Workers' -> {"core", "cache"}]
      /\ task' \in [Workers' -> 0 .. pushed]
    BY <1>1 DEF AddThread, Workers, WorkerPc, NoTask
<1>3. \A w \in Workers' : pc'[w] = "running" => task'[w] # NoTask
    BY <1>1 DEF AddThread, Workers
<1>4. thread_existing_num' \in Int
    BY DEF AddThread
<1> QED  BY <1>1, <1>2, <1>3, <1>4 DEF poolVars, flags

LEMMA TypeStep == Typed /\ [Next]_vars => Typed'
<1> SUFFICES ASSUME Typed, [Next]_vars PROVE Typed'
    OBVIOUS
<1> USE DEF Typed, TypeOK, poolVars, counters, flags, workers, OwnerPc
<1>1. CASE RunAdd
    BY <1>1, TypeAddThread DEF RunAdd
<1>2. CASE RunRegister
    BY <1>2 DEF RunRegister, Register, Workers
<1>3. CASE RunDone
    BY <1>3 DEF RunDone, Workers
<1>4. CASE PushJob
    <2>1. pushed' \in 0 .. Pushes /\ 1 .. pushed \subseteq 1 .. pushed'
        BY <1>4 DEF PushJob
    <2>2. m_jobs \in Seq(1 .. pushed') /\ pushed + 1 \in 1 .. pushed'
        BY <1>4, <2>1, SeqMonotone DEF PushJob
    <2>3. m_jobs' \in Seq(1 .. pushed')
        BY <1>4, <2>2 DEF PushJob
    <2> QED  BY <1>4, <2>1, <2>3 DEF PushJob, Workers
<1>5. CASE ReadWaiting
    BY <1>5 DEF ReadWaiting, Workers
<1>6. CASE ReadTotal
    BY <1>6 DEF ReadTotal, Workers
<1>7. CASE PushAdd
    BY <1>7, TypeAddThread DEF PushAdd
<1>8. CASE PushRegister
    <2>1. owner' \in OwnerPc /\ m_threads' = m_threads \union {thread_id - 1}
        BY <1>8 DEF PushRegister, Register
    <2> QED  BY <1>8, <2>1 DEF PushRegister, Workers
<1>9. CASE NotifyOne
    BY <1>9 DEF NotifyOne, Workers, WorkerPc, Blocked
<1>10. CASE NotifyAll
    BY <1>10 DEF NotifyAll, Workers, WorkerPc, Blocked
<1>11. ASSUME NEW is_now \in BOOLEAN, ShutDown(is_now) PROVE Typed'
    BY <1>11 DEF ShutDown, Workers
<1>12. ASSUME NEW w \in Workers, WorkerStep(w) \/ SpuriousWake(w) \/ TimeOut(w)
       PROVE  Typed'
    <2> USE DEF Workers, WorkerPc
    <2>1. CASE Lock(w)            BY <2>1 DEF Lock
    <2>2. CASE CheckPredicate(w)  BY <2>2 DEF CheckPredicate
    <2>3. CASE Sleep(w)           BY <2>3 DEF Sleep, NoOne
    <2>4. CASE Relock(w)          BY <2>4 DEF Relock
    <2>5. CASE End(w)             BY <2>5 DEF End, NoOne
    <2>6. CASE TakeJob(w)
        <3>1. m_jobs # <<>>
            BY <2>6 DEF TakeJob, MustEnd, WaitPredicate
        <3>2. Head(m_jobs) \in 1 .. pushed /\ Tail(m_jobs) \in Seq(1 .. pushed)
            BY <3>1
        <3> QED  BY <2>6, <3>2 DEF TakeJob, NoOne, NoTask
    <2>7. CASE FinishJob(w)
        <3>1. task[w] \in 1 .. pushed
            BY <2>7 DEF FinishJob, NoTask
        <3>2. done' \subseteq 1 .. pushed
            BY <2>7, <3>1 DEF FinishJob
        <3>3. task' \in [Workers -> 0 .. pushed] /\ pc' \in [Workers -> WorkerPc]
            BY <2>7 DEF FinishJob, NoTask
        <3> QED  BY <2>7, <3>2, <3>3 DEF FinishJob, NoTask
    <2>8. CASE Exit(w)            BY <2>8 DEF Exit
    <2>9. CASE Erase(w)           BY <2>9 DEF Erase
    <2>10. CASE SpuriousWake(w)   BY <2>10 DEF SpuriousWake
    <2>11. CASE TimeOut(w)        BY <2>11 DEF TimeOut
    <2> QED  BY <1>12, <2>1, <2>2, <2>3, <2>4, <2>5, <2>6, <2>7, <2>8, <2>9,
                <2>10, <2>11 DEF WorkerStep
<1>13. CASE UNCHANGED vars
    BY <1>13 DEF vars, Workers
<1> QED
    BY <1>1, <1>2, <1>3, <1>4, <1>5, <1>6, <1>7, <1>8, <1>9, <1>10, <1>11,
       <1>12, <1>13 DEF Next, OwnerStep, OwnerCall

\* Every variable keeps its type in every run of the pool.
THEOREM TypeCorrect == Spec => []TypeOK
<1>1. Typed => TypeOK
    BY DEF Typed
<1> QED  BY <1>1, TypeInit, TypeStep, PTL DEF Spec

-----------------------------------------------------------------------------
(***************************************************************************)
(* No lost wakeup.  The inductive invariant says why worker 0, a core      *)
(* thread, is always able to reach the queue: it leaves its loop only for  *)
(* a shutdown, and blocks only in a critical section that saw the queue    *)
(* empty.                                                                  *)
(***************************************************************************)

\* m_mtx is held exactly by the worker inside the critical section.
Mutex == \A w \in Workers : pc[w] \in Holding <=> mtx = w

\* A worker about to block saw the queue empty and still holds m_mtx.
SleepsOnEmpty == \A w \in Workers : pc[w] = "sleep" => m_jobs = <<>>

\* A core thread is never timed out, and it leaves only for a shutdown: a
\* graceful one finds the queue empty.
CoreStays ==
    \A w \in Workers : flag[w] = "core" =>
        /\ pc[w] # "timedout"
        /\ pc[w] = "decide" => WaitPredicate
        /\ pc[w] \in Ended => is_shutdown_now \/ (is_shutdown /\ m_jobs = <<>>)

\* The owner: no job before run() has ended, which leaves a core thread, and no
\* call after a shutdown.
OwnerOrder ==
    /\ owner \in {"run", "run_register"} => m_jobs = <<>>
    /\ thread_id = 0 => owner = "run" /\ thread_existing_num = 0
    /\ thread_id > 0 => flag[0] = "core"
    /\ is_shutdown \/ is_shutdown_now => owner \in {"closing", "closed"}

WakeupInv ==
    /\ Typed
    /\ Mutex
    /\ SleepsOnEmpty
    /\ CoreStays
    /\ OwnerOrder
    /\ NoLostWakeup

LEMMA WakeupInit == Init => WakeupInv
<1> SUFFICES ASSUME Init PROVE WakeupInv
    OBVIOUS
<1>1. Workers = {}
    BY DEF Init, Workers
<1>2. OwnerOrder /\ NoLostWakeup
    BY DEF Init, OwnerOrder, NoLostWakeup
<1> QED  BY <1>1, <1>2, TypeInit DEF WakeupInv, Mutex, SleepsOnEmpty, CoreStays

\* A new thread starts outside the critical section, and the first one is core.
LEMMA WakeupAddThread ==
    ASSUME WakeupInv, Typed', AddThread,
           owner \in {"run", "add"},
           owner' \in {"run_register", "push_register"},
           owner = "run" <=> owner' = "run_register",
           UNCHANGED <<mtx, poolVars, m_threads, thread_waiting_num, flags>>
    PROVE  WakeupInv'
<1> USE DEF WakeupInv, poolVars, flags
<1>1. /\ thread_id \in Nat /\ thread_id' = thread_id + 1
      /\ Workers' = Workers \union {thread_id} /\ thread_id \notin Workers
      /\ pc'[thread_id] = "top"
      /\ \A w \in Workers : pc'[w] = pc[w] /\ flag'[w] = flag[w]
    BY DEF AddThread, Workers, Typed, TypeOK
<1>2. mtx # thread_id
    BY <1>1 DEF Typed, TypeOK, NoOne
<1>3. Mutex' /\ SleepsOnEmpty'
    BY <1>1, <1>2 DEF Mutex, SleepsOnEmpty, Holding
<1>4. CoreStays'
    BY <1>1 DEF CoreStays, Ended, WaitPredicate
<1>5. OwnerOrder'
    <2>1. flag'[0] = "core"
        <3>1. CASE thread_id = 0
            BY <1>1, <3>1 DEF OwnerOrder, AddThread
        <3>2. CASE thread_id > 0
            BY <1>1, <3>2 DEF OwnerOrder, Workers
        <3> QED  BY <1>1, <3>1, <3>2
    <2> QED  BY <1>1, <2>1 DEF OwnerOrder
<1>6. NoLostWakeup'
    BY DEF NoLostWakeup
<1> QED  BY <1>3, <1>4, <1>5, <1>6

LEMMA WakeupOwner ==
    ASSUME WakeupInv, Typed', OwnerStep \/ OwnerCall
    PROVE  WakeupInv'
<1> USE DEF WakeupInv, poolVars, counters, flags, workers, Workers
<1>1. CASE RunAdd
    BY <1>1, WakeupAddThread DEF RunAdd
<1>2. CASE PushAdd
    BY <1>2, WakeupAddThread DEF PushAdd
<1>3. CASE RunRegister \/ ReadWaiting \/ ReadTotal \/ PushRegister
    BY <1>3 DEF RunRegister, ReadWaiting, ReadTotal, PushRegister, Mutex,
        SleepsOnEmpty, CoreStays, OwnerOrder, NoLostWakeup, WaitPredicate
<1>4. CASE RunDone
    <2>1. CoreNumWorkers > 0 /\ m_jobs = <<>> /\ thread_id > 0
        BY <1>4, PoolAssumption DEF RunDone, OwnerOrder, Typed, TypeOK
    <2>2. Mutex' /\ SleepsOnEmpty' /\ CoreStays' /\ OwnerOrder'
        BY <1>4, <2>1 DEF RunDone, Mutex, SleepsOnEmpty, CoreStays, OwnerOrder,
            WaitPredicate
    <2>3. NoLostWakeup'
        BY <1>4, <2>1 DEF RunDone, NoLostWakeup
    <2> QED  BY <2>2, <2>3
<1>5. CASE PushJob
    <2>1. /\ \A w \in Workers : pc[w] \notin Holding
          /\ m_jobs' # <<>> /\ owner' = "pushed"
          /\ ~is_shutdown /\ ~is_shutdown_now
        <3>1. \A w \in Workers : mtx # w
            BY <1>5 DEF PushJob, NoOne, Typed, TypeOK
        <3>2. m_jobs \in Seq(Nat) /\ pushed + 1 \in Nat
            BY <1>5, SeqMonotone DEF Typed, TypeOK
        <3> QED  BY <1>5, <3>1, <3>2 DEF PushJob, Mutex, OwnerOrder
    <2>2. Mutex' /\ SleepsOnEmpty' /\ OwnerOrder' /\ NoLostWakeup'
        BY <1>5, <2>1 DEF PushJob, Mutex, SleepsOnEmpty, OwnerOrder,
            NoLostWakeup, Holding
    <2>3. CoreStays'
        BY <1>5, <2>1 DEF PushJob, CoreStays, Holding, Ended
    <2> QED  BY <2>2, <2>3
<1>6. CASE NotifyOne
    <2>1. /\ \A w \in Workers : pc[w] # "blocked" => pc'[w] = pc[w]
          /\ \A w \in Workers : pc[w] = "blocked" => pc'[w] \in {"blocked", "woken"}
          /\ Blocked # {} => \E w \in Workers : pc'[w] = "woken"
        BY <1>6 DEF NotifyOne, Blocked, Typed, TypeOK
    <2>2. Mutex' /\ SleepsOnEmpty' /\ CoreStays'
        BY <1>6, <2>1 DEF NotifyOne, Mutex, SleepsOnEmpty, CoreStays, Holding,
            Ended, WaitPredicate
    <2>3. OwnerOrder'
        BY <1>6 DEF NotifyOne, OwnerOrder
    <2>4. NoLostWakeup'
        <3>1. CASE Blocked = {}
            <4>0. thread_id > 0
                BY <1>6 DEF NotifyOne, OwnerOrder, Typed, TypeOK
            <4>1. 0 \in Workers /\ flag[0] = "core"
                BY <4>0 DEF OwnerOrder, Typed, TypeOK
            <4>3. pc[0] # "blocked"
                BY <3>1, <4>1 DEF Blocked
            <4>2. pc[0] \notin Ended
                BY <1>6, <4>1 DEF NotifyOne, CoreStays, OwnerOrder
            <4> QED  BY <1>6, <2>1, <4>1, <4>2, <4>3 DEF NotifyOne, NoLostWakeup, Awake
        <3>2. CASE Blocked # {}
            BY <1>6, <2>1, <3>2 DEF NotifyOne, NoLostWakeup, Awake, Ended
        <3> QED  BY <3>1, <3>2
    <2> QED  BY <2>2, <2>3, <2>4
<1>7. CASE NotifyAll
    <2>1. /\ \A w \in Workers : pc[w] # "blocked" => pc'[w] = pc[w]
          /\ \A w \in Workers : pc[w] = "blocked" => pc'[w] = "woken"
        BY <1>7 DEF NotifyAll, Blocked
    <2>2. Mutex' /\ SleepsOnEmpty' /\ CoreStays'
        BY <1>7, <2>1 DEF NotifyAll, Mutex, SleepsOnEmpty, CoreStays, Holding,
            Ended, WaitPredicate
    <2>3. OwnerOrder'
        BY <1>7 DEF NotifyAll, OwnerOrder
    <2>4. NoLostWakeup'
        BY <1>7, <2>1 DEF NotifyAll, NoLostWakeup, Awake, Ended
    <2> QED  BY <2>2, <2>3, <2>4
<1>8. ASSUME NEW is_now \in BOOLEAN, ShutDown(is_now) PROVE WakeupInv'
    <2>1. /\ \A w \in Workers : flag[w] = "core" => pc[w] \notin Ended
          /\ WaitPredicate'
        BY <1>8 DEF ShutDown, CoreStays, OwnerOrder, WaitPredicate
    <2>2. Mutex' /\ SleepsOnEmpty' /\ OwnerOrder'
        BY <1>8 DEF ShutDown, Mutex, SleepsOnEmpty, OwnerOrder
    <2>3. CoreStays'
        BY <1>8, <2>1 DEF ShutDown, CoreStays
    <2>4. NoLostWakeup'
        BY <1>8 DEF ShutDown, NoLostWakeup, OwnerOrder, Awake
    <2> QED  BY <2>2, <2>3, <2>4
<1> QED
    BY <1>1, <1>2, <1>3, <1>4, <1>5, <1>6, <1>7, <1>8 DEF OwnerStep, OwnerCall

LEMMA WakeupWorker ==
    ASSUME WakeupInv, Typed', NEW w \in Workers,
           WorkerStep(w) \/ SpuriousWake(w) \/ TimeOut(w)
    PROVE  WakeupInv'
<1> USE DEF WakeupInv, poolVars, counters, flags, workers
\* No step of a worker touches the owner, the flags or another worker.
<1>1. /\ Workers' = Workers
      /\ thread_id' = thread_id /\ flag' = flag /\ owner' = owner
      /\ is_shutdown' = is_shutdown /\ is_shutdown_now' = is_shutdown_now
      /\ \A v \in Workers \ {w} : pc'[v] = pc[v]
    BY DEF WorkerStep, Lock, CheckPredicate, Sleep, Relock, End, TakeJob,
        FinishJob, Exit, Erase, SpuriousWake, TimeOut, Workers, Typed, TypeOK
<1>2. thread_id > 0 /\ NoOne \notin Workers /\ w # NoOne
    BY NoOneIsNoWorker DEF Workers, Typed, TypeOK
\* Only a worker inside the critical section changes the queue.
<1>3. m_jobs' # m_jobs => TakeJob(w)
    BY DEF WorkerStep, Lock, CheckPredicate, Sleep, Relock, End,
        FinishJob, Exit, Erase, SpuriousWake, TimeOut
<1>4. Mutex'
    <2>1. CASE Lock(w) \/ Relock(w)
        BY <1>1, <1>2, <2>1 DEF Lock, Relock, Mutex, Holding, Typed, TypeOK
    <2>2. CASE Sleep(w) \/ End(w) \/ TakeJob(w)
        <3>1. mtx' = NoOne /\ pc'[w] \notin Holding /\ pc[w] \in Holding
            BY <2>2 DEF Sleep, End, TakeJob, Holding, Typed, TypeOK
        <3>2. \A v \in Workers \ {w} : pc'[v] \notin Holding
            BY <1>1, <3>1 DEF Mutex
        <3> QED  BY <1>1, <1>2, <3>1, <3>2 DEF Mutex
    <2>3. CASE CheckPredicate(w) \/ FinishJob(w) \/ Exit(w) \/ Erase(w)
               \/ SpuriousWake(w) \/ TimeOut(w)
        BY <1>1, <2>3 DEF CheckPredicate, FinishJob, Exit, Erase, SpuriousWake,
            TimeOut, Mutex, Holding, Typed, TypeOK
    <2> QED  BY <2>1, <2>2, <2>3 DEF WorkerStep
<1>5. ASSUME NEW v \in Workers, pc'[v] = "sleep" PROVE m_jobs' = <<>>
    <2>1. CASE v = w
        BY <1>5, <2>1 DEF WorkerStep, Lock, CheckPredicate, Sleep, Relock, End,
            TakeJob, FinishJob, Exit, Erase, SpuriousWake, TimeOut,
            WaitPredicate, Typed, TypeOK
    <2>2. CASE v # w
        <3>1. pc[v] = "sleep" /\ ~TakeJob(w)
            BY <1>1, <1>5, <2>2 DEF TakeJob, Mutex, Holding
        <3> QED  BY <1>3, <3>1 DEF SleepsOnEmpty
    <2> QED  BY <2>1, <2>2
<1>6. ASSUME NEW v \in Workers, flag'[v] = "core"
      PROVE  /\ pc'[v] # "timedout"
             /\ pc'[v] = "decide" => WaitPredicate'
             /\ pc'[v] \in Ended =>
                   is_shutdown_now' \/ (is_shutdown' /\ m_jobs' = <<>>)
    <2>1. CASE v = w
        BY <1>1, <1>6, <2>1 DEF WorkerStep, Lock, CheckPredicate, Sleep, Relock,
            End, TakeJob, FinishJob, Exit, Erase, SpuriousWake, TimeOut, MustEnd,
            WaitPredicate, CoreStays, Ended, Typed, TypeOK
    <2>2. CASE v # w
        <3>1. pc[v] \in Ended => is_shutdown_now \/ (is_shutdown /\ m_jobs = <<>>)
            BY <1>1, <1>6 DEF CoreStays
        <3>2. TakeJob(w) => m_jobs # <<>> /\ pc[v] # "decide"
            BY <2>2 DEF TakeJob, MustEnd, WaitPredicate, Mutex, Holding
        <3> QED
            BY <1>1, <1>3, <1>6, <2>2, <3>1, <3>2 DEF CoreStays, WaitPredicate,
                TakeJob, MustEnd, Ended
    <2> QED  BY <2>1, <2>2
<1>7. OwnerOrder'
    <2>1. owner \in {"run", "run_register"} => ~TakeJob(w)
        BY DEF OwnerOrder, TakeJob, MustEnd, WaitPredicate
    <2> QED  BY <1>1, <1>2, <1>3, <2>1 DEF OwnerOrder
<1>8. NoLostWakeup'
    <2> SUFFICES ASSUME m_jobs' # <<>>, ~is_shutdown_now',
                        owner' \in {"idle", "closing", "closed"}
                 PROVE  \E v \in Workers : Awake(v)'
        BY <1>1 DEF NoLostWakeup
    <2>1. m_jobs # <<>>
        BY <1>3 DEF TakeJob, MustEnd, WaitPredicate
    <2>2. PICK v \in Workers : Awake(v)
        BY <1>1, <2>1 DEF NoLostWakeup
    <2>3. CASE v # w
        BY <1>1, <2>2, <2>3 DEF Awake
    <2>4. CASE v = w
        <3>1. ~Sleep(w) /\ ~End(w)
            BY <1>1, <2>1 DEF Sleep, End, MustEnd, SleepsOnEmpty, WaitPredicate
        <3>2. pc'[w] \notin Ended \union {"blocked"}
            BY <2>2, <2>4, <3>1 DEF WorkerStep, Lock, CheckPredicate, Relock,
                TakeJob, FinishJob, Exit, Erase, SpuriousWake, TimeOut, Awake,
                Ended, Typed, TypeOK
        <3> QED  BY <3>2 DEF Awake
    <2> QED  BY <2>3, <2>4
<1> QED  BY <1>1, <1>4, <1>5, <1>6, <1>7, <1>8 DEF SleepsOnEmpty, CoreStays

LEMMA WakeupStep == WakeupInv /\ [Next]_vars => WakeupInv'
<1> SUFFICES ASSUME WakeupInv, [Next]_vars PROVE WakeupInv'
    OBVIOUS
<1>1. Typed'
    BY TypeStep DEF WakeupInv
<1>2. CASE UNCHANGED vars
    BY <1>1, <1>2 DEF vars, WakeupInv, Mutex, SleepsOnEmpty, CoreStays,
        OwnerOrder, NoLostWakeup, WaitPredicate, Awake, Workers
<1> QED  BY <1>1, <1>2, WakeupOwner, WakeupWorker DEF Next

\* A queued job never waits on workers that all sleep, whatever the interleaving
\* of pushes, wakeups, timeouts and shutdown.
THEOREM WakeupNotLost == Spec => []NoLostWakeup
<1>1. WakeupInv => NoLostWakeup
    BY DEF WakeupInv
<1> QED  BY <1>1, WakeupInit, WakeupStep, PTL DEF Spec
-----------------------------------------------------------------------------
(***************************************************************************)
(* The number of threads.  Between the size check and the increment only   *)
(* workers move, and they only leave.                                      *)
(***************************************************************************)

BoundInv ==
    /\ Typed
    /\ PoolBounded
    /\ owner = "add" => thread_existing_num < MaxNumWorkers

LEMMA LiveFinite == ASSUME Typed PROVE IsFiniteSet(Live)
<1>1. IsFiniteSet(Workers)
    BY FS_Interval DEF Workers, Typed, TypeOK
<1> QED  BY <1>1, FS_Subset DEF Live

\* A thread is counted when it is created, below the maximum.
LEMMA BoundAddThread ==
    ASSUME BoundInv, AddThread, thread_existing_num < MaxNumWorkers
    PROVE  PoolBounded'
<1> USE DEF BoundInv
<1>1. Live' = Live \union {thread_id} /\ thread_id \notin Live
    BY DEF AddThread, Live, Workers, Typed, TypeOK
<1>2. Cardinality(Live') = Cardinality(Live) + 1
    BY <1>1, LiveFinite, FS_AddElement
<1> QED  BY <1>2, PoolAssumption DEF AddThread, PoolBounded, Typed, TypeOK

LEMMA BoundStep == BoundInv /\ [Next]_vars => BoundInv'
<1> SUFFICES ASSUME BoundInv, [Next]_vars PROVE BoundInv'
    OBVIOUS
<1>0. Typed'
    BY TypeStep DEF BoundInv
<1> USE DEF BoundInv, PoolBounded
<1>1. CASE RunAdd
    BY <1>0, <1>1, BoundAddThread, PoolAssumption DEF RunAdd, Typed, TypeOK
<1>2. CASE PushAdd
    BY <1>0, <1>2, BoundAddThread DEF PushAdd
<1>3. CASE \/ RunRegister \/ RunDone \/ PushJob \/ ReadWaiting \/ ReadTotal
           \/ PushRegister \/ NotifyOne \/ NotifyAll
           \/ \E is_now \in BOOLEAN : ShutDown(is_now)
           \/ UNCHANGED vars
    <2>1. Workers' = Workers /\ thread_existing_num' = thread_existing_num
          /\ (owner' = "add" => thread_existing_num < MaxNumWorkers)
        BY <1>3 DEF RunRegister, RunDone, PushJob, ReadWaiting, ReadTotal,
            PushRegister, NotifyOne, NotifyAll, ShutDown, workers, counters,
            vars, Workers
    <2>2. \A w \in Workers : pc'[w] = pc[w] \/ {pc[w], pc'[w]} = {"blocked", "woken"}
        BY <1>3 DEF RunRegister, RunDone, PushJob, ReadWaiting, ReadTotal,
            PushRegister, NotifyOne, NotifyAll, ShutDown, workers, counters,
            vars, Workers, Blocked, Typed, TypeOK
    <2>3. Live' = Live
        BY <2>1, <2>2 DEF Live
    <2> QED  BY <1>0, <2>1, <2>3
<1>4. ASSUME NEW w \in Workers, WorkerStep(w) \/ SpuriousWake(w) \/ TimeOut(w)
      PROVE  BoundInv'
    <2>1. CASE Exit(w)
        <3>1. /\ Live' = Live \ {w} /\ w \in Live
              /\ thread_existing_num' = thread_existing_num - 1 /\ owner' = owner
            BY <2>1 DEF Exit, Live, Workers, Typed, TypeOK
        <3>2. Cardinality(Live') = Cardinality(Live) - 1
            BY <3>1, LiveFinite, FS_RemoveElement
        <3> QED  BY <1>0, <3>1, <3>2, PoolAssumption DEF Typed, TypeOK
    <2>2. CASE ~Exit(w)
        <3>1. /\ Workers' = Workers /\ owner' = owner
              /\ thread_existing_num' = thread_existing_num
              /\ \A v \in Workers : v # w => pc'[v] = pc[v]
              /\ pc[w] \in {"erase", "dead"} <=> pc'[w] \in {"erase", "dead"}
            BY <1>4, <2>2 DEF WorkerStep, Lock, CheckPredicate, Sleep, Relock,
                End, TakeJob, FinishJob, Erase, SpuriousWake, TimeOut, Workers,
                counters, Typed, TypeOK
        <3>2. Live' = Live
            BY <3>1 DEF Live
        <3> QED  BY <1>0, <3>1, <3>2
    <2> QED  BY <2>1, <2>2
<1> QED
    BY <1>1, <1>2, <1>3, <1>4 DEF Next, OwnerStep, OwnerCall

\* The pool counts its threads and never has more than the maximum.
THEOREM PoolStaysBounded == Spec => []PoolBounded
<1>1. Init => BoundInv
    <2> SUFFICES ASSUME Init PROVE BoundInv
        OBVIOUS
    <2>1. Live = {}
        BY DEF Init, Live, Workers
    <2> QED  BY <2>1, TypeInit, FS_EmptySet, PoolAssumption
             DEF Init, BoundInv, PoolBounded
<1>2. BoundInv => PoolBounded
    BY DEF BoundInv
<1> QED  BY <1>1, <1>2, BoundStep, PTL DEF Spec
-----------------------------------------------------------------------------
(***************************************************************************)
(* What thread_waiting_num counts.                                         *)
(***************************************************************************)

Counted == {w \in Workers : pc[w] \in InWait \union Ended}

WaitingInv == Typed /\ WaitingCountsTheDead

LEMMA CountedFinite == ASSUME Typed PROVE IsFiniteSet(Counted)
<1>1. IsFiniteSet(Workers)
    BY FS_Interval DEF Workers, Typed, TypeOK
<1> QED  BY <1>1, FS_Subset DEF Counted

\* The owner neither counts nor moves a worker into the wait or out of it.
LEMMA WaitingOwner ==
    ASSUME WaitingInv, OwnerStep \/ OwnerCall \/ UNCHANGED vars
    PROVE  Counted' = Counted /\ thread_waiting_num' = thread_waiting_num
<1> USE DEF WaitingInv
<1>1. CASE RunAdd \/ PushAdd
    BY <1>1 DEF RunAdd, PushAdd, AddThread, Counted, InWait, Ended, Workers,
        Typed, TypeOK
<1>2. CASE ~(RunAdd \/ PushAdd)
    <2>1. Workers' = Workers /\ thread_waiting_num' = thread_waiting_num
        BY <1>2 DEF OwnerStep, OwnerCall, RunRegister, RunDone, PushJob,
            ReadWaiting, ReadTotal, PushRegister, NotifyOne, NotifyAll, ShutDown,
            workers, counters, vars, Workers
    <2>2. \A w \in Workers : pc'[w] = pc[w] \/ {pc[w], pc'[w]} = {"blocked", "woken"}
        BY <1>2 DEF OwnerStep, OwnerCall, RunRegister, RunDone, PushJob,
            ReadWaiting, ReadTotal, PushRegister, NotifyOne, NotifyAll, ShutDown,
            workers, counters, vars, Workers, Blocked, Typed, TypeOK
    <2> QED  BY <2>1, <2>2 DEF Counted, InWait
<1> QED  BY <1>1, <1>2

LEMMA WaitingWorker ==
    ASSUME WaitingInv, NEW w \in Workers,
           WorkerStep(w) \/ SpuriousWake(w) \/ TimeOut(w)
    PROVE  WaitingCountsTheDead'
<1> USE DEF WaitingInv
<1>1. Workers' = Workers /\ \A v \in Workers \ {w} : pc'[v] = pc[v]
    BY DEF WorkerStep, Lock, CheckPredicate, Sleep, Relock, End, TakeJob,
        FinishJob, Exit, Erase, SpuriousWake, TimeOut, Workers, counters, Typed, TypeOK
<1>2. thread_waiting_num = Cardinality(Counted)
    BY DEF WaitingCountsTheDead, Counted
<1> SUFFICES thread_waiting_num' = Cardinality(Counted')
    BY DEF WaitingCountsTheDead, Counted
<1>3. CASE Lock(w)
    <2>1. /\ Counted' = Counted \union {w} /\ w \notin Counted
          /\ thread_waiting_num' = thread_waiting_num + 1
        BY <1>1, <1>3 DEF Lock, Counted, InWait, Ended, Typed, TypeOK
    <2> QED  BY <1>2, <2>1, CountedFinite, FS_AddElement
<1>4. CASE TakeJob(w)
    <2>1. /\ Counted' = Counted \ {w} /\ w \in Counted
          /\ thread_waiting_num' = thread_waiting_num - 1
        BY <1>1, <1>4 DEF TakeJob, Counted, InWait, Ended, Typed, TypeOK
    <2> QED  BY <1>2, <2>1, CountedFinite, FS_RemoveElement
<1>5. CASE ~Lock(w) /\ ~TakeJob(w)
    <2>1. /\ thread_waiting_num' = thread_waiting_num
          /\ pc[w] \in InWait \union Ended <=> pc'[w] \in InWait \union Ended
        BY <1>5 DEF WorkerStep, CheckPredicate, Sleep, Relock, End, FinishJob, Exit,
            Erase, SpuriousWake, TimeOut, counters, InWait, Ended, Typed, TypeOK
    <2>2. Counted' = Counted
        BY <1>1, <2>1 DEF Counted
    <2> QED  BY <1>2, <2>1, <2>2
<1> QED  BY <1>3, <1>4, <1>5

\* getWaitingThread counts, besides the workers that wait, every worker that was
\* ever reclaimed: after one reclaim pushJob never finds it 0 again.
THEOREM WaitingAlwaysCountsTheDead == Spec => []WaitingCountsTheDead
<1>1. Init => WaitingInv
    <2> SUFFICES ASSUME Init PROVE WaitingInv
        OBVIOUS
    <2>1. Counted = {}
        BY DEF Init, Counted, Workers
    <2> QED  BY <2>1, TypeInit, FS_EmptySet
             DEF Init, WaitingInv, WaitingCountsTheDead, Counted
<1>2. WaitingInv /\ [Next]_vars => WaitingInv'
    <2> SUFFICES ASSUME WaitingInv, [Next]_vars PROVE WaitingInv'
        OBVIOUS
    <2>1. Typed'
        BY TypeStep DEF WaitingInv
    <2>2. CASE OwnerStep \/ OwnerCall \/ UNCHANGED vars
        BY <2>1, <2>2, WaitingOwner DEF WaitingInv, WaitingCountsTheDead, Counted
    <2> QED  BY <2>1, <2>2, WaitingWorker DEF Next, WaitingInv
<1>3. WaitingInv => WaitingCountsTheDead
    BY DEF WaitingInv
<1> QED  BY <1>1, <1>2, <1>3, PTL DEF Spec
-----------------------------------------------------------------------------
(***************************************************************************)
(* The core threads.  run() makes them all before the first push, and from *)
(* then on AddThread finds enough threads to make cache threads only,      *)
(* because no core thread leaves before a shutdown.                        *)
(***************************************************************************)

Core == {w \in Workers : flag[w] = "core"}

CoreCount ==
    IF owner \in {"run", "run_register"}
    THEN /\ Core = Workers
         /\ thread_existing_num = thread_id
         /\ thread_id <= CoreNumWorkers
    ELSE Cardinality(Core) = CoreNumWorkers

CoreInv == WakeupInv /\ BoundInv /\ CoreCount

LEMMA CoreAddThread ==
    ASSUME CoreInv, RunAdd \/ PushAdd
    PROVE  CoreCount'
<1> USE DEF CoreInv, WakeupInv
<1>1. /\ thread_id \in Nat /\ thread_existing_num \in Int
      /\ Workers' = Workers \union {thread_id} /\ thread_id \notin Workers
      /\ thread_id' = thread_id + 1
      /\ thread_existing_num' = thread_existing_num + 1
      /\ \A w \in Workers : flag'[w] = flag[w]
      /\ flag'[thread_id] = IF thread_existing_num < CoreNumWorkers
                            THEN "core" ELSE "cache"
    BY DEF RunAdd, PushAdd, AddThread, Workers, Typed, TypeOK
<1>2. CASE RunAdd
    <2>1. Core = Workers /\ thread_existing_num = thread_id
        BY <1>2 DEF RunAdd, CoreCount
    <2>2. Core' = Workers'
        BY <1>1, <1>2, <2>1 DEF RunAdd, Core
    <2> QED  BY <1>1, <1>2, <2>1, <2>2 DEF RunAdd, CoreCount
<1>3. CASE PushAdd
    <2>1. owner = "add" /\ owner' = "push_register" /\ ~is_shutdown /\ ~is_shutdown_now
        BY <1>3 DEF PushAdd, OwnerOrder
    <2>2. Cardinality(Core) = CoreNumWorkers
        BY <2>1 DEF CoreCount
    <2>3. Core \subseteq Live
        BY <2>1 DEF Core, Live, CoreStays, Ended
    <2>4. Cardinality(Core) <= Cardinality(Live)
        BY <2>3, LiveFinite, FS_Subset
    <2>5. thread_existing_num >= CoreNumWorkers
        BY <2>2, <2>4, <1>1 DEF BoundInv, PoolBounded
    <2>6. Core' = Core
        BY <1>1, <2>5 DEF Core
    <2> QED  BY <2>1, <2>2, <2>6 DEF CoreCount
<1> QED  BY <1>2, <1>3

LEMMA CoreOthers ==
    ASSUME CoreInv, [Next]_vars, ~RunAdd, ~PushAdd
    PROVE  CoreCount'
<1> USE DEF CoreInv, WakeupInv
<1>1. Workers' = Workers /\ flag' = flag /\ thread_id' = thread_id
    BY DEF Next, OwnerStep, OwnerCall, RunRegister, RunDone, PushJob, ReadWaiting,
        ReadTotal, PushRegister, NotifyOne, NotifyAll, ShutDown, WorkerStep, Lock,
        CheckPredicate, Sleep, Relock, End, TakeJob, FinishJob, Exit, Erase,
        SpuriousWake, TimeOut, workers, counters, vars, Workers
<1>2. Core' = Core
    BY <1>1 DEF Core
<1>3. CASE RunDone
    <2>1. Core = 0 .. thread_id - 1 /\ thread_id = CoreNumWorkers /\ thread_id \in Nat
        BY <1>3, PoolAssumption DEF RunDone, CoreCount, Workers, Typed, TypeOK
    <2>2. Cardinality(Core) = CoreNumWorkers
        BY <2>1, PoolAssumption, FS_Interval
    <2> QED  BY <1>2, <1>3, <2>2 DEF RunDone, CoreCount
<1>4. CASE ~RunDone
    <2>1. owner' \in {"run", "run_register"} <=> owner \in {"run", "run_register"}
        BY <1>4 DEF Next, OwnerStep, OwnerCall, RunRegister, PushJob, ReadWaiting,
            ReadTotal, PushRegister, NotifyOne, NotifyAll, ShutDown, WorkerStep,
            Lock, CheckPredicate, Sleep, Relock, End, TakeJob, FinishJob, Exit,
            Erase, SpuriousWake, TimeOut, vars
    <2>2. CASE owner \notin {"run", "run_register"}
        BY <1>2, <2>1, <2>2 DEF CoreCount
    <2>3. CASE owner \in {"run", "run_register"}
        <3>1. \A w \in Workers : ~Exit(w)
            BY <2>3 DEF CoreCount, Core, CoreStays, OwnerOrder, Exit, Ended
        <3>2. thread_existing_num' = thread_existing_num
            BY <1>4, <2>3, <3>1 DEF Next, OwnerStep, OwnerCall, RunRegister, PushJob,
                ReadWaiting, ReadTotal, PushRegister, NotifyOne, NotifyAll, ShutDown,
                WorkerStep, Lock, CheckPredicate, Sleep, Relock, End, TakeJob,
                FinishJob, Erase, SpuriousWake, TimeOut, counters, vars
        <3> QED  BY <1>1, <1>2, <2>1, <2>3, <3>2 DEF CoreCount
    <2> QED  BY <2>2, <2>3
<1> QED  BY <1>3, <1>4

LEMMA CoreAlways == Spec => []CoreInv
<1>1. Init => CoreInv
    <2> SUFFICES ASSUME Init PROVE CoreInv
        OBVIOUS
    <2>1. Workers = {} /\ Live = {}
        BY DEF Init, Workers, Live
    <2>2. BoundInv
        BY <2>1, TypeInit, FS_EmptySet, PoolAssumption DEF Init, BoundInv, PoolBounded
    <2>3. CoreCount
        BY <2>1, PoolAssumption DEF Init, CoreCount, Core
    <2> QED  BY <2>2, <2>3, WakeupInit DEF CoreInv
<1>2. CoreInv /\ [Next]_vars => CoreInv'
    BY WakeupStep, BoundStep, CoreAddThread, CoreOthers DEF CoreInv
<1> QED  BY <1>1, <1>2, PTL DEF Spec

\* From the end of run() until a shutdown the pool keeps exactly the core threads
\* that run() made, whatever is pushed, added and reclaimed.
THEOREM CoreStaysWhole == Spec => []CoreNeverReclaimed
<1>1. CoreInv => CoreNeverReclaimed
    <2> SUFFICES ASSUME CoreInv, owner \notin {"run", "run_register"},
                        ~is_shutdown, ~is_shutdown_now
                 PROVE  Cardinality({w \in Workers : flag[w] = "core" /\ pc[w] \notin Ended})
                          = CoreNumWorkers
        BY DEF CoreNeverReclaimed
    <2>1. {w \in Workers : flag[w] = "core" /\ pc[w] \notin Ended} = Core
        BY DEF Core, CoreInv, WakeupInv, CoreStays
    <2> QED  BY <2>1 DEF CoreInv, CoreCount
<1> QED  BY <1>1, CoreAlways, PTL
-----------------------------------------------------------------------------
(***************************************************************************)
(* The jobs.  Those that left the queue are the first ones pushed; each is *)
(* in the hands of one running worker, or done.                            *)
(***************************************************************************)

Started == pushed - Len(m_jobs)

Queued == \A i \in 1 .. Len(m_jobs) : m_jobs[i] = Started + i

Held ==
    \A w \in Workers :
        /\ task[w] # NoTask => /\ pc[w] = "running"
                               /\ task[w] \in 1 .. Started
                               /\ task[w] \notin done
        /\ \A v \in Workers : task[v] = task[w] /\ task[w] # NoTask => v = w

Kept ==
    /\ done \subseteq 1 .. Started
    /\ \A n \in 1 .. Started : n \in done \/ \E w \in Workers : task[w] = n

JobsInv == Typed /\ Queued /\ Held /\ Kept

LEMMA StartedType == ASSUME Typed, Queued PROVE Started \in Nat
<1>1. Len(m_jobs) \in Nat /\ pushed \in Nat
    BY DEF Typed, TypeOK
<1>2. CASE Len(m_jobs) = 0
    BY <1>1, <1>2 DEF Started
<1>3. CASE Len(m_jobs) > 0
    <2>1. m_jobs[1] = Started + 1 /\ m_jobs[1] \in 1 .. pushed
        BY <1>1, <1>3 DEF Queued, Typed, TypeOK
    <2> QED  BY <1>1, <2>1 DEF Started
<1> QED  BY <1>1, <1>2, <1>3

LEMMA JobsPush == ASSUME JobsInv, PushJob PROVE Queued' /\ Held' /\ Kept'
<1> USE DEF JobsInv
<1>1. pushed \in Nat /\ m_jobs \in Seq(Nat)
    <2>1. pushed \in Nat /\ 1 .. pushed \subseteq Nat
        BY DEF Typed, TypeOK
    <2> QED  BY <2>1, SeqMonotone DEF Typed, TypeOK
<1>2. /\ pushed' = pushed + 1 /\ m_jobs' = Append(m_jobs, pushed + 1)
      /\ UNCHANGED <<done, pc, task>> /\ Workers' = Workers
    BY DEF PushJob, workers, counters, Workers
<1>3. Started' = Started /\ Len(m_jobs') = Len(m_jobs) + 1
    BY <1>1, <1>2 DEF Started
<1>4. Queued'
    <2> SUFFICES ASSUME NEW i \in 1 .. Len(m_jobs) + 1
                 PROVE  m_jobs'[i] = Started + i
        BY <1>3 DEF Queued
    <2>1. CASE i <= Len(m_jobs)
        BY <1>1, <1>2, <2>1 DEF Queued
    <2>2. CASE i = Len(m_jobs) + 1
        BY <1>1, <1>2, <2>2 DEF Started
    <2> QED  BY <1>1, <2>1, <2>2
<1> QED  BY <1>2, <1>3, <1>4 DEF Held, Kept

LEMMA JobsTake ==
    ASSUME JobsInv, NEW w \in Workers, TakeJob(w)
    PROVE  Queued' /\ Held' /\ Kept'
<1> USE DEF JobsInv
<1>1. /\ m_jobs # <<>> /\ m_jobs \in Seq(Nat) /\ pushed \in Nat /\ Started \in Nat
    <2>1. pushed \in Nat /\ 1 .. pushed \subseteq Nat
        BY DEF Typed, TypeOK
    <2> QED
        BY <2>1, SeqMonotone, StartedType DEF Typed, TypeOK, TakeJob, MustEnd, WaitPredicate
<1>2. /\ m_jobs' = Tail(m_jobs) /\ UNCHANGED <<pushed, done>> /\ Workers' = Workers
      /\ task' = [task EXCEPT ![w] = Head(m_jobs)]
      /\ pc' = [pc EXCEPT ![w] = "running"]
      /\ pc[w] = "decide"
    BY DEF TakeJob, Workers
<1>3. Len(m_jobs) \in Nat \ {0} /\ Len(m_jobs') = Len(m_jobs) - 1
      /\ \A i \in 1 .. Len(m_jobs) - 1 : m_jobs'[i] = m_jobs[i + 1]
    BY <1>1, <1>2
<1>4. Started' = Started + 1
    BY <1>1, <1>2, <1>3 DEF Started
<1>5. Head(m_jobs) = Started + 1
    BY <1>1, <1>3 DEF Queued
<1>6. /\ task'[w] = Started + 1 /\ pc'[w] = "running" /\ task[w] = NoTask
      /\ \A v \in Workers \ {w} : task'[v] = task[v] /\ pc'[v] = pc[v]
    BY <1>2, <1>5 DEF Held, Typed, TypeOK
<1>7. Queued'
    BY <1>1, <1>3, <1>4 DEF Queued
<1>8. Held'
    BY <1>1, <1>2, <1>4, <1>6 DEF Held, Kept, NoTask
<1>9. Kept'
    <2> SUFFICES ASSUME NEW n \in 1 .. Started + 1
                 PROVE  n \in done \/ \E v \in Workers : task'[v] = n
        BY <1>1, <1>2, <1>4 DEF Kept
    <2>1. CASE n = Started + 1
        BY <1>6, <2>1
    <2>2. CASE n # Started + 1
        BY <1>1, <1>6, <2>2 DEF Kept, NoTask
    <2> QED  BY <2>1, <2>2
<1> QED  BY <1>7, <1>8, <1>9

LEMMA JobsFinish ==
    ASSUME JobsInv, NEW w \in Workers, FinishJob(w)
    PROVE  Queued' /\ Held' /\ Kept'
<1> USE DEF JobsInv
<1>1. /\ UNCHANGED <<m_jobs, pushed>> /\ Workers' = Workers
      /\ done' = done \union {task[w]}
      /\ task' = [task EXCEPT ![w] = NoTask]
      /\ pc' = [pc EXCEPT ![w] = "top"]
      /\ pc[w] = "running" /\ task[w] # NoTask
    BY DEF FinishJob, counters, Workers, Typed
<1>2. Queued' /\ Started' = Started
    BY <1>1 DEF Queued, Started
<1>3. /\ task'[w] = NoTask
      /\ \A v \in Workers \ {w} : task'[v] = task[v] /\ pc'[v] = pc[v]
    BY <1>1 DEF Typed, TypeOK
<1>4. Held'
    BY <1>1, <1>2, <1>3 DEF Held
<1>5. Kept'
    <2>1. done' \subseteq 1 .. Started
        BY <1>1 DEF Held, Kept
    <2>2. ASSUME NEW n \in 1 .. Started PROVE n \in done' \/ \E v \in Workers : task'[v] = n
        BY <1>1, <1>3 DEF Kept
    <2> QED  BY <1>1, <1>2, <2>1, <2>2 DEF Kept
<1> QED  BY <1>2, <1>4, <1>5

\* No other step touches the jobs or a worker that runs one.
LEMMA JobsOthers ==
    ASSUME JobsInv, [Next]_vars, ~PushJob,
           \A w \in Workers : ~TakeJob(w) /\ ~FinishJob(w)
    PROVE  Queued' /\ Held' /\ Kept'
<1> USE DEF JobsInv
<1>1. UNCHANGED <<m_jobs, pushed, done>>
    BY DEF Next, OwnerStep, OwnerCall, RunAdd, RunRegister, RunDone, ReadWaiting,
        ReadTotal, PushAdd, PushRegister, NotifyOne, NotifyAll, ShutDown, WorkerStep,
        Lock, CheckPredicate, Sleep, Relock, End, Exit, Erase, SpuriousWake,
        TimeOut, poolVars, vars
<1>2. Queued' /\ Started' = Started
    BY <1>1 DEF Queued, Started
<1>3. CASE RunAdd \/ PushAdd
    <2>1. /\ Workers' = Workers \union {thread_id} /\ thread_id \notin Workers
          /\ task'[thread_id] = NoTask
          /\ \A w \in Workers : task'[w] = task[w] /\ pc'[w] = pc[w]
        BY <1>3 DEF RunAdd, PushAdd, AddThread, Workers, Typed, TypeOK
    <2>2. Held'
        BY <1>1, <1>2, <2>1 DEF Held
    <2>3. Kept'
        BY <1>1, <1>2, <2>1 DEF Kept
    <2> QED  BY <1>2, <2>2, <2>3
<1>4. CASE ~RunAdd /\ ~PushAdd
    <2>1. Workers' = Workers /\ task' = task
        BY <1>4 DEF Next, OwnerStep, OwnerCall, RunRegister, RunDone, ReadWaiting,
            ReadTotal, PushRegister, NotifyOne, NotifyAll, ShutDown, WorkerStep,
            Lock, CheckPredicate, Sleep, Relock, End, Exit, Erase, SpuriousWake,
            TimeOut, workers, counters, vars, Workers
    <2>2. \A w \in Workers : pc[w] = "running" => pc'[w] = "running"
        BY <1>4 DEF Next, OwnerStep, OwnerCall, RunRegister, RunDone, ReadWaiting,
            ReadTotal, PushRegister, NotifyOne, NotifyAll, ShutDown, WorkerStep,
            Lock, CheckPredicate, Sleep, Relock, End, Exit, Erase, SpuriousWake,
            TimeOut, workers, vars, Workers, Blocked, Typed, TypeOK
    <2> QED  BY <1>1, <1>2, <2>1, <2>2 DEF Held, Kept
<1> QED  BY <1>3, <1>4

LEMMA JobsAlways == Spec => []JobsInv
<1>1. Init => JobsInv
    <2> SUFFICES ASSUME Init PROVE JobsInv
        OBVIOUS
    <2>0. Len(m_jobs) = 0
        BY DEF Init
    <2>1. Workers = {} /\ Started = 0
        <3>1. pushed = 0 /\ thread_id = 0
            BY DEF Init
        <3> QED  BY <2>0, <3>1 DEF Workers, Started
    <2> QED  BY <2>0, <2>1, TypeInit DEF Init, JobsInv, Queued, Held, Kept
<1>2. JobsInv /\ [Next]_vars => JobsInv'
    <2> SUFFICES ASSUME JobsInv, [Next]_vars PROVE JobsInv'
        OBVIOUS
    <2>1. Typed'
        BY TypeStep DEF JobsInv
    <2> QED  BY <2>1, JobsPush, JobsTake, JobsFinish, JobsOthers DEF JobsInv
<1> QED  BY <1>1, <1>2, PTL DEF Spec

\* The queue loses no job and hands none out twice, whatever the interleaving of
\* pushes and workers.
THEOREM JobsStayConserved == Spec => []JobsConserved
<1>1. JobsInv => JobsConserved
    <2> SUFFICES ASSUME JobsInv PROVE JobsConserved
        OBVIOUS
    <2> USE DEF JobsInv
    <2> DEFINE holders(n) == {w \in Workers : task[w] = n}
    <2>1. Started \in Nat /\ pushed \in Nat /\ Len(m_jobs) \in Nat
        BY StartedType DEF Typed, TypeOK
    <2>2. m_jobs = [i \in 1 .. Len(m_jobs) |-> Started + i]
        BY DEF Queued, Typed, TypeOK
    <2>3. ASSUME NEW n \in 1 .. Started
          PROVE  IF n \in done THEN holders(n) = {} ELSE Cardinality(holders(n)) = 1
        <3>1. CASE n \in done
            BY <2>1, <3>1 DEF Held, NoTask
        <3>2. CASE n \notin done
            <4>1. PICK w \in Workers : task[w] = n
                BY <3>2 DEF Kept
            <4>2. holders(n) = {w}
                BY <2>1, <4>1 DEF Held, NoTask
            <4> QED  BY <3>2, <4>2, FS_Singleton
        <3> QED  BY <3>1, <3>2
    <2>4. ASSUME NEW n \in Started + 1 .. pushed PROVE n \notin done /\ holders(n) = {}
        BY <2>1 DEF Held, Kept, NoTask
    <2> QED  BY <2>2, <2>3, <2>4 DEF JobsConserved, Started
<1> QED  BY <1>1, JobsAlways, PTL

\* A pool is shut down once.
OneShutDown == ~(is_shutdown /\ is_shutdown_now)

LEMMA OneShutDownAlways == Spec => []OneShutDown
<1>1. Init => WakeupInv /\ OneShutDown
    BY WakeupInit DEF Init, OneShutDown
<1>2. WakeupInv /\ OneShutDown /\ [Next]_vars => (WakeupInv /\ OneShutDown)'
    <2> SUFFICES ASSUME WakeupInv, OneShutDown, [Next]_vars
                 PROVE  WakeupInv' /\ OneShutDown'
        OBVIOUS
    <2>1. ASSUME NEW is_now \in BOOLEAN, ShutDown(is_now) PROVE OneShutDown'
        BY <2>1 DEF ShutDown, OneShutDown, WakeupInv, OwnerOrder
    <2>2. ASSUME \A is_now \in BOOLEAN : ~ShutDown(is_now) PROVE OneShutDown'
        <3>1. CASE OwnerStep \/ PushJob \/ UNCHANGED vars
            BY <3>1 DEF OwnerStep, RunAdd, RunRegister, RunDone, PushJob,
                ReadWaiting, ReadTotal, PushAdd, PushRegister, NotifyOne, NotifyAll,
                flags, vars, OneShutDown
        <3>2. ASSUME NEW w \in Workers, WorkerStep(w) \/ SpuriousWake(w) \/ TimeOut(w)
              PROVE  OneShutDown'
            BY <3>2 DEF WorkerStep, Lock, CheckPredicate, Sleep, Relock, End, TakeJob,
                FinishJob, Exit, Erase, SpuriousWake, TimeOut, flags, OneShutDown
        <3> QED  BY <2>2, <3>1, <3>2 DEF Next, OwnerCall
    <2>3. OneShutDown'
        BY <2>1, <2>2
    <2>4. WakeupInv'
        BY WakeupStep
    <2> QED  BY <2>3, <2>4
<1> QED  BY <1>1, <1>2, PTL DEF Spec

\* A graceful shutdown leaves no job behind: the last worker out saw the queue empty
\* and nobody holds a job any more.
THEOREM ShutDownAlwaysDrains == Spec => []ShutDownDrains
<1>1. WakeupInv /\ JobsInv /\ OneShutDown => ShutDownDrains
    <2> SUFFICES ASSUME WakeupInv, JobsInv, OneShutDown,
                        is_shutdown, \A w \in Workers : pc[w] \in Ended
                 PROVE  done = 1 .. pushed
        BY DEF ShutDownDrains
    <2>1. thread_id \in Nat \ {0} /\ 0 \in Workers /\ flag[0] = "core"
        BY DEF WakeupInv, OwnerOrder, Typed, TypeOK, Workers
    <2>2. m_jobs = <<>>
        BY <2>1 DEF WakeupInv, CoreStays, OneShutDown
    <2>3. Started = pushed
        BY <2>2 DEF Started, JobsInv, Typed, TypeOK
    <2>4. \A w \in Workers : task[w] = NoTask
        BY DEF JobsInv, Held, Ended
    <2>5. done \subseteq 1 .. pushed /\ 1 .. pushed \subseteq done
        BY <2>3, <2>4 DEF JobsInv, Kept, NoTask
    <2> QED  BY <2>5
<1>2. Spec => []WakeupInv
    BY WakeupInit, WakeupStep, PTL DEF Spec
<1> QED  BY <1>1, <1>2, JobsAlways, OneShutDownAlways, PTL
=============================================================================
