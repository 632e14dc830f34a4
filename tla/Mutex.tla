-------------------------------- MODULE Mutex --------------------------------
(***************************************************************************)
(* One mutex_t (kernel/mutex.c) and the threads that use it.  A call is    *)
(* atomic between taking thread_lock and either releasing it or being      *)
(* switched out in wait_queue_block(); pc[t] says where thread t is.  The  *)
(* history variable late remembers whose waits on this mutex timed out.    *)
(***************************************************************************)
EXTENDS WaitQueue, FiniteSets

CONSTANTS
    mwait,      \* &m->wait
    Timeouts    \* the timeouts callers pass to mutex_acquire_timeout()

ASSUME MutexAssumption ==
    /\ IsFiniteSet(Thread)
    /\ mwait \in Queue
    /\ Timeouts \subseteq Timeout

VARIABLES
    wq,         \* the wait queue and the threads' blocking state
    m,          \* the mutex_t: magic, count, holder
    pc,         \* out, blocked (in wait_queue_block), holds, destroying
    rc,         \* ret of the thread's last mutex_acquire_timeout()
    late        \* history: the threads timed out in the queue since mutex_init()

vars == <<wq, m, pc, rc, late>>

MUTEX_MAGIC == 1836414072

\* The mutex is initialised and not destroyed.
Live == m.magic = MUTEX_MAGIC

TypeOK ==
    /\ wq \in WaitState
    /\ m \in [magic : {MUTEX_MAGIC, 0}, count : Int, holder : Thread \union {NULL}]
    /\ pc \in [Thread -> {"out", "blocked", "holds", "destroying"}]
    /\ rc \in [Thread -> Status]
    /\ late \in SUBSET Thread

MUTEX_INITIAL_VALUE == [magic |-> MUTEX_MAGIC, count |-> 0, holder |-> NULL]

Init ==
    /\ wq = WaitInit
    /\ m = MUTEX_INITIAL_VALUE
    /\ pc = [t \in Thread |-> "out"]
    /\ rc = [t \in Thread |-> "NO_ERROR"]
    /\ late = {}

-----------------------------------------------------------------------------
\* mutex_acquire_timeout() when ++m->count is at most limit: no block.
AcquireUpTo(t, limit) ==
    /\ pc[t] = "out" /\ Live
    /\ m.count + 1 <= limit
    /\ m' = [magic |-> m.magic, count |-> m.count + 1, holder |-> t]
    /\ pc' = [pc EXCEPT ![t] = "holds"]
    /\ rc' = [rc EXCEPT ![t] = "NO_ERROR"]
    /\ UNCHANGED <<wq, late>>

\* Mutant: a second thread is let in.
AcquireFree_off_by_one(t) == AcquireUpTo(t, 2)

\* The mutex was free: ++m->count is 1.
AcquireFree(t) == AcquireUpTo(t, 1)

\* ... when it is not and the timeout is zero: wait_queue_block() returns at
\* once and the count is backed out under the same lock.
AcquireTry(t) ==
    /\ pc[t] = "out" /\ Live
    /\ m.count + 1 > 1
    /\ "ZERO" \in Timeouts
    /\ rc' = [rc EXCEPT ![t] = "ERR_TIMED_OUT"]
    /\ UNCHANGED <<wq, m, pc, late>>

\* ... when it is not and the caller may wait.
AcquireBlock(t, timeout) ==
    /\ pc[t] = "out" /\ Live
    /\ m.count + 1 > 1
    /\ timeout # "ZERO"
    /\ m' = [m EXCEPT !.count = @ + 1]
    /\ wq' = wait_queue_block(wq, mwait, t, timeout)
    /\ pc' = [pc EXCEPT ![t] = "blocked"]
    /\ rc' = [rc EXCEPT ![t] = "NO_ERROR"]
    /\ UNCHANGED late

\* The caller is switched in again inside mutex_acquire_timeout(): it owns the
\* mutex, or backs its count out (timeout), or just leaves (other errors).
ResumeOwner(t) ==
    /\ wq.ret[t] = "NO_ERROR"
    /\ m' = [m EXCEPT !.holder = t]
    /\ pc' = [pc EXCEPT ![t] = "holds"]

\* Mutant: the count is not backed out after a timeout.
ResumeTimedOutKeepsCount(t) ==
    /\ wq.ret[t] = "ERR_TIMED_OUT"
    /\ pc' = [pc EXCEPT ![t] = "out"]
    /\ UNCHANGED m

ResumeTimedOut(t) ==
    /\ wq.ret[t] = "ERR_TIMED_OUT"
    /\ m' = [m EXCEPT !.count = @ - 1]
    /\ pc' = [pc EXCEPT ![t] = "out"]

ResumeFailed(t) ==
    /\ wq.ret[t] \notin {"NO_ERROR", "ERR_TIMED_OUT"}
    /\ pc' = [pc EXCEPT ![t] = "out"]
    /\ UNCHANGED m

AcquireResume(t) ==
    /\ pc[t] = "blocked" /\ wq.state[t] = "READY"
    /\ wq' = wait_queue_block_return(wq, t)
    /\ rc' = [rc EXCEPT ![t] = wq.ret[t]]
    /\ ResumeOwner(t) \/ ResumeTimedOut(t) \/ ResumeFailed(t)
    /\ UNCHANGED late

\* mutex_release(); only the holder calls it (debug builds panic otherwise).
ReleaseTo(t, holder, w) ==
    /\ pc[t] = "holds" /\ Live /\ m.holder = t
    /\ m' = [magic |-> m.magic, count |-> m.count - 1, holder |-> holder]
    /\ wq' = w
    /\ pc' = [pc EXCEPT ![t] = "out"]
    /\ UNCHANGED <<rc, late>>

\* Mutant: every waiter is woken as if it were the next owner.
mutex_release_wakes_all(t) ==
    ReleaseTo(t, NULL, IF m.count - 1 >= 1
                       THEN wait_queue_wake_all(wq, mwait, "NO_ERROR") ELSE wq)

\* Mutant: the last waiter is not woken.
mutex_release_off_by_one(t) ==
    ReleaseTo(t, NULL, IF m.count - 1 > 1
                       THEN wait_queue_wake_one(wq, mwait, "NO_ERROR") ELSE wq)

mutex_release(t) ==
    ReleaseTo(t, NULL, IF m.count - 1 >= 1
                       THEN wait_queue_wake_one(wq, mwait, "NO_ERROR") ELSE wq)

\* Callers destroy a mutex they hold, or one that nobody is using (wait.h: no
\* other thread may operate on the queue).  When waiters are woken the
\* destroyer is switched out before wait->magic is cleared.
DestroyWaking(t, woken) ==
    /\ Live
    /\ m.holder = t \/ (m.holder = NULL /\ \A u \in Thread : pc[u] = "out")
    /\ m' = [magic |-> 0, count |-> 0, holder |-> m.holder]
    /\ \/ /\ wq.list[mwait] # << >>
          /\ wq' = woken
          /\ pc' = [pc EXCEPT ![t] = "destroying"]
       \/ /\ wq.list[mwait] = << >>
          /\ wq' = [woken EXCEPT !.live = @ \ {mwait}]
          /\ pc' = [pc EXCEPT ![t] = "out"]
    /\ UNCHANGED <<rc, late>>

mutex_destroy(t) ==
    DestroyWaking(t, wait_queue_wake_all(wq, mwait, "ERR_OBJECT_DESTROYED"))

\* wait_queue_destroy() resumes after the reschedule of wait_queue_wake_all().
DestroyResume(t) ==
    /\ pc[t] = "destroying"
    /\ wq' = [wq EXCEPT !.live = @ \ {mwait}]
    /\ pc' = [pc EXCEPT ![t] = "out"]
    /\ UNCHANGED <<m, rc, late>>

\* mutex_init() of the same storage, once every call on the old mutex returned.
mutex_init ==
    /\ ~Live /\ \A t \in Thread : pc[t] = "out"
    /\ m' = MUTEX_INITIAL_VALUE
    /\ wq' = wait_queue_init(wq, mwait)
    /\ late' = {}
    /\ UNCHANGED <<pc, rc>>

\* The timer armed by wait_queue_block() fires in interrupt context.
TimerFires(t) ==
    /\ t \in wq.timers
    /\ wq' = wait_queue_timeout_handler(wq, t)
    /\ late' = IF wq.state[t] = "BLOCKED" THEN late \union {t} ELSE late
    /\ UNCHANGED <<m, pc, rc>>

Next ==
    \/ \E t \in Thread :
         \/ AcquireFree(t) \/ AcquireTry(t) \/ AcquireResume(t)
         \/ \E timeout \in Timeouts : AcquireBlock(t, timeout)
         \/ mutex_release(t)
         \/ mutex_destroy(t) \/ DestroyResume(t)
         \/ TimerFires(t)
    \/ mutex_init

Spec == Init /\ [][Next]_vars
-----------------------------------------------------------------------------
\* The mutex was handed to thread t, which has not run since.
Granted(t) ==
    pc[t] = "blocked" /\ wq.state[t] = "READY" /\ wq.ret[t] = "NO_ERROR"

Owns(t) == pc[t] = "holds" \/ Granted(t)

\* At most one thread owns the mutex, counting the one mutex_release() has
\* handed it to but that has not been scheduled yet; timeouts, destruction and
\* re-initialisation included.
MutualExclusion == \A t, u \in Thread : Owns(t) /\ Owns(u) => t = u

\* m->count, which decides whether an acquirer blocks and whether a release
\* wakes anybody, is the number of threads that hold the mutex or are inside
\* mutex_acquire_timeout() past its increment.
CountAccountsForThreads ==
    Live => m.count = Cardinality({t \in Thread : pc[t] \in {"holds", "blocked"}})

\* m->holder, which mutex_release() and is_mutex_held() trust, is the thread
\* that returned from its acquire with NO_ERROR and has not released.
HolderIsOwner == Live => \A t \in Thread : (m.holder = t) <=> (pc[t] = "holds")

\* Nobody owns a destroyed mutex: every waiter that mutex_destroy() found in
\* the queue, and every waiter that had timed out, comes back with an error.
NoOwnerOfDestroyed == ~Live => \A t \in Thread : ~Owns(t)

\* Only threads inside mutex_acquire_timeout() are BLOCKED, and while the mutex
\* lives they are woken by a release or by their timer, never by a destroy.
WaitersInside ==
    \A t \in Thread :
      /\ wq.state[t] \in {"READY", "BLOCKED"}
      /\ wq.state[t] = "BLOCKED" => pc[t] = "blocked"
      /\ Live /\ pc[t] = "blocked" => wq.ret[t] \in {"NO_ERROR", "ERR_TIMED_OUT"}

\* The queue outlives the mutex by the time its destroyer needs to run again.
QueueLife ==
    /\ Live => mwait \in wq.live /\ \A t \in Thread : pc[t] # "destroying"
    /\ ~Live => wq.list[mwait] = << >>

\* The inductive invariant: the count, the holder, the queue and the threads'
\* positions in mutex.c tell the same story, through timeouts, destruction with
\* waiters queued and re-initialisation of the storage.
IInv ==
    /\ TypeOK
    /\ WaitQueueOK(wq)
    /\ WaitersInside
    /\ QueueLife
    /\ CountAccountsForThreads
    /\ HolderIsOwner
    /\ MutualExclusion
    /\ NoOwnerOfDestroyed

\* The uncontended path of mutex_acquire_timeout() never overtakes a waiter:
\* whoever gets the mutex without blocking found no owner and no queue.
NoBarging ==
    [][\A t \in Thread : pc[t] = "out" /\ pc'[t] = "holds" =>
          wq.list[mwait] = << >> /\ \A u \in Thread : ~Owns(u)]_vars

\* A thread only stays queued while somebody owns the mutex, whose release will
\* hand it over ("waits ... for the mutex to become available", mutex.c:73), as
\* long as no wait on the mutex has timed out.
NoLostWakeup ==
    late = {} /\ wq.list[mwait] # << >> => \E t \in Thread : Owns(t)

\* The same with timeouts, granting that a waiter which left the queue but has
\* not run yet might still put things right: nobody is queued on a free mutex
\* with no other thread inside the call.
NoStrandedWaiter ==
    wq.list[mwait] # << >> =>
        \E t \in Thread : pc[t] = "holds" \/ (pc[t] = "blocked" /\ wq.state[t] = "READY")

\* Threads that are woken run again, and holders release.
FairSpec ==
    Spec /\ \A t \in Thread : WF_vars(AcquireResume(t)) /\ WF_vars(mutex_release(t))

\* Every blocked acquire returns, unless a wait on the mutex times out: hand-over
\* in queue order starves nobody.
AcquireReturns ==
    \A t \in Thread :
        pc[t] = "blocked" /\ late = {} ~> pc[t] # "blocked" \/ late # {}
=============================================================================
