------------------------------ MODULE Semaphore ------------------------------
(***************************************************************************)
(* One semaphore_t (kernel/semaphore.c) and the threads that use it.  As   *)
(* in Mutex a call is atomic up to the context switch in                   *)
(* wait_queue_block().  The history variable avail counts the resources    *)
(* posted and not yet returned to a waiter, which is what sem->count is    *)
(* meant to track; late remembers whose waits timed out.                   *)
(***************************************************************************)
EXTENDS WaitQueue, FiniteSets

CONSTANTS
    swait,          \* &sem->wait
    InitialCount,   \* the value given to sem_init()
    MaxAvail,       \* bound: nobody posts beyond this many unclaimed resources
    Timeouts,       \* the timeouts callers pass to sem_timedwait()
    Poster,         \* the threads that call sem_post()
    Waiter          \* the threads that call sem_wait() and its variants

ASSUME SemaphoreAssumption ==
    /\ IsFiniteSet(Thread)
    /\ swait \in Queue
    /\ InitialCount \in Nat /\ MaxAvail \in Nat
    /\ Timeouts \subseteq Timeout
    /\ Poster \subseteq Thread /\ Waiter \subseteq Thread

VARIABLES
    wq,         \* the wait queue and the threads' blocking state
    count,      \* sem->count
    alive,      \* between sem_init() and sem_destroy()
    pc,         \* out, waiting (in wait_queue_block), destroying
    rc,         \* ret of the thread's last wait
    avail,      \* history: resources not handed out yet
    late        \* history: the threads timed out in the queue since sem_init()

vars == <<wq, count, alive, pc, rc, avail, late>>

Waiting == {t \in Thread : pc[t] = "waiting"}

\* sem_post() has handed a resource to thread t, which has not run since.
Granted == {t \in Waiting : wq.state[t] = "READY" /\ wq.ret[t] = "NO_ERROR"}

TypeOK ==
    /\ wq \in WaitState
    /\ count \in Int
    /\ alive \in {"yes", "no"}
    /\ pc \in [Thread -> {"out", "waiting", "destroying"}]
    /\ rc \in [Thread -> Status \union {"ERR_NOT_READY"}]
    /\ avail \in Int
    /\ late \in SUBSET Thread

Init ==
    /\ wq = WaitInit
    /\ count = InitialCount
    /\ alive = "yes"
    /\ pc = [t \in Thread |-> "out"]
    /\ rc = [t \in Thread |-> "NO_ERROR"]
    /\ avail = InitialCount
    /\ late = {}

-----------------------------------------------------------------------------
Idle(t) == alive = "yes" /\ pc[t] = "out"

\* Mutant: the fast path is chosen before the count is incremented.
sem_post_checks_first(t) ==
    /\ Idle(t) /\ avail < MaxAvail
    /\ count' = count + 1
    /\ wq' = IF count <= -2
             THEN wait_queue_wake_one(wq, swait, "NO_ERROR") ELSE wq
    /\ avail' = avail + 1
    /\ UNCHANGED <<alive, pc, rc, late>>

sem_post(t) ==
    /\ Idle(t) /\ avail < MaxAvail
    /\ count' = count + 1
    /\ wq' = IF count + 1 <= 0
             THEN wait_queue_wake_one(wq, swait, "NO_ERROR") ELSE wq
    /\ avail' = avail + 1
    /\ UNCHANGED <<alive, pc, rc, late>>

Take(t) ==
    /\ count' = count - 1
    /\ avail' = avail - 1
    /\ rc' = [rc EXCEPT ![t] = "NO_ERROR"]
    /\ UNCHANGED <<wq, alive, pc, late>>

\* Mutant: the test uses the count from before the decrement.
WaitFree_off_by_one(t) == Idle(t) /\ count >= 0 /\ Take(t)

\* sem_wait() and sem_timedwait() when --sem->count is not negative.
WaitFree(t) == Idle(t) /\ count - 1 >= 0 /\ Take(t)

\* ... when it is and the caller blocks; sem_wait() is the INFINITE_TIME case.
WaitBlock(t, timeout) ==
    /\ Idle(t) /\ count - 1 < 0
    /\ timeout # "ZERO"
    /\ count' = count - 1
    /\ wq' = wait_queue_block(wq, swait, t, timeout)
    /\ pc' = [pc EXCEPT ![t] = "waiting"]
    /\ rc' = [rc EXCEPT ![t] = "NO_ERROR"]
    /\ UNCHANGED <<alive, avail, late>>

\* ... when it is and sem_timedwait() was given a zero timeout.
WaitZero(t) ==
    /\ Idle(t) /\ count - 1 < 0
    /\ "ZERO" \in Timeouts
    /\ rc' = [rc EXCEPT ![t] = "ERR_TIMED_OUT"]
    /\ UNCHANGED <<wq, count, alive, pc, avail, late>>

sem_trywait(t) ==
    /\ Idle(t)
    /\ \/ count > 0 /\ Take(t)
       \/ /\ count <= 0
          /\ rc' = [rc EXCEPT ![t] = "ERR_NOT_READY"]
          /\ UNCHANGED <<wq, count, alive, pc, avail, late>>

\* Mutant: a wait that timed out keeps its count.
CountAfterWait_no_backout(ret) == count

\* sem_timedwait() backs its decrement out on a timeout, and only then.
CountAfterWait(ret) == IF ret = "ERR_TIMED_OUT" THEN count + 1 ELSE count

\* The caller is switched in again inside sem_wait() or sem_timedwait().
WaitResume(t) ==
    /\ t \in Waiting /\ wq.state[t] = "READY"
    /\ wq' = wait_queue_block_return(wq, t)
    /\ rc' = [rc EXCEPT ![t] = wq.ret[t]]
    /\ count' = CountAfterWait(wq.ret[t])
    /\ avail' = IF wq.ret[t] = "NO_ERROR" THEN avail - 1 ELSE avail
    /\ pc' = [pc EXCEPT ![t] = "out"]
    /\ UNCHANGED <<alive, late>>

\* sem_destroy(): when it wakes waiters it is switched out before
\* wait_queue_destroy() clears wait->magic.
sem_destroy(t) ==
    /\ Idle(t)
    /\ alive' = "no"
    /\ count' = 0
    /\ avail' = 0
    /\ LET woken == wait_queue_wake_all(wq, swait, "ERR_OBJECT_DESTROYED")
       IN  \/ /\ wq.list[swait] # << >>
              /\ wq' = woken
              /\ pc' = [pc EXCEPT ![t] = "destroying"]
           \/ /\ wq.list[swait] = << >>
              /\ wq' = [woken EXCEPT !.live = @ \ {swait}]
              /\ UNCHANGED pc
    /\ UNCHANGED <<rc, late>>

\* wait_queue_destroy() resumes after the reschedule of wait_queue_wake_all().
DestroyResume(t) ==
    /\ pc[t] = "destroying"
    /\ wq' = [wq EXCEPT !.live = @ \ {swait}]
    /\ pc' = [pc EXCEPT ![t] = "out"]
    /\ UNCHANGED <<count, alive, rc, avail, late>>

\* sem_init() of the same storage, once every call on the old one returned.
sem_init ==
    /\ alive = "no" /\ \A t \in Thread : pc[t] = "out"
    /\ alive' = "yes"
    /\ count' = InitialCount /\ avail' = InitialCount
    /\ wq' = wait_queue_init(wq, swait)
    /\ late' = {}
    /\ UNCHANGED <<pc, rc>>

\* The timer armed by wait_queue_block() fires in interrupt context.
TimerFires(t) ==
    /\ t \in wq.timers
    /\ wq' = wait_queue_timeout_handler(wq, t)
    /\ late' = IF wq.state[t] = "BLOCKED" THEN late \union {t} ELSE late
    /\ UNCHANGED <<count, alive, pc, rc, avail>>

Next ==
    \/ \E t \in Poster : sem_post(t) \/ sem_destroy(t) \/ DestroyResume(t)
    \/ \E t \in Waiter :
         \/ WaitFree(t) \/ WaitZero(t) \/ WaitResume(t)
         \/ \E timeout \in Timeouts \union {"INFINITE_TIME"} : WaitBlock(t, timeout)
         \/ sem_trywait(t)
         \/ TimerFires(t)
    \/ sem_init

Spec == Init /\ [][Next]_vars

-----------------------------------------------------------------------------
\* Never more successful waits than resources: what sem_post() has promised to
\* waiters that have not run yet is covered by resources not handed out.
NoOverGrant == alive = "yes" => avail >= Cardinality(Granted)

\* sem->count is the unclaimed resources less the threads inside a wait, the
\* ones already granted or timed out but not yet running again included.
CountAccountsForThreads == alive = "yes" => count = avail - Cardinality(Waiting)

\* A thread only stays queued while every resource is spoken for ("sit in the
\* wait queue until sem_post adds some", semaphore.c:60), as long as no wait on
\* the semaphore has timed out.
NoLostWakeup ==
    late = {} /\ wq.list[swait] # << >> => avail = Cardinality(Granted)

\* Threads that are woken or preempted run again, and posters keep posting.
FairSpec ==
    /\ Spec
    /\ \A t \in Waiter : WF_vars(WaitResume(t))
    /\ \A t \in Poster : SF_vars(sem_post(t)) /\ WF_vars(DestroyResume(t))

\* Every blocked wait returns, unless a wait on the semaphore times out: resources
\* are handed out in queue order, and no later caller of sem_wait() or
\* sem_trywait() overtakes a queued thread.
WaitReturns ==
    \A t \in Thread :
        pc[t] = "waiting" /\ late = {} ~> pc[t] # "waiting" \/ late # {}
=============================================================================
