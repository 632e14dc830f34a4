-------------------------------- MODULE Sched --------------------------------
(***************************************************************************)
(* The scheduler of kernel/thread.c with a dynamic timer: priority run     *)
(* queues and their bitmap, the thread each CPU runs, quanta, the          *)
(* preemption timer of each CPU and the reschedule IPIs of kernel/mp.c.    *)
(* Cpu has one element in a uniprocessor build.                            *)
(*                                                                         *)
(* The state is one record k, and the scheduler's functions are operators  *)
(* on it, so that an action is the composition of the calls its handler    *)
(* makes under thread_lock.  One wait queue stands for all of them.        *)
(***************************************************************************)
EXTENDS Integers, Sequences, FiniteSets

CONSTANTS
    Thread,             \* the threads other than the idle threads
    Cpu,
    Idle,               \* the idle thread of whichever CPU
    NoCpu,              \* the cpu number -1
    Pinned,             \* t->pinned_cpu
    Priority,           \* the priorities in use, all above IDLE_PRIORITY
    DEFAULT_PRIORITY,
    QUANTUM,            \* the quantum thread_resched() gives (5)
    RealTimeThreads     \* bound: the threads that are made real time

ASSUME SchedAssumption ==
    /\ IsFiniteSet(Thread) /\ IsFiniteSet(Cpu) /\ Cpu # {}
    /\ Idle \notin Thread /\ NoCpu \notin Cpu
    /\ Pinned \in [Thread -> Cpu \union {NoCpu}]
    /\ Priority \subseteq Nat \ {0} /\ Priority # {}
    /\ DEFAULT_PRIORITY \in Nat
    /\ QUANTUM \in Nat \ {0} /\ RealTimeThreads \subseteq Thread

VARIABLE k
vars == k

KernelState ==
    [run_queue : [Priority -> Seq(Thread)],
     run_queue_bitmap : SUBSET Priority,
     current  : [Cpu -> Thread \union {Idle}],
     state    : [Thread -> {"SUSPENDED", "READY", "RUNNING", "BLOCKED", "SLEEPING",
                            "DEATH"}],
     priority : [Thread -> Priority],
     quantum  : [Thread -> 0 .. QUANTUM],   \* negative values stand as 0
     realtime : SUBSET Thread,              \* those with THREAD_FLAG_REAL_TIME
     waiters  : Seq(Thread),                \* the wait queue
     timerCpu : [Thread -> Cpu \union {NoCpu}],  \* where a sleep or timeout fires
     yielding : SUBSET Thread,              \* those in thread_resume(), yield to come
     preempt_timer : SUBSET Cpu,            \* CPUs whose preempt_timer is queued
     idle_cpus : SUBSET Cpu,                \* mp.idle_cpus
     realtime_cpus : SUBSET Cpu,            \* mp.realtime_cpus
     ipi      : SUBSET Cpu,                 \* MP_IPI_RESCHEDULE sent, not yet taken
     resched  : SUBSET Cpu,                 \* in an interrupt, INT_RESCHEDULE returned
     panicked : SUBSET Cpu]

TypeOK == k \in KernelState

\* After boot: every CPU idles, and one thread is about to run.
Init ==
    \E first \in Thread, priority \in [Thread -> Priority], c \in Cpu :
      /\ Pinned[first] \in {c, NoCpu}
      /\ k = [run_queue |-> [p \in Priority |-> << >>],
              run_queue_bitmap |-> {},
              current  |-> [x \in Cpu |-> IF x = c THEN first ELSE Idle],
              state    |-> [t \in Thread |-> IF t = first THEN "RUNNING" ELSE "SUSPENDED"],
              priority |-> priority,
              quantum  |-> [t \in Thread |-> IF t = first THEN QUANTUM ELSE 0],
              realtime |-> {},
              waiters  |-> << >>,
              timerCpu |-> [t \in Thread |-> NoCpu],
              yielding |-> {},
              preempt_timer |-> {c},
              idle_cpus |-> Cpu \ {c},
              realtime_cpus |-> {},
              ipi      |-> {},
              resched  |-> {},
              panicked |-> {}]

-----------------------------------------------------------------------------
\* The functions of thread.c and mp.c.
insert_in_run_queue_head(s, t) ==
    LET p == s.priority[t]
    IN  [s EXCEPT !.run_queue[p] = <<t>> \o @, !.run_queue_bitmap = @ \union {p}]

insert_in_run_queue_tail(s, t) ==
    LET p == s.priority[t]
    IN  [s EXCEPT !.run_queue[p] = Append(@, t), !.run_queue_bitmap = @ \union {p}]

Allowed(t, c) == Pinned[t] \in {c, NoCpu}

\* list_delete() of element i.
Without(q, i) == SubSeq(q, 1, i - 1) \o SubSeq(q, i + 1, Len(q))

\* Mutant: the thread is found but not taken off its queue.
DequeueAt_keeps(s, p, i) == s

\* Thread i of the queue of priority p is taken off to run.
DequeueAt(s, p, i) ==
    LET rest == Without(s.run_queue[p], i)
    IN  [s EXCEPT !.run_queue[p] = rest,
                  !.run_queue_bitmap = IF rest = << >> THEN @ \ {p} ELSE @]

\* The queue positions get_top_thread() may find a thread for CPU c at.
Runnable(s, c) ==
    {x \in s.run_queue_bitmap \X (1 .. Cardinality(Thread)) :
        x[2] <= Len(s.run_queue[x[1]]) /\ Allowed(s.run_queue[x[1]][x[2]], c)}

\* get_top_thread(): the highest queue, then the first thread in it.
TopPosition(s, c) ==
    CHOOSE x \in Runnable(s, c) :
        \A y \in Runnable(s, c) : x[1] > y[1] \/ (x[1] = y[1] /\ x[2] <= y[2])

RealTimeOrIdle(s, t) == t = Idle \/ t \in s.realtime

\* thread_is_realtime()
IsRealTime(s, t) == t \in s.realtime /\ s.priority[t] > DEFAULT_PRIORITY

\* Mutant: the preemption timer is started for a thread coming after an idle
\* one only, not after a real time one.
PreemptTimer_after_idle_only(s, c, old, new) ==
    IF RealTimeOrIdle(s, new)
    THEN IF RealTimeOrIdle(s, old) THEN s ELSE [s EXCEPT !.preempt_timer = @ \ {c}]
    ELSE IF old = Idle THEN [s EXCEPT !.preempt_timer = @ \union {c}] ELSE s

\* thread_resched()'s care of preempt_timer[c]; timer_set() panics on a timer
\* that is queued already.
PreemptTimer(s, c, old, new) ==
    IF RealTimeOrIdle(s, new)
    THEN IF RealTimeOrIdle(s, old) THEN s ELSE [s EXCEPT !.preempt_timer = @ \ {c}]
    ELSE IF ~RealTimeOrIdle(s, old) THEN s
    ELSE IF c \in s.preempt_timer THEN [s EXCEPT !.panicked = @ \union {c}]
    ELSE [s EXCEPT !.preempt_timer = @ \union {c}]

Quantum(q) == IF q <= 0 THEN QUANTUM ELSE q

\* The part of thread_resched() that is skipped when the thread stays the same.
SwitchTo(s, c, new) ==
    LET old == s.current[c]
        s1 == IF new = Idle THEN s
              ELSE [s EXCEPT !.state[new] = "RUNNING", !.quantum[new] = Quantum(@)]
        s2 == [s1 EXCEPT
                 !.current[c] = new,
                 !.idle_cpus = IF new = Idle THEN @ \union {c} ELSE @ \ {c},
                 !.realtime_cpus = IF new # Idle /\ IsRealTime(s, new)
                                   THEN @ \union {c} ELSE @ \ {c}]
    IN  PreemptTimer(s2, c, old, new)

thread_resched(s, c) ==
    IF Runnable(s, c) = {}
    THEN IF s.current[c] = Idle THEN s ELSE SwitchTo(s, c, Idle)
    ELSE LET x == TopPosition(s, c)
             new == s.run_queue[x[1]][x[2]]
             s1 == DequeueAt(s, x[1], x[2])
         IN  IF new = s.current[c] THEN [s1 EXCEPT !.state[new] = "RUNNING"]
                                   ELSE SwitchTo(s1, c, new)

\* Every other CPU that does not run real time code gets a reschedule IPI.
mp_reschedule(s, c) ==
    [s EXCEPT !.ipi = @ \union (Cpu \ ({c} \union s.realtime_cpus))]

\* A thread becomes READY at the head of its run queue.
ReadyAtHead(s, t) ==
    insert_in_run_queue_head([s EXCEPT !.state[t] = "READY", !.timerCpu[t] = NoCpu], t)

\* The caller goes to the head of its queue if the wake is to reschedule.
WakerReady(s, c, reschedule) ==
    LET me == s.current[c]
    IN  IF reschedule
        THEN insert_in_run_queue_head([s EXCEPT !.state[me] = "READY"], me) ELSE s

wait_queue_wake_one(s, c, reschedule) ==
    LET t == Head(s.waiters)
        s1 == WakerReady([s EXCEPT !.waiters = Tail(@)], c, reschedule)
        s2 == mp_reschedule(ReadyAtHead(s1, t), c)
    IN  IF s.waiters = << >> THEN s
        ELSE IF reschedule THEN thread_resched(s2, c) ELSE s2

\* The threads of the queue q become READY one after the other.
AllReadyAtHead(s, q) ==
    LET popped[i \in 0 .. Len(q)] ==
            IF i = 0 THEN s ELSE ReadyAtHead(popped[i - 1], q[i])
    IN  popped[Len(q)]

wait_queue_wake_all(s, c, reschedule) ==
    LET s1 == WakerReady([s EXCEPT !.waiters = << >>], c, reschedule)
        s2 == mp_reschedule(AllReadyAtHead(s1, s.waiters), c)
    IN  IF s.waiters = << >> THEN s
        ELSE IF reschedule THEN thread_resched(s2, c) ELSE s2

-----------------------------------------------------------------------------
\* What the thread running on CPU c does, outside of interrupts.  A thread in
\* thread_resume() has a thread_yield() still to make.
Running(c) == k.current[c] # Idle /\ c \notin k.resched /\ k.panicked = {}

Free(c) == Running(c) /\ k.current[c] \notin k.yielding

thread_yield(c) ==
    /\ Running(c)
    /\ LET t == k.current[c]
       IN  k' = thread_resched(insert_in_run_queue_tail(
                    [k EXCEPT !.state[t] = "READY", !.quantum[t] = 0,
                              !.yielding = @ \ {t}], t), c)

\* thread_resume() up to its unlock.
thread_resume(c, t) ==
    /\ Free(c)
    /\ k.state[t] = "SUSPENDED"
    /\ k' = [mp_reschedule(ReadyAtHead(k, t), c) EXCEPT
                !.yielding = @ \union {k.current[c]}]

\* wait_queue_block(), with or without a timeout.
wait_queue_block(c, timed) ==
    /\ Free(c)
    /\ LET t == k.current[c]
       IN  k' = thread_resched(
                    [k EXCEPT !.state[t] = "BLOCKED", !.waiters = Append(@, t),
                              !.timerCpu[t] = IF timed THEN c ELSE NoCpu], c)

\* mutex_release(), event_signal() and the like wake waiters.
Wakes(c, reschedule) ==
    /\ Free(c) /\ k.waiters # << >>
    /\ \/ k' = wait_queue_wake_one(k, c, reschedule)
       \/ k' = wait_queue_wake_all(k, c, reschedule)

\* An interrupt handler wakes waiters and returns INT_RESCHEDULE.
IrqWakes(c) ==
    /\ k.panicked = {} /\ c \notin k.resched /\ k.waiters # << >>
    /\ \/ k' = [wait_queue_wake_one(k, c, FALSE) EXCEPT !.resched = @ \union {c}]
       \/ k' = [wait_queue_wake_all(k, c, FALSE) EXCEPT !.resched = @ \union {c}]

thread_sleep(c) ==
    /\ Free(c)
    /\ LET t == k.current[c]
       IN  k' = thread_resched([k EXCEPT !.state[t] = "SLEEPING", !.timerCpu[t] = c], c)

\* Mutant: the handler does not ask for a reschedule.
thread_sleep_handler_quiet(t) ==
    /\ k.panicked = {} /\ k.state[t] = "SLEEPING"
    /\ k' = ReadyAtHead(k, t)

\* The timer of a sleeping thread fires on the CPU it went to sleep on.  An
\* interrupt runs every timer that is due before it ends in thread_preempt().
thread_sleep_handler(t) ==
    /\ k.panicked = {} /\ k.state[t] = "SLEEPING"
    /\ k' = [ReadyAtHead(k, t) EXCEPT !.resched = @ \union {k.timerCpu[t]}]

PositionOf(t) == CHOOSE i \in 1 .. Len(k.waiters) : k.waiters[i] = t

\* The timer of a timed wait fires: thread_unblock_from_wait_queue().
wait_queue_timeout_handler(t) ==
    /\ k.panicked = {} /\ k.state[t] = "BLOCKED" /\ k.timerCpu[t] # NoCpu
    /\ LET c == k.timerCpu[t]
           s == ReadyAtHead([k EXCEPT !.waiters = Without(@, PositionOf(t))], t)
       IN  k' = [mp_reschedule(s, c) EXCEPT !.resched = @ \union {c}]

\* thread_exit(), which wakes those that join the thread unless it is detached.
thread_exit(c, detached) ==
    /\ Free(c)
    /\ LET s == [k EXCEPT !.state[k.current[c]] = "DEATH"]
       IN  k' = thread_resched(
                    IF detached THEN s ELSE wait_queue_wake_all(s, c, FALSE), c)

\* thread_create_etc() reusing the storage of a dead thread.
thread_create(c, t, priority) ==
    /\ Free(c) /\ k.state[t] = "DEATH"
    /\ k' = [k EXCEPT !.state[t] = "SUSPENDED", !.priority[t] = priority,
                      !.quantum[t] = 0, !.realtime = @ \ {t}]

\* Mutant: the caller is queued under its old priority.
thread_set_priority_late(c, priority) ==
    /\ Free(c)
    /\ LET t == k.current[c]
           s == insert_in_run_queue_head([k EXCEPT !.state[t] = "READY"], t)
       IN  k' = thread_resched([s EXCEPT !.priority[t] = priority], c)

thread_set_priority(c, priority) ==
    /\ Free(c)
    /\ LET t == k.current[c]
       IN  k' = thread_resched(insert_in_run_queue_head(
                    [k EXCEPT !.state[t] = "READY", !.priority[t] = priority], t), c)

\* Mutant: the caller's preemption timer is left running.
thread_set_real_time_no_cancel(c, t) ==
    /\ Free(c) /\ k.state[t] # "DEATH"
    /\ t \in RealTimeThreads
    /\ t = k.current[c] \/ k.state[t] # "RUNNING"
    /\ k' = [k EXCEPT !.realtime = @ \union {t}]

\* thread_set_real_time(), for the caller or, as the code in the tree calls it,
\* for a thread that is not running.
thread_set_real_time(c, t) ==
    /\ Free(c) /\ k.state[t] # "DEATH"
    /\ t \in RealTimeThreads
    /\ t = k.current[c] \/ k.state[t] # "RUNNING"
    /\ k' = [k EXCEPT !.realtime = @ \union {t},
                      !.preempt_timer = IF t = k.current[c] THEN @ \ {c} ELSE @]

\* preempt_timer[c] fires: thread_timer_tick().  It is periodic.
thread_timer_tick(c) ==
    /\ k.panicked = {} /\ c \in k.preempt_timer
    /\ ~RealTimeOrIdle(k, k.current[c])
    /\ LET t == k.current[c]
       IN  k' = [k EXCEPT !.quantum[t] = IF @ > 0 THEN @ - 1 ELSE 0,
                          !.resched = IF k.quantum[t] - 1 <= 0 THEN @ \union {c} ELSE @]

\* mp_mbx_reschedule_irq(): the IPI is taken, between two other interrupts.
mp_mbx_reschedule_irq(c) ==
    /\ k.panicked = {} /\ c \in k.ipi /\ c \notin k.resched
    /\ k' = [k EXCEPT !.ipi = @ \ {c}, !.resched = @ \union {c}]

\* Mutant: a thread that used up its quantum goes to the head all the same.
thread_preempt_to_head(c) ==
    /\ k.panicked = {} /\ c \in k.resched
    /\ LET t == k.current[c]
           s == [k EXCEPT !.resched = @ \ {c}]
       IN  k' = thread_resched(
                    IF t = Idle THEN s
                    ELSE insert_in_run_queue_head([s EXCEPT !.state[t] = "READY"], t), c)

\* thread_preempt(), at the end of an interrupt that asked for it.
thread_preempt(c) ==
    /\ k.panicked = {} /\ c \in k.resched
    /\ LET t == k.current[c]
           s == [k EXCEPT !.resched = @ \ {c}]
           ready == [s EXCEPT !.state[t] = "READY"]
       IN  k' = thread_resched(
                    IF t = Idle THEN s
                    ELSE IF k.quantum[t] > 0 THEN insert_in_run_queue_head(ready, t)
                    ELSE insert_in_run_queue_tail(ready, t), c)

Next ==
    \/ \E c \in Cpu :
         \/ thread_yield(c) \/ thread_sleep(c)
         \/ \E detached \in BOOLEAN : thread_exit(c, detached)
         \/ \E timed \in BOOLEAN : wait_queue_block(c, timed)
         \/ \E reschedule \in BOOLEAN : Wakes(c, reschedule)
         \/ IrqWakes(c)
         \/ thread_timer_tick(c) \/ mp_mbx_reschedule_irq(c) \/ thread_preempt(c)
         \/ \E p \in Priority : thread_set_priority(c, p)
         \/ \E t \in Thread :
              \/ thread_resume(c, t) \/ thread_set_real_time(c, t)
              \/ \E p \in Priority : thread_create(c, t, p)
    \/ \E t \in Thread : thread_sleep_handler(t) \/ wait_queue_timeout_handler(t)

Spec == Init /\ [][Next]_vars

-----------------------------------------------------------------------------
\* A READY thread is on the run queue of its priority, once, and nobody else is
\* on a run queue; the bitmap marks exactly the queues with a thread.  Else
\* get_top_thread() would lose a thread or run one twice.
RunQueuesConsistent ==
    /\ \A t \in Thread, p \in Priority :
         Cardinality({i \in 1 .. Len(k.run_queue[p]) : k.run_queue[p][i] = t})
            = IF k.state[t] = "READY" /\ k.priority[t] = p THEN 1 ELSE 0
    /\ k.run_queue_bitmap = {p \in Priority : k.run_queue[p] # << >>}

\* A thread is RUNNING exactly when some CPU runs it, and only one does: two
\* CPUs never switch to the same thread and its one stack.  A pinned thread runs
\* on no CPU but its own, whoever wakes it and wherever its timers fire
\* (get_top_thread() passes it over).
OneCpuPerThread ==
    \A t \in Thread :
      /\ k.state[t] = "RUNNING" <=> \E c \in Cpu : k.current[c] = t
      /\ \A c, d \in Cpu : k.current[c] = t /\ k.current[d] = t => c = d
      /\ \A c \in Cpu : k.current[c] = t => Pinned[t] \in {c, NoCpu}

\* A CPU's preemption timer runs exactly while its thread is to be preempted,
\* so time slicing neither stops nor disturbs real time threads.
PreemptTimerMatchesThread ==
    \A c \in Cpu : c \in k.preempt_timer <=> ~RealTimeOrIdle(k, k.current[c])

\* thread_resched() never sets a timer that is already queued, which timer_set()
\* answers with panic("timer %p already in list\n") (timer.c:96).
NoPanic == k.panicked = {}

\* The idle thread is "the one which executes when there is nothing else to do"
\* (thread.c:874): unless a reschedule is on its way somewhere, a CPU marked idle
\* means that no READY thread may run on it.
IdleMeansNothingToDo ==
    k.ipi = {} /\ k.resched = {} => \A c \in k.idle_cpus : Runnable(k, c) = {}

\* Interrupts are taken, and the preemption timer keeps ticking.
FairSpec ==
    /\ Spec
    /\ \A c \in Cpu :
         /\ WF_vars(thread_preempt(c))
         /\ WF_vars(mp_mbx_reschedule_irq(c))
         /\ WF_vars(thread_timer_tick(c))

\* Time slicing: a READY thread gets a CPU again unless some thread of higher
\* priority or with the real time flag keeps coming in its way.
TimeSlicing ==
    \A t \in Thread :
        k.state[t] = "READY" ~>
            \/ k.state[t] # "READY"
            \/ \E u \in Thread \ {t} :
                 k.state[u] \in {"READY", "RUNNING"} /\
                     (k.priority[u] > k.priority[t] \/ u \in k.realtime)
=============================================================================
