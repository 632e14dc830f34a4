-------------------------------- MODULE Timer --------------------------------
(***************************************************************************)
(* The timer queues of kernel/timer.c in a build with a dynamic timer: one *)
(* ordered queue and one one-shot hardware timer per CPU.  timer_lock is   *)
(* held from one step to the next only while timer_tick() is in its loop   *)
(* (phase "loop"); it is dropped around a callback, which may itself set   *)
(* and cancel timers.  Times wrap at TIMES (2^32 in the code).  A          *)
(* millisecond is long against an interrupt: the clock stands still while  *)
(* one is handled.                                                         *)
(***************************************************************************)
EXTENDS Integers, Sequences, FiniteSets

CONSTANTS
    Timer, Cpu,
    None,           \* no timer
    TIMES,          \* the number of lk_time_t values
    MaxDelay,       \* bound: the longest delay callers use
    MaxPeriod,      \* bound: the longest period callers use
    MaxLate,        \* bound: the longest an interrupt is held off
    Serialized      \* whether callers keep off a timer that another CPU fires

ASSUME TimerAssumption ==
    /\ IsFiniteSet(Timer) /\ IsFiniteSet(Cpu) /\ None \notin Timer
    /\ TIMES \in Nat /\ MaxDelay \in Nat \ {0} /\ MaxLate \in Nat
    /\ MaxPeriod \in 0 .. MaxDelay
    /\ TIMES % 2 = 0 /\ 2 * (MaxDelay + MaxLate) < TIMES
    /\ Serialized \in BOOLEAN

VARIABLES
    now,            \* current_time()
    queue,          \* timers[cpu].timer_queue
    scheduled_time, periodic_time,
    callback,       \* the timers whose callback is not NULL
    hw,             \* ms until the interrupt of each CPU, or Off
    tick,           \* where each CPU is in timer_tick()
    due,            \* history: ms until each queued timer is due, unwrapped
    wanted,         \* history: the timers whose callback is still owed a call
    crashed         \* the CPUs that called a NULL callback

vars == <<now, queue, scheduled_time, periodic_time, callback, hw, tick, due,
          wanted, crashed>>

Off == -1

Elements(q) == {q[i] : i \in 1 .. Len(q)}

Queued == UNION {Elements(queue[c]) : c \in Cpu}

TypeOK ==
    /\ now \in 0 .. TIMES - 1
    /\ queue \in [Cpu -> Seq(Timer)]
    /\ scheduled_time \in [Timer -> 0 .. TIMES - 1]
    /\ periodic_time \in [Timer -> 0 .. MaxDelay]
    /\ callback \in SUBSET Timer
    /\ hw \in [Cpu -> Off .. MaxDelay]
    /\ tick \in [Cpu -> [phase : {"none", "loop", "dequeued", "calling"},
                         timer : Timer \union {None}, periodic : BOOLEAN]]
    /\ due \in [Timer -> -MaxLate .. MaxDelay]
    /\ wanted \in SUBSET Timer
    /\ crashed \in SUBSET Cpu

NoTick == [phase |-> "none", timer |-> None, periodic |-> FALSE]

\* timer_init() and timer_initialize(), at any time of day.
Init ==
    /\ now \in 0 .. TIMES - 1
    /\ queue = [c \in Cpu |-> << >>]
    /\ scheduled_time = [t \in Timer |-> 0]
    /\ periodic_time = [t \in Timer |-> 0]
    /\ callback = {}
    /\ hw = [c \in Cpu |-> Off]
    /\ tick = [c \in Cpu |-> NoTick]
    /\ due = [t \in Timer |-> 0]
    /\ wanted = {} /\ crashed = {}

-----------------------------------------------------------------------------
\* Mutant: times are compared as plain unsigned numbers.
TIME_LT_unsigned(a, b) == a < b

\* (int32_t)(a - b) < 0
TIME_LT(a, b) == (a - b) % TIMES >= TIMES \div 2

\* Where insert_timer_in_queue() puts a timer for time s: before the first entry
\* that is later (TIME_GT(entry, s)), else at the end.
InsertedAt(q, s) ==
    CHOOSE i \in 1 .. Len(q) + 1 :
      /\ i <= Len(q) => TIME_LT(s, scheduled_time[q[i]])
      /\ \A j \in 1 .. i - 1 : ~TIME_LT(s, scheduled_time[q[j]])

insert_timer_in_queue(q, t, s) ==
    LET i == InsertedAt(q, s)
    IN  SubSeq(q, 1, i - 1) \o <<t>> \o SubSeq(q, i, Len(q))

HeadOf(q) == IF q = << >> THEN None ELSE Head(q)

Lock == crashed = {} /\ \A c \in Cpu : tick[c].phase # "loop"

\* Threads and callbacks on CPU c may call into the timer code.
Caller(c) == Lock /\ tick[c].phase \in {"none", "calling"}

\* The timer is not in the hands of another CPU's timer_tick().
Mine(c, t) == Serialized => \A d \in Cpu \ {c} : tick[d].timer # t

\* The one-shot hardware timer of the CPU the code runs on.
platform_set_oneshot_timer(c, interval) == [hw EXCEPT ![c] = interval]

platform_stop_timer(c) == [hw EXCEPT ![c] = Off]

HwAfterSet(c, t, q, delay) ==
    IF Head(q) = t THEN platform_set_oneshot_timer(c, delay) ELSE hw

\* timer_set() of a timer that is in no list (it panics otherwise).
timer_set(c, t, delay, period) ==
    /\ Caller(c) /\ Mine(c, t) /\ t \notin Queued
    /\ LET s == (now + delay) % TIMES
           q == insert_timer_in_queue(queue[c], t, s)
       IN  /\ scheduled_time' = [scheduled_time EXCEPT ![t] = s]
           /\ queue' = [queue EXCEPT ![c] = q]
           /\ hw' = HwAfterSet(c, t, q, delay)
    /\ periodic_time' = [periodic_time EXCEPT ![t] = period]
    /\ callback' = callback \union {t}
    /\ due' = [due EXCEPT ![t] = delay]
    /\ wanted' = wanted \union {t}
    /\ UNCHANGED <<now, tick, crashed>>

AtLeastOne(ms) == IF ms = 0 THEN 1 ELSE ms

timer_set_oneshot(c, t, delay) == timer_set(c, t, AtLeastOne(delay), 0)

timer_set_periodic(c, t, period) ==
    timer_set(c, t, AtLeastOne(period), AtLeastOne(period))

\* Mutant: periodic_time is left alone.
PeriodAfterCancel_kept(t) == periodic_time

\* What keeps a periodic timer from being queued again after its callback.
PeriodAfterCancel(t) == [periodic_time EXCEPT ![t] = 0]

\* list_delete() of t, if it is in the list q.
Without(q, t) ==
    LET i == CHOOSE i \in 1 .. Len(q) : q[i] = t
    IN  IF t \in Elements(q) THEN SubSeq(q, 1, i - 1) \o SubSeq(q, i + 1, Len(q)) ELSE q

\* The timer leaves whichever CPU's list it is in.
QueuesWithout(t) == [c \in Cpu |-> Without(queue[c], t)]

\* Mutant: a new first timer that is overdue already is not provided for.
HwAfterCancel_not_overdue(c, q) ==
    IF q = << >> THEN platform_stop_timer(c)
    ELSE IF Head(q) = HeadOf(queue[c]) THEN hw
    ELSE platform_set_oneshot_timer(c, (scheduled_time[Head(q)] - now) % TIMES)

\* The hardware of the canceller's CPU after the timer left its list.
HwAfterCancel(c, q) ==
    IF q = << >> THEN platform_stop_timer(c)
    ELSE IF Head(q) = HeadOf(queue[c]) THEN hw
    ELSE LET s == scheduled_time[Head(q)]
         IN  platform_set_oneshot_timer(
                 c, IF TIME_LT(s, now) THEN 0 ELSE (s - now) % TIMES)

timer_cancel(c, t) ==
    /\ Caller(c) /\ Mine(c, t)
    /\ queue' = QueuesWithout(t)
    /\ periodic_time' = PeriodAfterCancel(t)
    /\ callback' = callback \ {t}
    /\ hw' = HwAfterCancel(c, queue'[c])
    /\ due' = [due EXCEPT ![t] = 0]
    /\ wanted' = wanted \ {t}
    /\ UNCHANGED <<now, scheduled_time, tick, crashed>>

-----------------------------------------------------------------------------
\* platform_tick(): the interrupt is taken, and timer_tick() takes the lock.
TickStart(c) ==
    /\ Lock /\ tick[c].phase = "none" /\ hw[c] = 0
    /\ hw' = platform_stop_timer(c)
    /\ tick' = [tick EXCEPT ![c].phase = "loop"]
    /\ UNCHANGED <<now, queue, scheduled_time, periodic_time, callback, due, wanted,
                   crashed>>

IsDue(c) == queue[c] # << >> /\ ~TIME_LT(now, scheduled_time[Head(queue[c])])

\* The first timer is taken off the queue and the lock is dropped.
TickDequeue(c) ==
    /\ tick[c].phase = "loop" /\ IsDue(c)
    /\ queue' = [queue EXCEPT ![c] = Tail(@)]
    /\ tick' = [tick EXCEPT ![c].phase = "dequeued", ![c].timer = Head(queue[c])]
    /\ UNCHANGED <<now, scheduled_time, periodic_time, callback, hw, due, wanted, crashed>>

\* The callback is called, whatever the timer's fields say by now.
TickCall(c) ==
    /\ crashed = {} /\ tick[c].phase = "dequeued"
    /\ LET t == tick[c].timer
           periodic == periodic_time[t] > 0
       IN  /\ crashed' = IF t \in callback THEN crashed ELSE crashed \union {c}
           /\ tick' = [tick EXCEPT ![c].phase = "calling", ![c].periodic = periodic]
           /\ wanted' = IF periodic THEN wanted ELSE wanted \ {t}
           /\ due' = [due EXCEPT ![t] = IF t \in Queued THEN @ ELSE 0]
    /\ UNCHANGED <<now, queue, scheduled_time, periodic_time, callback, hw>>

Requeues(c) ==
    LET t == tick[c].timer
    IN  tick[c].periodic /\ t \notin Queued /\ periodic_time[t] > 0

\* The callback returns: the lock is taken and the next round of the loop begins.
TickReturn(c) ==
    /\ Lock /\ tick[c].phase = "calling"
    /\ LET t == tick[c].timer
           s == (now + periodic_time[t]) % TIMES
       IN  \/ /\ Requeues(c)
              /\ scheduled_time' = [scheduled_time EXCEPT ![t] = s]
              /\ queue' = [queue EXCEPT ![c] = insert_timer_in_queue(@, t, s)]
              /\ due' = [due EXCEPT ![t] = periodic_time[t]]
           \/ /\ ~Requeues(c)
              /\ UNCHANGED <<scheduled_time, queue, due>>
    /\ tick' = [tick EXCEPT ![c] = [NoTick EXCEPT !.phase = "loop"]]
    /\ UNCHANGED <<now, periodic_time, callback, hw, wanted, crashed>>

\* Mutant: the hardware stays as the callbacks left it.
HwAfterTick_unchanged(c) == hw

HwAfterTick(c) ==
    IF queue[c] = << >> THEN hw
    ELSE platform_set_oneshot_timer(c, (scheduled_time[Head(queue[c])] - now) % TIMES)

\* Nothing more is due: the hardware is set for the next timer.
TickEnd(c) ==
    /\ tick[c].phase = "loop" /\ ~IsDue(c)
    /\ hw' = HwAfterTick(c)
    /\ tick' = [tick EXCEPT ![c] = NoTick]
    /\ UNCHANGED <<now, queue, scheduled_time, periodic_time, callback, due, wanted,
                   crashed>>

\* A millisecond passes.  Interrupts are held off for MaxLate at most.
Clock ==
    /\ crashed = {} /\ \A c \in Cpu : tick[c].phase = "none"
    /\ \A t \in Queued : due[t] > -MaxLate
    /\ now' = (now + 1) % TIMES
    /\ hw' = [c \in Cpu |-> IF hw[c] > 0 THEN hw[c] - 1 ELSE hw[c]]
    /\ due' = [t \in Timer |-> IF t \in Queued THEN due[t] - 1 ELSE due[t]]
    /\ UNCHANGED <<queue, scheduled_time, periodic_time, callback, tick, wanted, crashed>>

Next ==
    \/ \E c \in Cpu, t \in Timer :
         \/ \E delay \in 0 .. MaxDelay : timer_set_oneshot(c, t, delay)
         \/ \E period \in 0 .. MaxPeriod : timer_set_periodic(c, t, period)
         \/ timer_cancel(c, t)
    \/ \E c \in Cpu :
         TickStart(c) \/ TickDequeue(c) \/ TickCall(c) \/ TickReturn(c) \/ TickEnd(c)
    \/ Clock

Spec == Init /\ [][Next]_vars

-----------------------------------------------------------------------------
\* Outside of timer_tick() the hardware of a CPU is set to interrupt no later
\* than any timer of its queue is due, whoever set or cancelled what: the queue
\* is in the order of the due times, although only wrapping differences are
\* compared, and its first entry decides what the hardware is set to.
HardwareCoversQueue ==
    \A c \in Cpu : tick[c].phase = "none" =>
        \A i \in 1 .. Len(queue[c]) :
            hw[c] # Off /\ (hw[c] = 0 \/ hw[c] <= due[queue[c][i]])

\* The timers timer_tick() holds that will be called or queued again.
InFlight ==
    {t \in Timer : \E c \in Cpu :
        /\ tick[c].timer = t
        /\ \/ tick[c].phase = "dequeued"
           \/ tick[c].phase = "calling" /\ tick[c].periodic /\ periodic_time[t] > 0}

\* A timer is queued or about to be exactly as long as its owner is owed a call:
\* a periodic one goes on until it is cancelled, and one that its own callback
\* cancels is not "reinserted into the queue" (timer.c:185).
OwedTimersAreQueued == wanted = Queued \union InFlight

\* No callback runs before its delay is over, whatever the time of day.
NeverEarly ==
    [][\A c \in Cpu : tick[c].phase = "loop" /\ tick'[c].phase = "dequeued" =>
          due[tick'[c].timer] <= 0]_vars

\* timer_tick() never calls the callback of a cancelled timer, which is NULL:
\* after a wait, "we don't really know if the timer fired or not, so it's better
\* safe to try to cancel it" (thread.c:1122).
NoNullCallback == crashed = {}

\* Time goes on, interrupts are taken, and callbacks return.
FairSpec ==
    /\ Spec /\ SF_vars(Clock)
    /\ \A c \in Cpu : WF_vars(TickStart(c)) /\ WF_vars(TickDequeue(c))
         /\ WF_vars(TickCall(c)) /\ SF_vars(TickReturn(c)) /\ WF_vars(TickEnd(c))

\* Every timer that is set fires, unless it is cancelled.
TimersFire == \A t \in Timer : t \in Queued ~> t \notin Queued
=============================================================================
