------------------------------ MODULE WaitQueue ------------------------------
(***************************************************************************)
(* The wait queue primitive of kernel/thread.c: a FIFO of blocked threads  *)
(* that every blocking object (mutex, semaphore, event, port, thread_join) *)
(* embeds.  The operators are pure: each takes the part of the kernel      *)
(* state that wait queues own (a record of set WaitState) and returns it   *)
(* as the call leaves it, so that a caller's handler is the composition of *)
(* the calls it makes.                                                     *)
(*                                                                         *)
(* Scheduling is abstracted here: "READY" stands for THREAD_READY and      *)
(* THREAD_RUNNING, and any READY thread may execute next.  That covers     *)
(* every choice thread_resched() can make, on any number of CPUs; module   *)
(* Sched models the choice itself.                                         *)
(***************************************************************************)
EXTENDS Integers, Sequences

CONSTANTS
    Thread,     \* the threads (thread_t *)
    Queue,      \* the wait queues (wait_queue_t *)
    NULL        \* the null pointer

ASSUME NullAssumption == NULL \notin Thread /\ NULL \notin Queue

\* status_t values handed to a thread leaving wait_queue_block().
Status == {"NO_ERROR", "ERR_TIMED_OUT", "ERR_OBJECT_DESTROYED",
           "ERR_THREAD_DETACHED", "ERR_CANCELLED"}

\* A timeout is 0, a finite number of ms, or INFINITE_TIME; how many ms is
\* irrelevant because the timer may fire at any time after it is set.
Timeout == {"ZERO", "FINITE", "INFINITE_TIME"}

ThreadState == {"SUSPENDED", "READY", "BLOCKED", "SLEEPING", "DEATH"}

WaitState ==
    [list    : [Queue -> Seq(Thread)],              \* wait->list
     count   : [Queue -> Int],                      \* wait->count
     live    : SUBSET Queue,                        \* those with a valid wait->magic
     state   : [Thread -> ThreadState],             \* t->state
     blockedOn : [Thread -> Queue \union {NULL}],   \* t->blocking_wait_queue
     ret     : [Thread -> Status],                  \* t->wait_queue_block_ret
     timers  : SUBSET Thread]                       \* those whose stack holds a set timer

\* All queues initialised, every thread runnable.
WaitInit ==
    [list  |-> [q \in Queue |-> << >>],
     count |-> [q \in Queue |-> 0],
     live  |-> Queue,
     state |-> [t \in Thread |-> "READY"],
     blockedOn |-> [t \in Thread |-> NULL],
     ret   |-> [t \in Thread |-> "NO_ERROR"],
     timers |-> {}]

wait_queue_init(w, q) ==
    [list      |-> [w.list EXCEPT ![q] = << >>],
     count     |-> [w.count EXCEPT ![q] = 0],
     live      |-> w.live \union {q},
     state     |-> w.state,
     blockedOn |-> w.blockedOn,
     ret       |-> w.ret,
     timers    |-> w.timers]

\* Mutant: list_add_head() instead of list_add_tail().
wait_queue_block_lifo(w, q, t, timeout) ==
    [list      |-> [w.list EXCEPT ![q] = <<t>> \o @],
     count     |-> [w.count EXCEPT ![q] = @ + 1],
     live      |-> w.live,
     state     |-> [w.state EXCEPT ![t] = "BLOCKED"],
     blockedOn |-> [w.blockedOn EXCEPT ![t] = q],
     ret       |-> [w.ret EXCEPT ![t] = "NO_ERROR"],
     timers    |-> IF timeout = "INFINITE_TIME" THEN w.timers
                                                ELSE w.timers \union {t}]

\* wait_queue_block() up to the context switch, for a timeout other than zero.
\* (A zero timeout returns ERR_TIMED_OUT and changes nothing.)
wait_queue_block(w, q, t, timeout) ==
    [list      |-> [w.list EXCEPT ![q] = Append(@, t)],
     count     |-> [w.count EXCEPT ![q] = @ + 1],
     live      |-> w.live,
     state     |-> [w.state EXCEPT ![t] = "BLOCKED"],
     blockedOn |-> [w.blockedOn EXCEPT ![t] = q],
     ret       |-> [w.ret EXCEPT ![t] = "NO_ERROR"],
     timers    |-> IF timeout = "INFINITE_TIME" THEN w.timers
                                                ELSE w.timers \union {t}]

\* wait_queue_block() from the moment thread t is switched in again: the timer
\* is cancelled, and the caller gets w.ret[t].
wait_queue_block_return(w, t) == [w EXCEPT !.timers = @ \ {t}]

\* The threads in woken leave queue q, whose list becomes rest, with return
\* value err.
Dequeue(w, q, rest, woken, err) ==
    [list      |-> [w.list EXCEPT ![q] = rest],
     count     |-> [w.count EXCEPT ![q] = @ - (Len(w.list[q]) - Len(rest))],
     live      |-> w.live,
     state     |-> [t \in Thread |-> IF t \in woken THEN "READY" ELSE w.state[t]],
     blockedOn |-> [t \in Thread |-> IF t \in woken THEN NULL ELSE w.blockedOn[t]],
     ret       |-> [t \in Thread |-> IF t \in woken THEN err ELSE w.ret[t]],
     timers    |-> w.timers]

Elements(s) == {s[i] : i \in 1 .. Len(s)}

wait_queue_wake_one(w, q, err) ==
    IF w.list[q] = << >>
    THEN w
    ELSE Dequeue(w, q, Tail(w.list[q]), {Head(w.list[q])}, err)

wait_queue_wake_all(w, q, err) == Dequeue(w, q, << >>, Elements(w.list[q]), err)

\* list_delete(): the sequence without its element t.
list_delete(s, t) ==
    LET i == CHOOSE i \in 1 .. Len(s) : s[i] = t
    IN  [j \in 1 .. Len(s) - 1 |-> IF j < i THEN s[j] ELSE s[j + 1]]

\* A thread that is not BLOCKED is left alone (ERR_NOT_BLOCKED).
thread_unblock_from_wait_queue(w, t, err) ==
    IF w.state[t] # "BLOCKED"
    THEN w
    ELSE LET q == w.blockedOn[t]
         IN  Dequeue(w, q, list_delete(w.list[q], t), {t}, err)

\* The one-shot timer of thread t fires (t is in w.timers before).
wait_queue_timeout_handler(w, t) ==
    thread_unblock_from_wait_queue([w EXCEPT !.timers = @ \ {t}], t,
                                   "ERR_TIMED_OUT")

-----------------------------------------------------------------------------
\* What every caller relies on: the queue holds exactly the threads blocked on
\* it, each once, and wait->count is its length.
NoRepeats(s) == \A i, j \in 1 .. Len(s) : s[i] = s[j] => i = j

WaitQueueOK(w) ==
    /\ \A q \in Queue :
         /\ w.count[q] = Len(w.list[q])
         /\ NoRepeats(w.list[q])
         /\ \A t \in Thread : t \in Elements(w.list[q]) <=> w.blockedOn[t] = q
    /\ \A t \in Thread : w.state[t] = "BLOCKED" <=> w.blockedOn[t] # NULL
=============================================================================
