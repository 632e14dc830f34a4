-------------------------------- MODULE Event --------------------------------
(***************************************************************************)
(* One event_t (kernel/event.c), with or without EVENT_FLAG_AUTOUNSIGNAL,  *)
(* the threads that wait for it and the threads and interrupt handlers     *)
(* that signal it.  Calls are atomic up to the context switch inside       *)
(* wait_queue_block(), wait_queue_wake_one() or wait_queue_wake_all().     *)
(* event_unsignal() takes no lock: it is one store, so it too is one step. *)
(* The history variable owed counts the signals given to an AUTOUNSIGNAL   *)
(* event that no waiter has returned with yet.                             *)
(***************************************************************************)
EXTENDS WaitQueue, FiniteSets

CONSTANTS
    ewait,          \* &e->wait
    Flags,          \* the flags event_init() may be given: AUTOUNSIGNAL, NONE
    Timeouts        \* the timeouts callers pass to event_wait_timeout()

ASSUME EventAssumption ==
    /\ IsFiniteSet(Thread)
    /\ ewait \in Queue
    /\ Flags \subseteq {"AUTOUNSIGNAL", "NONE"}
    /\ Timeouts \subseteq Timeout

VARIABLES
    wq,         \* the wait queue and the threads' blocking state
    e,          \* the event_t: magic, signaled (0 or 1), flags
    pc,         \* out, waiting (in wait_queue_block), destroying
    rc,         \* what the thread's last wait returned
    owed        \* history: signals that have not let a waiter through yet

vars == <<wq, e, pc, rc, owed>>

EVENT_MAGIC == 1702260340   \* 'evnt'

EventState ==
    [magic : {0, EVENT_MAGIC}, signaled : {0, 1}, flags : {"AUTOUNSIGNAL", "NONE"}]

Waiting == {t \in Thread : pc[t] = "waiting"}

\* A signal has let thread t go, and t has not run since.
Granted == {t \in Waiting : wq.state[t] = "READY" /\ wq.ret[t] = "NO_ERROR"}

TypeOK ==
    /\ wq \in WaitState
    /\ e \in EventState
    /\ pc \in [Thread -> {"out", "waiting", "destroying"}]
    /\ rc \in [Thread -> Status]
    /\ owed \in Int

EVENT_INITIAL_VALUE(initial, flags) ==
    [magic |-> EVENT_MAGIC, signaled |-> initial, flags |-> flags]

Init ==
    /\ wq = WaitInit
    /\ \E initial \in {0, 1}, flags \in Flags :
         /\ e = EVENT_INITIAL_VALUE(initial, flags)
         /\ owed = initial
    /\ pc = [t \in Thread |-> "out"]
    /\ rc = [t \in Thread |-> "NO_ERROR"]

-----------------------------------------------------------------------------
Live == e.magic = EVENT_MAGIC

Idle(t) == Live /\ pc[t] = "out"

AutoUnsignal == e.flags = "AUTOUNSIGNAL"

Passes == owed' = IF AutoUnsignal THEN owed - 1 ELSE owed

\* Mutant: the event stays signaled after letting an AUTOUNSIGNAL waiter pass.
WaitSignaled_stays(t) ==
    /\ Idle(t) /\ e.signaled = 1
    /\ rc' = [rc EXCEPT ![t] = "NO_ERROR"]
    /\ Passes
    /\ UNCHANGED <<wq, e, pc>>

\* event_wait_timeout() on a signaled event.
WaitSignaled(t) ==
    /\ Idle(t) /\ e.signaled = 1
    /\ e' = IF AutoUnsignal THEN [e EXCEPT !.signaled = 0] ELSE e
    /\ rc' = [rc EXCEPT ![t] = "NO_ERROR"]
    /\ Passes
    /\ UNCHANGED <<wq, pc>>

\* event_wait_timeout() on an unsignaled event.
WaitZero(t) ==
    /\ Idle(t) /\ e.signaled = 0
    /\ "ZERO" \in Timeouts
    /\ rc' = [rc EXCEPT ![t] = "ERR_TIMED_OUT"]
    /\ UNCHANGED <<wq, e, pc, owed>>

WaitBlock(t, timeout) ==
    /\ Idle(t) /\ e.signaled = 0
    /\ timeout # "ZERO"
    /\ wq' = wait_queue_block(wq, ewait, t, timeout)
    /\ pc' = [pc EXCEPT ![t] = "waiting"]
    /\ UNCHANGED <<e, rc, owed>>

\* The waiter is switched in again; the event is not touched any more.
WaitResume(t) ==
    /\ t \in Waiting /\ wq.state[t] = "READY"
    /\ wq' = wait_queue_block_return(wq, t)
    /\ rc' = [rc EXCEPT ![t] = wq.ret[t]]
    /\ pc' = [pc EXCEPT ![t] = "out"]
    /\ IF wq.ret[t] = "NO_ERROR" THEN Passes ELSE UNCHANGED owed
    /\ UNCHANGED e

\* Mutant: an event without the flag wakes only one waiter.
SignalEffect_one ==
    /\ e' = [e EXCEPT !.signaled =
                IF AutoUnsignal /\ wq.list[ewait] # << >> THEN 0 ELSE 1]
    /\ wq' = wait_queue_wake_one(wq, ewait, "NO_ERROR")

\* What event_signal() does to an unsignaled event.
SignalEffect ==
    \/ /\ AutoUnsignal
       /\ wq' = wait_queue_wake_one(wq, ewait, "NO_ERROR")
       /\ e' = IF wq.list[ewait] = << >> THEN [e EXCEPT !.signaled = 1] ELSE e
    \/ /\ ~AutoUnsignal
       /\ e' = [e EXCEPT !.signaled = 1]
       /\ wq' = wait_queue_wake_all(wq, ewait, "NO_ERROR")

\* event_signal(), from a thread or (with reschedule false) an interrupt.
event_signal ==
    /\ Live
    /\ \/ /\ e.signaled = 0 /\ SignalEffect
          /\ owed' = IF AutoUnsignal THEN owed + 1 ELSE owed
       \/ e.signaled = 1 /\ UNCHANGED <<e, wq, owed>>
    /\ UNCHANGED <<pc, rc>>

event_unsignal ==
    /\ Live
    /\ e' = [e EXCEPT !.signaled = 0]
    /\ owed' = IF AutoUnsignal THEN owed - e.signaled ELSE owed
    /\ UNCHANGED <<wq, pc, rc>>

\* Mutant: the waiters of a destroyed event are told it was signaled.
DestroyStatus_no_error == "NO_ERROR"

\* The status wait_queue_destroy() gives to the waiters it wakes.
DestroyStatus == "ERR_OBJECT_DESTROYED"

\* event_destroy(): when it wakes waiters it is switched out before
\* wait_queue_destroy() clears wait->magic.
event_destroy(t) ==
    /\ Idle(t)
    /\ e' = [magic |-> 0, signaled |-> 0, flags |-> "NONE"]
    /\ LET woken == wait_queue_wake_all(wq, ewait, DestroyStatus)
       IN  \/ /\ wq.list[ewait] # << >>
              /\ wq' = woken
              /\ pc' = [pc EXCEPT ![t] = "destroying"]
           \/ /\ wq.list[ewait] = << >>
              /\ wq' = [woken EXCEPT !.live = @ \ {ewait}]
              /\ UNCHANGED pc
    /\ UNCHANGED <<rc, owed>>

DestroyResume(t) ==
    /\ pc[t] = "destroying"
    /\ wq' = [wq EXCEPT !.live = @ \ {ewait}]
    /\ pc' = [pc EXCEPT ![t] = "out"]
    /\ UNCHANGED <<e, rc, owed>>

\* event_init() of the same storage, once every call on the old event returned.
event_init ==
    /\ ~Live /\ \A t \in Thread : pc[t] = "out"
    /\ \E initial \in {0, 1}, flags \in Flags :
         e' = EVENT_INITIAL_VALUE(initial, flags) /\ owed' = initial
    /\ wq' = wait_queue_init(wq, ewait)
    /\ UNCHANGED <<pc, rc>>

\* The timer armed by wait_queue_block() fires in interrupt context.
TimerFires(t) ==
    /\ t \in wq.timers
    /\ wq' = wait_queue_timeout_handler(wq, t)
    /\ UNCHANGED <<e, pc, rc, owed>>

Next ==
    \/ \E t \in Thread :
         \/ WaitSignaled(t) \/ WaitZero(t) \/ WaitResume(t)
         \/ \E timeout \in Timeouts \union {"INFINITE_TIME"} : WaitBlock(t, timeout)
         \/ event_destroy(t) \/ DestroyResume(t)
         \/ TimerFires(t)
    \/ event_signal \/ event_unsignal \/ event_init

Spec == Init /\ [][Next]_vars

-----------------------------------------------------------------------------
\* Nobody sleeps on a signaled event: event_signal() cannot slip between a
\* waiter's test of e->signaled and its place in the queue, a waiter that
\* timed out does not swallow a signal, and "no threads will wait" until an
\* event without the flag is unsignaled (event.h:58).
SignaledMeansNobodyWaits == e.signaled = 1 => wq.list[ewait] = << >>

\* Each signal of an AUTOUNSIGNAL event lets exactly one waiter through: a
\* signal no waiter has returned with is either kept in e->signaled or has
\* woken one thread that has not run yet ("only one waiting thread is allowed
\* to proceed", event.c:127).  Timeouts neither consume nor duplicate signals.
OneWaiterPerSignal == Live /\ AutoUnsignal => owed = Cardinality(Granted) + e.signaled

\* Destroying the event never looks like a signal: from event_destroy() until
\* event_init() no further waiter is let go with NO_ERROR.
NoSuccessAfterDestroy == [][~Live' => Granted' \subseteq Granted]_vars

\* Woken threads run again, and somebody keeps signaling the event.
FairSpec ==
    /\ Spec
    /\ WF_vars(event_signal)
    /\ \A t \in Thread : WF_vars(WaitResume(t)) /\ WF_vars(DestroyResume(t))

\* Every wait returns: waiters are woken in the order they came, and a thread
\* that comes later cannot take the signals of one already queued.
WaitReturns == \A t \in Thread : pc[t] = "waiting" ~> pc[t] # "waiting"
=============================================================================
