----------------------------- MODULE ThreadLife -----------------------------
(***************************************************************************)
(* The life of a thread_t that thread_create() allocates (kernel/thread.c, *)
(* with the delayed free list of lib/heap/heap_wrapper.c): created         *)
(* suspended, resumed, joined with or without a timeout, detached, exiting *)
(* and freed, with its stack, by whoever is responsible for that.  One CPU *)
(* is assumed where it matters: thread_exit() hands its own memory to the  *)
(* heap and still runs on it until thread_resched() has switched away.     *)
(*                                                                         *)
(* A thread_t * is used only by those who may: the creator, until its      *)
(* thread_join() has returned NO_ERROR or ERR_THREAD_DETACHED, or it has   *)
(* detached a thread that may run; and another thread, which may detach a  *)
(* thread while its creator is blocked in thread_join() on it.             *)
(***************************************************************************)
EXTENDS WaitQueue

CONSTANTS
    Main,       \* the threads that create, join and detach
    Worker,     \* the memory of the threads they create; worker w's
                \* retcode_wait_queue is the queue w
    Timeouts    \* the timeouts callers pass to thread_join()

ASSUME ThreadLifeAssumption ==
    /\ Thread = Main \union Worker /\ Main \intersect Worker = {}
    /\ Queue = Worker
    /\ Timeouts \subseteq Timeout

VARIABLES
    wq,             \* wait queues and thread states
    mem,            \* the heap blocks of w: free, used, delayed (to be freed)
    magic,          \* those whose t->magic is THREAD_MAGIC
    detached,       \* those with THREAD_FLAG_DETACHED
    thread_list,    \* those in the master thread list
    owner,          \* the creator of w while it may use its pointer to w
    call            \* per main thread: where it is, and on which worker

vars == <<wq, mem, magic, detached, thread_list, owner, call>>

NoCall == [at |-> "out", t |-> NULL]

TypeOK ==
    /\ wq \in WaitState
    /\ mem \in [Worker -> {"free", "used", "delayed"}]
    /\ magic \subseteq Worker /\ detached \subseteq Worker
    /\ thread_list \subseteq Worker
    /\ owner \in [Worker -> Main \union {NULL}]
    /\ call \in [Main -> [at : {"out", "blocked", "reaping", "detaching", "resuming"},
                          t : Worker \union {NULL}]]

Init ==
    /\ wq = [WaitInit EXCEPT !.live = {},
                             !.state = [t \in Thread |-> IF t \in Main THEN "READY"
                                                                       ELSE "DEATH"]]
    /\ mem = [w \in Worker |-> "free"]
    /\ magic = {} /\ detached = {} /\ thread_list = {}
    /\ owner = [w \in Worker |-> NULL]
    /\ call = [m \in Main |-> NoCall]

-----------------------------------------------------------------------------
Idle(m) == call[m] = NoCall

MayUse(m, w) == Idle(m) /\ owner[w] = m

Enter(m, at, w) == call' = [call EXCEPT ![m] = [at |-> at, t |-> w]]

Leave(m) == call' = [call EXCEPT ![m] = NoCall]

Forget(w) == owner' = [owner EXCEPT ![w] = NULL]

\* heap_free_delayed_list(), which every malloc() starts with.
heap_free_delayed_list ==
    [w \in Worker |-> IF mem[w] = "delayed" THEN "free" ELSE mem[w]]

\* Some other malloc() finds something in the delayed free list.
malloc ==
    /\ \E w \in Worker : mem[w] = "delayed"
    /\ mem' = heap_free_delayed_list
    /\ UNCHANGED <<wq, magic, detached, thread_list, owner, call>>

\* thread_create(), given memory.
thread_create_etc(m, w) ==
    /\ Idle(m)
    /\ heap_free_delayed_list[w] = "free"
    /\ mem' = [heap_free_delayed_list EXCEPT ![w] = "used"]
    /\ wq' = [wait_queue_init(wq, w) EXCEPT !.state[w] = "SUSPENDED",
                                            !.blockedOn[w] = NULL, !.ret[w] = "NO_ERROR"]
    /\ magic' = magic \union {w}
    /\ detached' = detached \ {w}
    /\ thread_list' = thread_list \union {w}
    /\ owner' = [owner EXCEPT ![w] = m]
    /\ UNCHANGED call

\* thread_resume(), of a thread that is suspended (another is left alone).  Who
\* resumes a detached thread must not use its pointer again.
Resume(w) ==
    /\ wq.state[w] = "SUSPENDED"
    /\ wq' = [wq EXCEPT !.state[w] = "READY"]
    /\ IF w \in detached THEN Forget(w) ELSE UNCHANGED owner
    /\ UNCHANGED <<mem, magic, detached, thread_list>>

thread_resume(m, w) == MayUse(m, w) /\ Resume(w) /\ UNCHANGED call

\* thread_join() of a detached thread.
JoinDetached(m, w) ==
    /\ MayUse(m, w) /\ w \in detached
    /\ UNCHANGED vars

\* thread_join() of a thread that lives: it blocks.  (With a timeout
\* of zero it returns ERR_TIMED_OUT and changes nothing.)
JoinBlock(m, w, timeout) ==
    /\ MayUse(m, w) /\ w \notin detached
    /\ wq.state[w] # "DEATH" /\ timeout # "ZERO"
    /\ wq' = wait_queue_block(wq, w, m, timeout)
    /\ Enter(m, "blocked", w)
    /\ UNCHANGED <<mem, magic, detached, thread_list, owner>>

\* What thread_join() does, holding the lock, when the thread is dead.
Reap(m, w) ==
    /\ magic' = magic \ {w}
    /\ thread_list' = thread_list \ {w}
    /\ Enter(m, "reaping", w)

\* thread_join() of a thread that is dead already.
JoinDead(m, w) ==
    /\ MayUse(m, w) /\ w \notin detached /\ wq.state[w] = "DEATH"
    /\ Reap(m, w)
    /\ UNCHANGED <<wq, mem, detached, owner>>

\* thread_join() goes on after wait_queue_block(): an error is returned.
JoinResume(m) ==
    /\ call[m].at = "blocked" /\ wq.state[m] = "READY"
    /\ wq' = wait_queue_block_return(wq, m)
    /\ \/ /\ wq.ret[m] = "NO_ERROR"
          /\ Reap(m, call[m].t)
       \/ /\ wq.ret[m] # "NO_ERROR"
          /\ Leave(m)
          /\ UNCHANGED <<magic, thread_list>>
    /\ UNCHANGED <<mem, detached, owner>>

\* The end of thread_join(), without the lock: the stack and the struct are freed.
JoinFree(m) ==
    LET w == call[m].t
    IN  /\ call[m].at = "reaping"
        /\ mem' = [mem EXCEPT ![w] = "free"]
        /\ wq' = [wq EXCEPT !.live = @ \ {w}]
        /\ Forget(w) /\ Leave(m)
        /\ UNCHANGED <<magic, detached, thread_list>>

\* Mutant: joiners are told that the thread exited.
DetachStatus_no_error == "NO_ERROR"

\* What thread_detach() tells the thread blocked in thread_join().
DetachStatus == "ERR_THREAD_DETACHED"

\* Mutant: a dead thread is marked detached like a living one.
DetachJoins_never(w) == FALSE

\* thread_detach() has to "do what join would have".
DetachJoins(w) == wq.state[w] = "DEATH"

\* thread_detach(), up to the end or to its call of thread_join().
Detach(m, w) ==
    /\ wq' = wait_queue_wake_all(wq, w, DetachStatus)
    /\ IF DetachJoins(w)
       THEN detached' = detached \ {w} /\ Enter(m, "detaching", w)
       ELSE detached' = detached \union {w} /\ UNCHANGED call
    /\ UNCHANGED <<mem, magic, thread_list>>

\* The creator detaches; it keeps its pointer to a thread it has not resumed.
thread_detach(m, w) ==
    /\ MayUse(m, w)
    /\ Detach(m, w)
    /\ IF wq.state[w] = "READY" THEN Forget(w) ELSE UNCHANGED owner

\* Another thread detaches w while its creator is blocked in thread_join(), which
\* will return ERR_THREAD_DETACHED: the creator's pointer is of no use any more.
\* If that thread is w itself (x86's page fault handler) the effect is the same.
DetachJoined(m, w) ==
    /\ Idle(m) /\ owner[w] \in Main \ {m}
    /\ wq.blockedOn[owner[w]] = w /\ wq.state[w] # "DEATH"
    /\ Detach(m, w) /\ Forget(w)

\* thread_detach() of a dead thread calls thread_join(t, NULL, 0).
DetachJoin(m) ==
    /\ call[m].at = "detaching"
    /\ Reap(m, call[m].t)
    /\ UNCHANGED <<wq, mem, detached, owner>>

\* thread_detach_and_resume(), of a new thread: the detach, then the resume.
thread_detach_and_resume(m, w) ==
    /\ MayUse(m, w) /\ wq.state[w] = "SUSPENDED" /\ w \notin detached
    /\ wq' = wait_queue_wake_all(wq, w, DetachStatus)
    /\ detached' = detached \union {w}
    /\ Enter(m, "resuming", w)
    /\ UNCHANGED <<mem, magic, thread_list, owner>>

ThenResume(m) == call[m].at = "resuming" /\ Resume(call[m].t) /\ Leave(m)

\* Mutant: a detached thread frees itself but stays in the thread list.
Teardown_listed(w) ==
    /\ magic' = magic \ {w} /\ UNCHANGED thread_list
    /\ mem' = [mem EXCEPT ![w] = "delayed"]

\* The teardown a detached thread does for itself: heap_delayed_free().
Teardown(w) ==
    /\ magic' = magic \ {w} /\ thread_list' = thread_list \ {w}
    /\ mem' = [mem EXCEPT ![w] = "delayed"]

thread_exit(w) ==
    LET dead == [wq EXCEPT !.state[w] = "DEATH"]
    IN  /\ wq.state[w] = "READY"
        /\ \/ /\ w \in detached
              /\ Teardown(w)
              /\ wq' = dead
           \/ /\ w \notin detached
              /\ wq' = wait_queue_wake_all(dead, w, "NO_ERROR")
              /\ UNCHANGED <<magic, thread_list, mem>>
        /\ UNCHANGED <<detached, owner, call>>

\* The timer of a thread_join() with a timeout fires.
TimerFires(m) ==
    /\ m \in wq.timers
    /\ wq' = wait_queue_timeout_handler(wq, m)
    /\ UNCHANGED <<mem, magic, detached, thread_list, owner, call>>

Next ==
    \/ \E m \in Main, w \in Worker :
         \/ thread_create_etc(m, w) \/ thread_resume(m, w)
         \/ JoinDetached(m, w) \/ JoinDead(m, w)
         \/ \E timeout \in Timeouts : JoinBlock(m, w, timeout)
         \/ thread_detach(m, w) \/ DetachJoined(m, w) \/ thread_detach_and_resume(m, w)
    \/ \E m \in Main :
         \/ JoinResume(m) \/ JoinFree(m) \/ DetachJoin(m) \/ ThenResume(m)
         \/ TimerFires(m)
    \/ \E w \in Worker : thread_exit(w)
    \/ malloc

Spec == Init /\ [][Next]_vars

\* Ready threads run, and something allocates memory now and then.
FairSpec ==
    /\ Spec
    /\ \A m \in Main : WF_vars(JoinResume(m) \/ JoinFree(m) \/ DetachJoin(m) \/ ThenResume(m))
    /\ WF_vars(malloc)

-----------------------------------------------------------------------------
\* Nobody uses the memory of a thread that has been given back, and nobody
\* gives it back while it is used: a thread that is not dead has its memory; so
\* has every thread somebody may still call a function on or is inside one of,
\* unless all that is left to it is to return ERR_THREAD_DETACHED (the asserts
\* on t->magic, thread.c:323, 342, 371); the one that reaps it does so alone,
\* after its death.
NoUseAfterFree ==
    \A w \in Worker :
        LET told == {m \in Main : /\ call[m].at = "blocked"
                                  /\ wq.ret[m] = "ERR_THREAD_DETACHED"}
            inside == {m \in Main : call[m].t = w} \ told
            reapers == {m \in inside : call[m].at \in {"reaping", "detaching"}}
        IN  /\ wq.state[w] # "DEATH" \/ inside # {} => mem[w] = "used"
            /\ owner[w] # NULL /\ Idle(owner[w]) => w \in magic
            /\ wq.list[w] # << >> => w \in wq.live
            /\ reapers # {} => (\E m \in Main : inside = {m}) /\ wq.state[w] = "DEATH"

\* The master thread list, which dump_all_threads() and the debugger walk, holds
\* exactly the threads whose magic is valid, and no freed memory.
ThreadListSound ==
    /\ thread_list = magic
    /\ \A w \in thread_list : mem[w] = "used"

\* A joiner that the exit of w has woken, or one that called too late to block.
Reaped(w) == \E m \in Main : /\ call[m].t = w /\ wq.state[w] = "DEATH"
                             /\ call[m].at = "blocked" => wq.ret[m] = "NO_ERROR"

\* No dead thread leaks: one that has been detached before or after its death,
\* and one whose death a joiner has been told, is given back to the heap, if
\* only by the next malloc(), which may use it again at once.
DeadAreReclaimed ==
    \A w \in Worker :
        mem[w] = "delayed" \/ Reaped(w) \/ (wq.state[w] = "DEATH" /\ w \in detached)
            ~> mem[w] = "free" \/ wq.state[w] # "DEATH"
=============================================================================
