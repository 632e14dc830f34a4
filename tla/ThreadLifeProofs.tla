--------------------------- MODULE ThreadLifeProofs ---------------------------
(***************************************************************************)
(* NoUseAfterFree and ThreadListSound of ThreadLife, for any threads and   *)
(* any timeouts.  What makes them inductive is who may hold a pointer to a *)
(* thread: everybody inside a call on it, but for the one that is on its   *)
(* way back with ERR_THREAD_DETACHED, is its owner; a detached thread that *)
(* may run has none; and an owned thread has its memory.                   *)
(***************************************************************************)
EXTENDS ThreadLife, WaitQueueProofs

\* m was told, or is about to be, that the thread it joined is detached.
Told(m) == call[m].at = "blocked" /\ wq.ret[m] = "ERR_THREAD_DETACHED"

\* Main threads block only in thread_join(); workers do not block.
SleepersAreJoining ==
    /\ \A m \in Main :
         /\ wq.state[m] \in {"READY", "BLOCKED"}
         /\ wq.state[m] = "BLOCKED" =>
              /\ call[m].at = "blocked" /\ wq.blockedOn[m] = call[m].t
              /\ wq.ret[m] = "NO_ERROR"
         /\ call[m].at # "out" => call[m].t \in Worker
         /\ call[m].at = "out" => call[m].t = NULL
    /\ \A w \in Worker : wq.state[w] \in {"SUSPENDED", "READY", "DEATH"}

\* Where a main thread is inside a call on worker w.
CallsOK ==
    \A m \in Main : call[m].at # "out" /\ ~Told(m) =>
        /\ owner[call[m].t] = m
        /\ call[m].at = "reaping" => call[m].t \notin magic
        /\ call[m].at \in {"reaping", "detaching"} => wq.state[call[m].t] = "DEATH"
        /\ call[m].at = "blocked" /\ wq.state[m] = "READY" /\ wq.ret[m] = "NO_ERROR" =>
             wq.state[call[m].t] = "DEATH"

\* The memory, the magic and the owner of a worker.
WorkersOK ==
    \A w \in Worker :
        /\ wq.state[w] # "DEATH" => mem[w] = "used"
        /\ owner[w] # NULL => mem[w] = "used" /\ w \in wq.live
        /\ owner[w] # NULL /\ w \notin magic =>
             call[owner[w]].at = "reaping" /\ call[owner[w]].t = w
        /\ wq.state[w] = "READY" /\ w \in detached => owner[w] = NULL

IInv ==
    /\ TypeOK
    /\ WaitQueueOK(wq)
    /\ SleepersAreJoining
    /\ CallsOK
    /\ WorkersOK
    /\ ThreadListSound

-----------------------------------------------------------------------------
\* What the assumptions say about the kinds of threads.
LEMMA Kinds ==
    /\ Main \subseteq Thread /\ Worker \subseteq Thread /\ Queue = Worker
    /\ Main \intersect Worker = {} /\ NULL \notin Main /\ NULL \notin Worker
BY ThreadLifeAssumption, NullAssumption

\* A worker somebody is queued on is owned by that thread.
LEMMA QueuedIsOwner ==
    ASSUME IInv, NEW w \in Worker, NEW m \in Thread, wq.blockedOn[m] = w
    PROVE  m \in Main /\ owner[w] = m /\ call[m].at = "blocked" /\ call[m].t = w
<1>1. wq.state[m] = "BLOCKED"
  BY Kinds DEF IInv, WaitQueueOK
<1>2. m \in Main
  BY <1>1, ThreadLifeAssumption DEF IInv, SleepersAreJoining
<1>3. call[m].at = "blocked" /\ call[m].t = w /\ ~Told(m)
  BY <1>1, <1>2 DEF IInv, SleepersAreJoining, Told
<1> QED
  BY <1>2, <1>3 DEF IInv, CallsOK, TypeOK

\* An idle owner's worker is in the thread list, and nobody is inside a call on it
\* that matters.
LEMMA MayUseAlone ==
    ASSUME IInv, NEW m \in Main, NEW w \in Worker, MayUse(m, w)
    PROVE  /\ w \in magic /\ mem[w] = "used"
           /\ \A n \in Main : call[n].at # "out" /\ call[n].t = w => Told(n)
           /\ \A n \in Thread : wq.blockedOn[n] # w
<1>1. owner[w] = m /\ call[m].at = "out"
  BY DEF MayUse, Idle, NoCall
<1>2. w \in magic /\ mem[w] = "used"
  BY <1>1, Kinds DEF IInv, WorkersOK
<1>3. \A n \in Main : call[n].at # "out" /\ call[n].t = w => Told(n)
  BY <1>1 DEF IInv, CallsOK
<1>4. \A n \in Thread : wq.blockedOn[n] # w
  BY <1>1, QueuedIsOwner
<1> QED
  BY <1>2, <1>3, <1>4

\* At start no worker has memory.
LEMMA Initially == Init => IInv
<1> SUFFICES ASSUME Init PROVE IInv
  OBVIOUS
<1>0. wq = [list  |-> [q \in Queue |-> << >>],
            count |-> [q \in Queue |-> 0],
            live  |-> {},
            state |-> [t \in Thread |-> IF t \in Main THEN "READY" ELSE "DEATH"],
            blockedOn |-> [t \in Thread |-> NULL],
            ret   |-> [t \in Thread |-> "NO_ERROR"],
            timers |-> {}]
  BY DEF Init, WaitInit
<1>1. TypeOK
  <2>1. wq \in WaitState
    BY <1>0 DEF WaitState, ThreadState, Status
  <2> QED
    BY <2>1 DEF Init, TypeOK, NoCall
<1>2. \A q \in Queue : wq.list[q] = << >> /\ wq.count[q] = 0
  BY DEF Init, WaitInit
<1>3. \A t \in Thread : /\ wq.blockedOn[t] = NULL
                        /\ wq.state[t] = IF t \in Main THEN "READY" ELSE "DEATH"
  BY DEF Init, WaitInit
<1>4. WaitQueueOK(wq)
  BY <1>2, <1>3, NullAssumption DEF WaitQueueOK, NoRepeats, Elements
<1>5. SleepersAreJoining /\ CallsOK /\ WorkersOK /\ ThreadListSound
  <2>1. \A m \in Main : call[m].at = "out" /\ call[m].t = NULL
    BY DEF Init, NoCall
  <2>2. \A w \in Worker : owner[w] = NULL /\ mem[w] = "free"
    BY DEF Init
  <2>3. magic = {} /\ thread_list = {}
    BY DEF Init
  <2>4. SleepersAreJoining
    BY <1>3, <2>1, Kinds DEF SleepersAreJoining
  <2> QED
    BY <1>3, <2>1, <2>2, <2>3, <2>4, Kinds DEF CallsOK, WorkersOK, ThreadListSound
<1> QED
  BY <1>1, <1>4, <1>5 DEF IInv

\* malloc() frees only what thread_exit() has left to it.
LEMMA MallocStep == ASSUME IInv, malloc PROVE IInv'
<1>1. /\ mem' \in [Worker -> {"free", "used", "delayed"}]
      /\ \A w \in Worker : mem'[w] = "used" <=> mem[w] = "used"
      /\ UNCHANGED <<wq, magic, detached, thread_list, owner, call>>
  BY DEF malloc, heap_free_delayed_list, IInv, TypeOK
<1> QED
  BY <1>1, Kinds DEF IInv, TypeOK, WaitQueueOK, SleepersAreJoining, CallsOK, Told,
                     WorkersOK, ThreadListSound

\* thread_create() takes memory that no thread uses: no owner, nobody inside.
LEMMA CreateStep ==
    ASSUME IInv, NEW m \in Main, NEW w \in Worker, thread_create_etc(m, w)
    PROVE  IInv'
<1> USE DEF IInv
<1>0. /\ wq \in WaitState /\ WaitQueueOK(wq) /\ w \in Queue /\ w \in Thread /\ w \notin Main
      /\ call[m].at = "out"
      /\ magic' = magic \union {w} /\ detached' = detached \ {w}
      /\ thread_list' = thread_list \union {w}
      /\ owner' = [owner EXCEPT ![w] = m] /\ call' = call
  BY Kinds DEF TypeOK, thread_create_etc, Idle, NoCall
<1>1. /\ mem[w] # "used"
      /\ mem' \in [Worker -> {"free", "used", "delayed"}]
      /\ \A v \in Worker : mem'[v] = "used" <=> v = w \/ mem[v] = "used"
  BY DEF thread_create_etc, heap_free_delayed_list, TypeOK
<1>2. /\ wq.state[w] = "DEATH" /\ owner[w] = NULL /\ w \notin magic
  BY <1>1 DEF WorkersOK, ThreadListSound
<1>b. \A n \in Main : call[n].at # "out" /\ call[n].t = w => Told(n)
  BY <1>2, Kinds DEF CallsOK
<1>3. wq.list[w] = << >>
  <2>1. wq.list[w] \in Seq(Thread) /\ Elements(wq.list[w]) \subseteq Thread
    BY <1>0 DEF WaitState, Elements
  <2>2. Elements(wq.list[w]) = {}
    <3>1. \A n \in Thread : wq.blockedOn[n] # w
      BY <1>2, QueuedIsOwner, Kinds
    <3> QED
      BY <1>0, <2>1, <3>1 DEF WaitQueueOK
  <2> QED
    BY <2>1, <2>2, EmptyElements
<1>a. PICK v : v = wait_queue_init(wq, w)
  OBVIOUS
<1>c. /\ v \in WaitState
      /\ v.list = wq.list /\ v.count = wq.count /\ v.live = wq.live \union {w}
      /\ v.state = wq.state /\ v.blockedOn = wq.blockedOn /\ v.ret = wq.ret
      /\ v.timers = wq.timers
  BY <1>0, <1>3, <1>a DEF wait_queue_init, WaitState, WaitQueueOK
<1>4. /\ wq' \in WaitState
      /\ wq'.list = wq.list /\ wq'.count = wq.count /\ wq'.live = wq.live \union {w}
      /\ wq'.state = [wq.state EXCEPT ![w] = "SUSPENDED"]
      /\ wq'.blockedOn = [wq.blockedOn EXCEPT ![w] = NULL]
      /\ wq'.ret = [wq.ret EXCEPT ![w] = "NO_ERROR"]
      /\ wq'.timers = wq.timers
  BY <1>0, <1>a, <1>c DEF thread_create_etc, WaitState, ThreadState, Status
<1>5. wq.blockedOn[w] = NULL
  BY <1>0, <1>2 DEF WaitQueueOK
<1>6. TypeOK'
  BY <1>0, <1>1, <1>4 DEF TypeOK
<1>7. WaitQueueOK(wq')
  BY <1>0, <1>2, <1>4, <1>5 DEF WaitQueueOK, WaitState
<1>8. SleepersAreJoining'
  BY <1>0, <1>4, Kinds DEF SleepersAreJoining, WaitState
<1>9. CallsOK'
  BY <1>0, <1>2, <1>b, <1>4, Kinds DEF SleepersAreJoining, CallsOK, Told, WaitState, TypeOK
<1>10. WorkersOK'
  BY <1>0, <1>1, <1>2, <1>4, Kinds DEF WorkersOK, WaitState, TypeOK
<1>11. ThreadListSound'
  BY <1>0, <1>1 DEF ThreadListSound, TypeOK
<1> QED
  BY <1>6, <1>7, <1>8, <1>9, <1>10, <1>11

\* Resuming a thread changes its state only; who resumes a detached one forgets it.
LEMMA ResumeStep ==
    ASSUME IInv, NEW m \in Main, NEW w \in Worker, owner[w] = m, Resume(w),
           \/ call' = call /\ call[m].at = "out"
           \/ call[m] = [at |-> "resuming", t |-> w] /\ Leave(m)
    PROVE  IInv'
<1> USE DEF IInv
<1>0. /\ wq \in WaitState /\ WaitQueueOK(wq) /\ w \in Thread /\ w \notin Main
      /\ wq.state[w] = "SUSPENDED"
      /\ owner' = IF w \in detached THEN [owner EXCEPT ![w] = NULL] ELSE owner
      /\ UNCHANGED <<mem, magic, detached, thread_list>>
  BY Kinds DEF TypeOK, Resume, Forget
<1>1. /\ wq' \in WaitState
      /\ wq'.list = wq.list /\ wq'.count = wq.count /\ wq'.live = wq.live
      /\ wq'.state = [wq.state EXCEPT ![w] = "READY"]
      /\ wq'.blockedOn = wq.blockedOn /\ wq'.ret = wq.ret
  BY <1>0 DEF Resume, WaitState, ThreadState
<1>2. /\ call' \in [Main -> [at : {"out", "blocked", "reaping", "detaching", "resuming"},
                             t : Worker \union {NULL}]]
      /\ \A n \in Main \ {m} : call'[n] = call[n]
      /\ call'[m].at = "out" /\ call'[m].t = NULL
  BY DEF TypeOK, Leave, NoCall, SleepersAreJoining
<1>3. TypeOK'
  BY <1>0, <1>1, <1>2 DEF TypeOK
<1>4. WaitQueueOK(wq')
  BY <1>0, <1>1 DEF WaitQueueOK, WaitState
<1>5. SleepersAreJoining'
  BY <1>0, <1>1, <1>2, Kinds DEF SleepersAreJoining, WaitState
<1>6. CallsOK'
  BY <1>0, <1>1, <1>2, Kinds DEF SleepersAreJoining, CallsOK, Told, WaitState, TypeOK
<1>7. WorkersOK'
  BY <1>0, <1>1, <1>2, Kinds DEF WorkersOK, WaitState, TypeOK
<1> QED
  BY <1>0, <1>3, <1>4, <1>5, <1>6, <1>7 DEF ThreadListSound

\* thread_join() of a living thread: its owner joins the queue.
LEMMA JoinBlockStep ==
    ASSUME IInv, NEW m \in Main, NEW w \in Worker, NEW timeout, JoinBlock(m, w, timeout)
    PROVE  IInv'
<1> USE DEF IInv
<1>0. /\ wq \in WaitState /\ WaitQueueOK(wq) /\ w \in Queue /\ m \in Thread
      /\ owner[w] = m /\ call[m].at = "out"
      /\ wq' = wait_queue_block(wq, w, m, timeout)
      /\ call' = [call EXCEPT ![m] = [at |-> "blocked", t |-> w]]
      /\ UNCHANGED <<mem, magic, detached, thread_list, owner>>
  BY Kinds DEF TypeOK, JoinBlock, MayUse, Idle, NoCall, Enter
<1>1. wq.blockedOn[m] = NULL
  BY <1>0 DEF SleepersAreJoining, WaitQueueOK
<1>2. wq' \in WaitState /\ WaitQueueOK(wq')
  BY <1>0, <1>1, BlockType, BlockOK
<1>3. /\ wq'.live = wq.live
      /\ wq'.state = [wq.state EXCEPT ![m] = "BLOCKED"]
      /\ wq'.blockedOn = [wq.blockedOn EXCEPT ![m] = w]
      /\ wq'.ret = [wq.ret EXCEPT ![m] = "NO_ERROR"]
  <2>1. /\ wq \in WaitState /\ w \in Queue /\ m \in Thread
        /\ wq' = wait_queue_block(wq, w, m, timeout)
    BY <1>0
  <2> HIDE DEF IInv
  <2> QED
    BY <2>1, BlockEffect
<1>4. TypeOK'
  BY <1>0, <1>2 DEF TypeOK
<1>5. /\ \A n \in Main \ {m} : call'[n] = call[n]
      /\ call'[m].at = "blocked" /\ call'[m].t = w
  BY <1>0 DEF TypeOK
<1>6. SleepersAreJoining'
  BY <1>0, <1>3, <1>5, Kinds DEF SleepersAreJoining, WaitState
<1>7. CallsOK'
  BY <1>0, <1>3, <1>5, Kinds DEF SleepersAreJoining, CallsOK, Told, WaitState
<1>8. WorkersOK'
  BY <1>0, <1>3, <1>5, Kinds DEF WorkersOK, WaitState, TypeOK
<1> QED
  BY <1>0, <1>2, <1>4, <1>6, <1>7, <1>8 DEF ThreadListSound

\* The owner of a dead thread takes it off the thread list, whichever way it comes.
LEMMA ReapStep ==
    ASSUME IInv, NEW m \in Main, NEW w \in Worker, Reap(m, w),
           owner[w] = m, wq.state[w] = "DEATH", wq.state[m] = "READY",
           call[m].at # "reaping",
           wq' \in WaitState, wq'.list = wq.list, wq'.count = wq.count,
           wq'.live = wq.live, wq'.state = wq.state,
           wq'.blockedOn = wq.blockedOn, wq'.ret = wq.ret,
           UNCHANGED <<mem, detached, owner>>
    PROVE  IInv'
<1> USE DEF IInv
<1>0. /\ magic' = magic \ {w} /\ thread_list' = thread_list \ {w}
      /\ call' = [call EXCEPT ![m] = [at |-> "reaping", t |-> w]]
  BY DEF Reap, Enter
<1>1. /\ \A n \in Main \ {m} : call'[n] = call[n]
      /\ call'[m].at = "reaping" /\ call'[m].t = w
  BY <1>0 DEF TypeOK
<1>2. TypeOK'
  BY <1>0 DEF TypeOK
<1>3. WaitQueueOK(wq')
  BY DEF WaitQueueOK
<1>4. SleepersAreJoining'
  BY <1>1, Kinds DEF SleepersAreJoining
<1>5. CallsOK'
  BY <1>0, <1>1 DEF CallsOK, Told
<1>6. WorkersOK'
  BY <1>0, <1>1, Kinds DEF WorkersOK, TypeOK
<1> QED
  BY <1>0, <1>2, <1>3, <1>4, <1>5, <1>6 DEF ThreadListSound

\* thread_join() goes on: it reaps the thread or returns an error.
LEMMA JoinResumeStep == ASSUME IInv, NEW m \in Main, JoinResume(m) PROVE IInv'
<1> USE DEF IInv
<1>0. /\ wq \in WaitState /\ WaitQueueOK(wq) /\ m \in Thread
      /\ call[m].at = "blocked" /\ wq.state[m] = "READY" /\ call[m].t \in Worker
      /\ wq' = wait_queue_block_return(wq, m)
      /\ UNCHANGED <<mem, detached, owner>>
  BY Kinds DEF TypeOK, JoinResume, SleepersAreJoining
<1>1. /\ wq' \in WaitState
      /\ wq'.list = wq.list /\ wq'.count = wq.count /\ wq'.live = wq.live
      /\ wq'.state = wq.state /\ wq'.blockedOn = wq.blockedOn /\ wq'.ret = wq.ret
  BY <1>0 DEF wait_queue_block_return, WaitState
<1>2. CASE wq.ret[m] = "NO_ERROR" /\ Reap(m, call[m].t)
  <2>1. ~Told(m)
    BY <1>2 DEF Told
  <2>2. owner[call[m].t] = m /\ wq.state[call[m].t] = "DEATH"
    BY <1>0, <1>2, <2>1 DEF CallsOK
  <2> QED
    BY <1>0, <1>1, <1>2, <2>2, ReapStep
<1>3. CASE wq.ret[m] # "NO_ERROR" /\ Leave(m) /\ UNCHANGED <<magic, thread_list>>
  <2>1. /\ \A n \in Main \ {m} : call'[n] = call[n]
        /\ call'[m].at = "out" /\ call'[m].t = NULL
        /\ call' = [call EXCEPT ![m] = NoCall]
    BY <1>3 DEF TypeOK, Leave, NoCall
  <2>2. TypeOK'
    BY <1>0, <1>1, <1>3, <2>1 DEF TypeOK, NoCall
  <2>3. WaitQueueOK(wq')
    BY <1>1 DEF WaitQueueOK
  <2>4. SleepersAreJoining'
    BY <1>0, <1>1, <2>1, Kinds DEF SleepersAreJoining
  <2>5. CallsOK'
    BY <1>0, <1>1, <1>3, <2>1 DEF CallsOK, Told
  <2>6. WorkersOK'
    BY <1>0, <1>1, <1>3, <2>1, Kinds DEF WorkersOK, TypeOK
  <2> QED
    BY <1>0, <1>3, <2>2, <2>3, <2>4, <2>5, <2>6 DEF ThreadListSound
<1> QED
  BY <1>2, <1>3 DEF JoinResume

\* The reaper frees the thread: nobody else is inside a call on it.
LEMMA JoinFreeStep == ASSUME IInv, NEW m \in Main, JoinFree(m) PROVE IInv'
<1> USE DEF IInv
<1>a. PICK w : w = call[m].t
  OBVIOUS
<1>0. /\ wq \in WaitState /\ WaitQueueOK(wq)
      /\ w \in Worker /\ call[m].at = "reaping" /\ call[m].t = w
      /\ mem' = [mem EXCEPT ![w] = "free"]
      /\ owner' = [owner EXCEPT ![w] = NULL]
      /\ call' = [call EXCEPT ![m] = NoCall]
      /\ UNCHANGED <<magic, detached, thread_list>>
  BY <1>a DEF TypeOK, JoinFree, SleepersAreJoining, Forget, Leave
<1>1. owner[w] = m /\ wq.state[w] = "DEATH" /\ w \notin magic
  BY <1>0 DEF CallsOK, Told
<1>2. /\ wq' \in WaitState
      /\ wq'.list = wq.list /\ wq'.count = wq.count /\ wq'.live = wq.live \ {w}
      /\ wq'.state = wq.state /\ wq'.blockedOn = wq.blockedOn /\ wq'.ret = wq.ret
  BY <1>0, <1>a DEF JoinFree, WaitState
<1>3. /\ \A n \in Main \ {m} : call'[n] = call[n]
      /\ call'[m].at = "out" /\ call'[m].t = NULL
  BY <1>0 DEF TypeOK, NoCall
<1>4. TypeOK'
  BY <1>0, <1>2 DEF TypeOK, NoCall
<1>5. WaitQueueOK(wq')
  BY <1>2 DEF WaitQueueOK
<1>6. SleepersAreJoining'
  BY <1>0, <1>2, <1>3, Kinds DEF SleepersAreJoining
<1>7. CallsOK'
  BY <1>0, <1>1, <1>2, <1>3, Kinds DEF CallsOK, Told, TypeOK, SleepersAreJoining
<1>8. WorkersOK'
  BY <1>0, <1>1, <1>2, <1>3, Kinds DEF WorkersOK, TypeOK
<1> QED
  BY <1>0, <1>1, <1>4, <1>5, <1>6, <1>7, <1>8 DEF ThreadListSound, TypeOK

\* The timer of a join only makes its thread runnable, with ERR_TIMED_OUT.
LEMMA TimerStep == ASSUME IInv, NEW m \in Main, TimerFires(m) PROVE IInv'
<1> USE DEF IInv
<1>0. /\ wq \in WaitState /\ WaitQueueOK(wq) /\ m \in Thread
      /\ wq' = wait_queue_timeout_handler(wq, m)
      /\ UNCHANGED <<mem, magic, detached, thread_list, owner, call>>
  BY Kinds DEF TypeOK, TimerFires
<1>1. /\ wq' \in WaitState /\ WaitQueueOK(wq') /\ wq'.live = wq.live
      /\ wq.state[m] # "BLOCKED" =>
           /\ wq'.list = wq.list /\ wq'.state = wq.state
           /\ wq'.blockedOn = wq.blockedOn /\ wq'.ret = wq.ret
      /\ wq.state[m] = "BLOCKED" =>
           /\ wq'.state = [wq.state EXCEPT ![m] = "READY"]
           /\ wq'.blockedOn = [wq.blockedOn EXCEPT ![m] = NULL]
           /\ wq'.ret = [wq.ret EXCEPT ![m] = "ERR_TIMED_OUT"]
  <2>1. wq' \in WaitState /\ WaitQueueOK(wq') /\ TimedOut(wq', wq, m)
    BY <1>0, TimeoutEffect
  <2> QED
    BY <1>0, <2>1 DEF TimedOut
<1>2. TypeOK'
  BY <1>0, <1>1 DEF TypeOK
<1>3. CASE wq.state[m] # "BLOCKED"
  BY <1>0, <1>1, <1>2, <1>3
     DEF SleepersAreJoining, CallsOK, Told, WorkersOK, ThreadListSound
<1>4. CASE wq.state[m] = "BLOCKED"
  <2>1. \A u \in Thread :
          IF u = m
          THEN /\ wq'.state[u] = "READY" /\ wq'.blockedOn[u] = NULL
               /\ wq'.ret[u] = "ERR_TIMED_OUT"
          ELSE /\ wq'.state[u] = wq.state[u] /\ wq'.blockedOn[u] = wq.blockedOn[u]
               /\ wq'.ret[u] = wq.ret[u]
    BY <1>0, <1>1, <1>4 DEF WaitState
  <2>2. call' = call /\ owner' = owner /\ magic' = magic /\ mem' = mem
        /\ detached' = detached /\ thread_list' = thread_list /\ wq'.live = wq.live
    BY <1>0, <1>1
  <2>3. SleepersAreJoining'
    BY <2>1, <2>2, Kinds DEF SleepersAreJoining
  <2>4. CallsOK'
    BY <1>4, <2>1, <2>2, Kinds DEF SleepersAreJoining, CallsOK, Told
  <2>5. WorkersOK'
    BY <2>1, <2>2, Kinds DEF WorkersOK
  <2> QED
    BY <1>1, <1>2, <2>2, <2>3, <2>4, <2>5 DEF ThreadListSound
<1> QED
  BY <1>3, <1>4

\* thread_detach() by the owner, who is idle: nobody is queued.
LEMMA DetachStep ==
    ASSUME IInv, NEW m \in Main, NEW w \in Worker, thread_detach(m, w)
    PROVE  IInv'
<1> USE DEF IInv
<1>0. /\ wq \in WaitState /\ WaitQueueOK(wq) /\ w \in Queue /\ DetachStatus \in Status
      /\ w \in Thread /\ w \notin Main
      /\ MayUse(m, w) /\ owner[w] = m /\ call[m].at = "out"
      /\ wq' = wait_queue_wake_all(wq, w, DetachStatus)
      /\ UNCHANGED <<mem, magic, thread_list>>
  BY Kinds DEF TypeOK, Status, DetachStatus, thread_detach, Detach, MayUse, Idle, NoCall
<1>1. /\ wq' \in WaitState /\ WaitQueueOK(wq') /\ wq'.live = wq.live
      /\ \A u \in Thread :
           IF wq.blockedOn[u] = w
           THEN wq'.state[u] = "READY" /\ wq'.blockedOn[u] = NULL
           ELSE /\ wq'.state[u] = wq.state[u] /\ wq'.blockedOn[u] = wq.blockedOn[u]
                /\ wq'.ret[u] = wq.ret[u]
  BY <1>0, WakeAllEffect
<1>2. \A u \in Thread : /\ wq'.state[u] = wq.state[u] /\ wq'.ret[u] = wq.ret[u]
                        /\ wq'.blockedOn[u] = wq.blockedOn[u]
  BY <1>0, <1>1, MayUseAlone
<1>3. CASE wq.state[w] = "DEATH"
  <2>1. /\ detached' = detached \ {w} /\ owner' = owner
        /\ call' = [call EXCEPT ![m] = [at |-> "detaching", t |-> w]]
    BY <1>3 DEF thread_detach, Detach, DetachJoins, Enter
  <2>2. /\ \A n \in Main \ {m} : call'[n] = call[n]
        /\ call'[m].at = "detaching" /\ call'[m].t = w
    BY <2>1 DEF TypeOK
  <2>3. TypeOK'
    BY <1>0, <1>1, <2>1 DEF TypeOK
  <2>4. SleepersAreJoining'
    BY <1>0, <1>2, <2>2, Kinds DEF SleepersAreJoining
  <2>5. CallsOK'
    BY <1>0, <1>2, <1>3, <2>1, <2>2, Kinds DEF SleepersAreJoining, CallsOK, Told
  <2>6. WorkersOK'
    BY <1>0, <1>1, <1>2, <2>1, <2>2, Kinds DEF WorkersOK, TypeOK
  <2> QED
    BY <1>0, <1>1, <2>3, <2>4, <2>5, <2>6 DEF ThreadListSound
<1>4. CASE wq.state[w] # "DEATH"
  <2>1. /\ detached' = detached \union {w} /\ call' = call
        /\ owner' = IF wq.state[w] = "READY" THEN [owner EXCEPT ![w] = NULL] ELSE owner
    BY <1>4 DEF thread_detach, Detach, DetachJoins, Forget
  <2>2. TypeOK'
    BY <1>0, <1>1, <2>1 DEF TypeOK
  <2>3. SleepersAreJoining'
    BY <1>0, <1>2, <2>1, Kinds DEF SleepersAreJoining
  <2>4. CallsOK'
    <3>1. \A n \in Main : call[n].at # "out" /\ ~Told(n) => owner'[call[n].t] = owner[call[n].t]
      BY <1>0, <2>1, MayUseAlone DEF TypeOK, SleepersAreJoining
    <3> QED
      BY <1>0, <1>2, <2>1, <3>1, Kinds DEF SleepersAreJoining, CallsOK, Told
  <2>5. WorkersOK'
    BY <1>0, <1>1, <1>2, <2>1, Kinds DEF WorkersOK, TypeOK
  <2> QED
    BY <1>0, <1>1, <2>2, <2>3, <2>4, <2>5 DEF ThreadListSound
<1> QED
  BY <1>3, <1>4

\* thread_detach() by another thread: the owner is told.
LEMMA DetachJoinedStep ==
    ASSUME IInv, NEW m \in Main, NEW w \in Worker, DetachJoined(m, w)
    PROVE  IInv'
<1> USE DEF IInv
<1>0. /\ wq \in WaitState /\ WaitQueueOK(wq) /\ w \in Queue /\ DetachStatus \in Status
      /\ w \in Thread /\ w \notin Main
      /\ wq.state[w] # "DEATH"
      /\ wq' = wait_queue_wake_all(wq, w, DetachStatus)
      /\ detached' = detached \union {w} /\ owner' = [owner EXCEPT ![w] = NULL]
      /\ UNCHANGED <<mem, magic, thread_list, call>>
  BY Kinds DEF TypeOK, Status, DetachStatus, DetachJoined, Detach, DetachJoins, Forget
<1>1. /\ wq' \in WaitState /\ WaitQueueOK(wq') /\ wq'.live = wq.live
      /\ \A u \in Thread :
           IF wq.blockedOn[u] = w
           THEN /\ wq'.state[u] = "READY" /\ wq'.blockedOn[u] = NULL
                /\ wq'.ret[u] = DetachStatus
           ELSE /\ wq'.state[u] = wq.state[u] /\ wq'.blockedOn[u] = wq.blockedOn[u]
                /\ wq'.ret[u] = wq.ret[u]
  BY <1>0, WakeAllEffect
<1>2. \A v \in Worker : wq'.state[v] = wq.state[v]
  BY <1>1, Kinds DEF SleepersAreJoining, WaitQueueOK
<1>3. PICK j \in Main : /\ owner[w] = j /\ wq.blockedOn[j] = w
                        /\ call[j].at = "blocked" /\ call[j].t = w
  BY Kinds, QueuedIsOwner DEF DetachJoined
<1>4. TypeOK'
  BY <1>0, <1>1 DEF TypeOK
<1>5. SleepersAreJoining'
  BY <1>0, <1>1, <1>2, Kinds DEF SleepersAreJoining
<1>6. CallsOK'
  <2>1. ASSUME NEW n \in Main, call[n].at # "out", ~Told(n)' PROVE n # j /\ call[n].t # w
    <3>1. n # j
      BY <1>0, <1>1, <1>3, <2>1, Kinds DEF Told, DetachStatus
    <3>2. ~Told(n)
      BY <1>0, <1>1, <2>1, Kinds DEF Told, DetachStatus, SleepersAreJoining, WaitQueueOK
    <3> QED
      BY <1>3, <2>1, <3>1, <3>2 DEF CallsOK
  <2>2. ASSUME NEW n \in Main, call[n].at # "out", ~Told(n)'
        PROVE  /\ ~Told(n) /\ call[n].t # w
               /\ wq'.state[n] = wq.state[n] /\ wq'.ret[n] = wq.ret[n]
    <3>1. n # j /\ call[n].t # w
      BY <2>1, <2>2
    <3>2. wq.blockedOn[n] # w
      BY <1>3, <3>1, QueuedIsOwner, Kinds
    <3> QED
      BY <1>0, <1>1, <2>2, <3>1, <3>2, Kinds DEF Told
  <2> QED
    BY <1>0, <1>2, <2>2, Kinds DEF CallsOK, TypeOK, SleepersAreJoining
<1>7. WorkersOK'
  BY <1>0, <1>1, <1>2, Kinds DEF WorkersOK, TypeOK
<1> QED
  BY <1>0, <1>1, <1>4, <1>5, <1>6, <1>7 DEF ThreadListSound

\* thread_detach_and_resume() of a new thread, up to the resume.
LEMMA DetachNewStep ==
    ASSUME IInv, NEW m \in Main, NEW w \in Worker, thread_detach_and_resume(m, w)
    PROVE  IInv'
<1> USE DEF IInv
<1>0. /\ wq \in WaitState /\ WaitQueueOK(wq) /\ w \in Queue /\ DetachStatus \in Status
      /\ w \in Thread /\ w \notin Main
      /\ MayUse(m, w) /\ owner[w] = m /\ call[m].at = "out" /\ wq.state[w] = "SUSPENDED"
      /\ wq' = wait_queue_wake_all(wq, w, DetachStatus)
      /\ detached' = detached \union {w}
      /\ call' = [call EXCEPT ![m] = [at |-> "resuming", t |-> w]]
      /\ UNCHANGED <<mem, magic, thread_list, owner>>
  BY Kinds DEF TypeOK, Status, DetachStatus, thread_detach_and_resume, MayUse, Idle,
               NoCall, Enter
<1>1. /\ wq' \in WaitState /\ WaitQueueOK(wq') /\ wq'.live = wq.live
      /\ \A u \in Thread :
           IF wq.blockedOn[u] = w
           THEN wq'.state[u] = "READY" /\ wq'.blockedOn[u] = NULL
           ELSE /\ wq'.state[u] = wq.state[u] /\ wq'.blockedOn[u] = wq.blockedOn[u]
                /\ wq'.ret[u] = wq.ret[u]
  BY <1>0, WakeAllEffect
<1>2. \A u \in Thread : /\ wq'.state[u] = wq.state[u] /\ wq'.ret[u] = wq.ret[u]
                        /\ wq'.blockedOn[u] = wq.blockedOn[u]
  BY <1>0, <1>1, MayUseAlone
<1>3. /\ \A n \in Main \ {m} : call'[n] = call[n]
      /\ call'[m].at = "resuming" /\ call'[m].t = w
  BY <1>0 DEF TypeOK
<1>4. TypeOK'
  BY <1>0, <1>1 DEF TypeOK
<1>5. SleepersAreJoining'
  BY <1>0, <1>2, <1>3, Kinds DEF SleepersAreJoining
<1>6. CallsOK'
  BY <1>0, <1>2, <1>3, Kinds DEF SleepersAreJoining, CallsOK, Told
<1>7. WorkersOK'
  BY <1>0, <1>1, <1>2, <1>3, Kinds DEF WorkersOK, TypeOK
<1> QED
  BY <1>0, <1>1, <1>4, <1>5, <1>6, <1>7 DEF ThreadListSound

\* thread_exit(): a detached thread gives its memory up, another wakes its joiner.
LEMMA ExitStep == ASSUME IInv, NEW w \in Worker, thread_exit(w) PROVE IInv'
<1> USE DEF IInv
<1>a. PICK dead : dead = [wq EXCEPT !.state[w] = "DEATH"]
  OBVIOUS
<1>0. /\ wq \in WaitState /\ WaitQueueOK(wq) /\ w \in Queue /\ "NO_ERROR" \in Status
      /\ w \in Thread /\ w \notin Main
      /\ wq.state[w] = "READY"
      /\ UNCHANGED <<detached, owner, call>>
  BY Kinds DEF TypeOK, Status, thread_exit
<1>1. /\ dead \in WaitState
      /\ dead.list = wq.list /\ dead.count = wq.count /\ dead.live = wq.live
      /\ dead.blockedOn = wq.blockedOn /\ dead.ret = wq.ret
      /\ dead.state = [wq.state EXCEPT ![w] = "DEATH"]
  BY <1>0, <1>a DEF WaitState, ThreadState
<1>2. WaitQueueOK(dead)
  BY <1>0, <1>1 DEF WaitQueueOK, WaitState
<1>3. CASE w \in detached /\ Teardown(w) /\ wq' = dead
  <2>1. /\ owner[w] = NULL
        /\ mem' = [mem EXCEPT ![w] = "delayed"]
        /\ magic' = magic \ {w} /\ thread_list' = thread_list \ {w}
    BY <1>0, <1>3 DEF WorkersOK, Teardown
  <2>2. \A u \in Thread : wq'.state[u] = IF u = w THEN "DEATH" ELSE wq.state[u]
    BY <1>1, <1>3 DEF WaitState
  <2>3. wq'.blockedOn = wq.blockedOn /\ wq'.ret = wq.ret /\ wq'.live = wq.live
    BY <1>1, <1>3
  <2>4. TypeOK'
    BY <1>0, <1>1, <1>3, <2>1 DEF TypeOK
  <2>5. SleepersAreJoining'
    BY <1>0, <2>2, <2>3, Kinds DEF SleepersAreJoining
  <2>6. CallsOK'
    <3> HIDE DEF IInv
    <3>1. CallsOK /\ SleepersAreJoining
      BY DEF IInv
    <3> QED
      BY <1>0, <2>1, <2>2, <2>3, <3>1, Kinds DEF CallsOK, Told, SleepersAreJoining
  <2>7. WorkersOK'
    BY <1>0, <2>1, <2>2, <2>3, Kinds DEF WorkersOK, TypeOK
  <2>8. ThreadListSound'
    BY <2>1 DEF ThreadListSound, TypeOK
  <2> QED
    BY <1>2, <1>3, <2>4, <2>5, <2>6, <2>7, <2>8
<1>4. CASE /\ wq' = wait_queue_wake_all(dead, w, "NO_ERROR")
           /\ UNCHANGED <<magic, thread_list, mem>>
  <2>1. /\ wq' \in WaitState /\ WaitQueueOK(wq') /\ wq'.live = dead.live
        /\ \A u \in Thread :
             IF dead.blockedOn[u] = w
             THEN /\ wq'.state[u] = "READY" /\ wq'.blockedOn[u] = NULL
                  /\ wq'.ret[u] = "NO_ERROR"
             ELSE /\ wq'.state[u] = dead.state[u] /\ wq'.blockedOn[u] = dead.blockedOn[u]
                  /\ wq'.ret[u] = dead.ret[u]
    <3>1. /\ dead \in WaitState /\ WaitQueueOK(dead) /\ w \in Queue /\ "NO_ERROR" \in Status
          /\ wq' = wait_queue_wake_all(dead, w, "NO_ERROR")
      BY <1>0, <1>1, <1>2, <1>4
    <3> QED
      BY <3>1, WakeAllEffect
  <2>2. wq.blockedOn[w] = NULL /\ \A v \in Worker : wq.blockedOn[v] = NULL
    BY <1>0, Kinds DEF SleepersAreJoining, WaitQueueOK
  <2>3. \A u \in Thread :
          IF wq.blockedOn[u] = w
          THEN /\ wq'.state[u] = "READY" /\ wq'.blockedOn[u] = NULL
               /\ wq'.ret[u] = "NO_ERROR"
          ELSE /\ wq'.state[u] = IF u = w THEN "DEATH" ELSE wq.state[u]
               /\ wq'.blockedOn[u] = wq.blockedOn[u] /\ wq'.ret[u] = wq.ret[u]
    BY <1>0, <1>1, <2>1 DEF WaitState
  <2>4. \A v \in Worker : wq'.state[v] = IF v = w THEN "DEATH" ELSE wq.state[v]
    BY <2>2, <2>3, Kinds
  <2>5. TypeOK'
    BY <1>0, <1>4, <2>1 DEF TypeOK
  <2>6. SleepersAreJoining'
    BY <1>0, <2>3, <2>4, Kinds DEF SleepersAreJoining
  <2>7. \A n \in Main : wq.blockedOn[n] = w =>
            wq.state[n] = "BLOCKED" /\ call[n].at = "blocked" /\ call[n].t = w
    BY <1>0, Kinds, QueuedIsOwner DEF WaitQueueOK
  <2>8. CallsOK'
    <3> HIDE DEF IInv
    <3>1. CallsOK /\ SleepersAreJoining
      BY DEF IInv
    <3> QED
      BY <1>0, <1>4, <2>3, <2>4, <2>7, <3>1, Kinds DEF CallsOK, Told, SleepersAreJoining
  <2>9. WorkersOK'
    BY <1>0, <1>1, <1>4, <2>1, <2>4, Kinds DEF WorkersOK, TypeOK
  <2> QED
    BY <1>4, <2>1, <2>5, <2>6, <2>8, <2>9 DEF ThreadListSound
<1> QED
  BY <1>3, <1>4, <1>a DEF thread_exit

-----------------------------------------------------------------------------
\* Every step preserves the invariant.
LEMMA Inductive == IInv /\ [Next]_vars => IInv'
<1> SUFFICES ASSUME IInv, [Next]_vars PROVE IInv'
  OBVIOUS
<1>1. ASSUME NEW m \in Main, NEW w \in Worker, thread_create_etc(m, w) PROVE IInv'
  BY <1>1, CreateStep
<1>2. ASSUME NEW m \in Main, NEW w \in Worker, thread_resume(m, w) PROVE IInv'
  <2>1. Resume(w) /\ owner[w] = m /\ call' = call /\ call[m].at = "out"
    BY <1>2 DEF thread_resume, MayUse, Idle, NoCall
  <2> QED
    BY <2>1, ResumeStep
<1>3. ASSUME NEW m \in Main, NEW w \in Worker, JoinDead(m, w) PROVE IInv'
  <2>1. /\ Reap(m, w) /\ owner[w] = m /\ wq.state[w] = "DEATH" /\ call[m].at = "out"
        /\ UNCHANGED <<wq, mem, detached, owner>>
    BY <1>3 DEF JoinDead, MayUse, Idle, NoCall
  <2>2. wq.state[m] = "READY" /\ wq' \in WaitState
    BY <2>1 DEF IInv, TypeOK, SleepersAreJoining
  <2> QED
    BY <2>1, <2>2, ReapStep
<1>4. ASSUME NEW m \in Main, NEW w \in Worker, NEW timeout, JoinBlock(m, w, timeout)
      PROVE  IInv'
  BY <1>4, JoinBlockStep
<1>5. ASSUME NEW m \in Main, NEW w \in Worker, thread_detach(m, w) PROVE IInv'
  BY <1>5, DetachStep
<1>6. ASSUME NEW m \in Main, NEW w \in Worker, DetachJoined(m, w) PROVE IInv'
  BY <1>6, DetachJoinedStep
<1>7. ASSUME NEW m \in Main, NEW w \in Worker, thread_detach_and_resume(m, w) PROVE IInv'
  BY <1>7, DetachNewStep
<1>8. ASSUME NEW m \in Main, JoinResume(m) PROVE IInv'
  BY <1>8, JoinResumeStep
<1>9. ASSUME NEW m \in Main, JoinFree(m) PROVE IInv'
  BY <1>9, JoinFreeStep
<1>10. ASSUME NEW m \in Main, DetachJoin(m) PROVE IInv'
  <2>1. /\ Reap(m, call[m].t) /\ call[m].at = "detaching"
        /\ UNCHANGED <<wq, mem, detached, owner>>
    BY <1>10 DEF DetachJoin
  <2>2. call[m].t \in Worker /\ wq.state[m] = "READY" /\ wq' \in WaitState
    BY <2>1 DEF IInv, TypeOK, SleepersAreJoining
  <2>3. owner[call[m].t] = m /\ wq.state[call[m].t] = "DEATH"
    BY <2>1 DEF IInv, CallsOK, Told
  <2> QED
    BY <2>1, <2>2, <2>3, ReapStep
<1>11. ASSUME NEW m \in Main, ThenResume(m) PROVE IInv'
  <2>1. call[m].at = "resuming" /\ Resume(call[m].t) /\ Leave(m)
    BY <1>11 DEF ThenResume
  <2>2. call[m].t \in Worker /\ call[m] = [at |-> "resuming", t |-> call[m].t]
    BY <2>1 DEF IInv, TypeOK, SleepersAreJoining
  <2>3. owner[call[m].t] = m
    BY <2>1 DEF IInv, CallsOK, Told
  <2> QED
    BY <2>1, <2>2, <2>3, ResumeStep
<1>12. ASSUME NEW m \in Main, TimerFires(m) PROVE IInv'
  BY <1>12, TimerStep
<1>13. ASSUME NEW w \in Worker, thread_exit(w) PROVE IInv'
  BY <1>13, ExitStep
<1>14. CASE malloc
  BY <1>14, MallocStep
<1>15. CASE UNCHANGED vars
  <2>1. /\ wq' = wq /\ mem' = mem /\ magic' = magic /\ detached' = detached
        /\ thread_list' = thread_list /\ owner' = owner /\ call' = call
    BY <1>15 DEF vars
  <2>2. TypeOK'
    BY <2>1 DEF IInv, TypeOK
  <2>3. WaitQueueOK(wq')
    BY <2>1 DEF IInv
  <2>4. SleepersAreJoining' /\ CallsOK'
    BY <2>1, Zenon DEF IInv, SleepersAreJoining, CallsOK, Told
  <2>5. WorkersOK' /\ ThreadListSound'
    BY <2>1, Zenon DEF IInv, WorkersOK, ThreadListSound
  <2> QED
    BY <2>2, <2>3, <2>4, <2>5 DEF IInv
<1>16. ASSUME NEW m \in Main, NEW w \in Worker, JoinDetached(m, w) PROVE IInv'
  BY <1>15, <1>16 DEF JoinDetached
<1> QED
  BY <1>1, <1>2, <1>3, <1>4, <1>5, <1>6, <1>7, <1>8, <1>9, <1>10, <1>11, <1>12, <1>13,
     <1>14, <1>15, <1>16 DEF Next

\* The invariant holds in every reachable state.
THEOREM ThreadLifeInvariant == Spec => []IInv
<1>1. IInv /\ [Next]_vars => IInv'
  BY Inductive
<1> QED
  BY <1>1, Initially, PTL DEF Spec

\* The thread list holds exactly the threads with a valid magic, all allocated.
THEOREM ThreadListIsSound == Spec => []ThreadListSound
<1>1. IInv => ThreadListSound
  BY DEF IInv
<1> QED
  BY <1>1, ThreadLifeInvariant, PTL

\* No thread_t is used by thread_join(), thread_detach(), thread_resume() or its own
\* thread after its memory is given back, and only one caller gives it back.
THEOREM MemoryOutlivesUse == Spec => []NoUseAfterFree
<1>1. IInv => NoUseAfterFree
  <2> SUFFICES ASSUME IInv, NEW w \in Worker
               PROVE  LET told == {m \in Main : /\ call[m].at = "blocked"
                                                /\ wq.ret[m] = "ERR_THREAD_DETACHED"}
                          inside == {m \in Main : call[m].t = w} \ told
                          reapers == {m \in inside : call[m].at \in {"reaping", "detaching"}}
                      IN  /\ wq.state[w] # "DEATH" \/ inside # {} => mem[w] = "used"
                          /\ owner[w] # NULL /\ Idle(owner[w]) => w \in magic
                          /\ wq.list[w] # << >> => w \in wq.live
                          /\ reapers # {} =>
                               (\E m \in Main : inside = {m}) /\ wq.state[w] = "DEATH"
    BY DEF NoUseAfterFree
  <2> DEFINE told == {m \in Main : /\ call[m].at = "blocked"
                                   /\ wq.ret[m] = "ERR_THREAD_DETACHED"}
             inside == {m \in Main : call[m].t = w} \ told
             reapers == {m \in inside : call[m].at \in {"reaping", "detaching"}}
  <2> USE DEF IInv
  <2>1. \A m \in inside : m \in Main /\ call[m].at # "out" /\ ~Told(m) /\ call[m].t = w
    BY Kinds DEF SleepersAreJoining, Told
  <2> HIDE DEF inside
  <2>2. \A m \in inside : owner[w] = m
    BY <2>1 DEF CallsOK
  <2>3. wq.state[w] # "DEATH" \/ inside # {} => mem[w] = "used"
    BY <2>1, <2>2, Kinds DEF WorkersOK
  <2>4. owner[w] # NULL /\ Idle(owner[w]) => w \in magic
    BY DEF WorkersOK, Idle, NoCall
  <2>5. ASSUME wq.list[w] # << >> PROVE w \in wq.live
    <3>1. wq.list[w] \in Seq(Thread) /\ w \in Queue
      BY Kinds DEF TypeOK, WaitState
    <3>2. PICK m \in Elements(wq.list[w]) : TRUE
      BY <2>5, <3>1, EmptyElements
    <3>3. m \in Thread /\ wq.blockedOn[m] = w
      BY <3>1 DEF Elements, WaitQueueOK
    <3> QED
      BY <3>3, QueuedIsOwner, Kinds DEF WorkersOK
  <2>6. ASSUME reapers # {} PROVE (\E m \in Main : inside = {m}) /\ wq.state[w] = "DEATH"
    <3>1. PICK m \in inside : call[m].at \in {"reaping", "detaching"}
      BY <2>6
    <3>2. inside = {m}
      BY <2>2, <3>1
    <3>3. wq.state[w] = "DEATH"
      BY <2>1, <3>1 DEF CallsOK
    <3> QED
      BY <2>1, <3>1, <3>2, <3>3
  <2> QED
    BY <2>3, <2>4, <2>5, <2>6 DEF inside
<1> QED
  BY <1>1, ThreadLifeInvariant, PTL
=============================================================================
