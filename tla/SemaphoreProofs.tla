--------------------------- MODULE SemaphoreProofs ---------------------------
(***************************************************************************)
(* The safety invariants of Semaphore, for any finite set of threads, any  *)
(* initial count and any timeouts.  None of them is inductive by itself:   *)
(* that a free resource may be taken rests on the count being exact, that  *)
(* sem_post() finds a sleeper to wake rests on every READY waiter having   *)
(* been granted a resource, and that rests on no wait having timed out.    *)
(* IInv says all of it at once.                                            *)
(***************************************************************************)
EXTENDS Semaphore, WaitQueueProofs, FiniteSetTheorems

\* Only a thread inside a wait sleeps, and only on the semaphore's own queue.
SleepersAreWaiting ==
    \A t \in Thread :
        /\ wq.state[t] \in {"READY", "BLOCKED"}
        /\ wq.state[t] = "BLOCKED" => pc[t] = "waiting" /\ wq.blockedOn[t] = swait

\* While the semaphore lives a wait ends with a resource or a timeout, and late
\* knows of the timeout; after sem_destroy() nobody is queued.
LifeOK ==
    /\ alive = "yes" => \A t \in Thread :
         /\ pc[t] # "destroying"
         /\ pc[t] = "waiting" => wq.ret[t] \in {"NO_ERROR", "ERR_TIMED_OUT"}
         /\ pc[t] = "waiting" /\ wq.ret[t] = "ERR_TIMED_OUT" => late # {}
    /\ alive = "no" => wq.list[swait] = << >>

IInv ==
    /\ TypeOK
    /\ WaitQueueOK(wq)
    /\ SleepersAreWaiting
    /\ LifeOK
    /\ CountAccountsForThreads
    /\ NoOverGrant
    /\ NoLostWakeup

-----------------------------------------------------------------------------
\* The waiting and the granted threads are finitely many, and the latter are
\* among the former.
LEMMA Counts ==
    ASSUME TypeOK
    PROVE  /\ IsFiniteSet(Waiting) /\ IsFiniteSet(Granted)
           /\ Cardinality(Waiting) \in Nat /\ Cardinality(Granted) \in Nat
           /\ Cardinality(Granted) <= Cardinality(Waiting)
<1>1. Waiting \subseteq Thread /\ Granted \subseteq Waiting
  BY DEF Waiting, Granted
<1>2. IsFiniteSet(Waiting)
  BY <1>1, FS_Subset, SemaphoreAssumption
<1>3. IsFiniteSet(Granted) /\ Cardinality(Granted) <= Cardinality(Waiting)
  BY <1>1, <1>2, FS_Subset
<1> QED
  BY <1>2, <1>3, FS_CardinalityType

\* The waiters are those queued and those granted, when no wait has timed out.
LEMMA QueuedOrGranted ==
    ASSUME IInv, alive = "yes", late = {}
    PROVE  /\ wq.list[swait] = << >> => Waiting = Granted
           /\ wq.list[swait] # << >> => Cardinality(Granted) < Cardinality(Waiting)
<1> USE DEF IInv
<1>1. wq.list[swait] \in Seq(Thread) /\ swait \in Queue
  BY SemaphoreAssumption DEF TypeOK, WaitState
<1>2. \A t \in Thread : t \in Elements(wq.list[swait]) <=> wq.blockedOn[t] = swait
  BY <1>1 DEF WaitQueueOK
<1>3. ASSUME wq.list[swait] = << >> PROVE Waiting = Granted
  <2>1. \A t \in Thread : wq.blockedOn[t] # swait
    BY <1>1, <1>2, <1>3, EmptyElements
  <2> QED
    BY <2>1 DEF Waiting, Granted, SleepersAreWaiting, LifeOK
<1>4. ASSUME wq.list[swait] # << >> PROVE Cardinality(Granted) < Cardinality(Waiting)
  <2>1. PICK h \in Elements(wq.list[swait]) : TRUE
    BY <1>1, <1>4, EmptyElements
  <2>2. h \in Thread /\ wq.state[h] = "BLOCKED"
    BY <1>1, <1>2, NullAssumption DEF Elements, WaitQueueOK
  <2>3. h \in Waiting \ Granted
    BY <2>2 DEF SleepersAreWaiting, Waiting, Granted
  <2>4. Granted \subseteq Waiting
    BY DEF Granted
  <2> QED
    BY <2>3, <2>4, Counts, FS_Subset
<1> QED
  BY <1>3, <1>4

-----------------------------------------------------------------------------
\* The state sem_init() is first called in satisfies the invariant.
LEMMA Initially == Init => IInv
<1> SUFFICES ASSUME Init PROVE IInv
  OBVIOUS
<1>1. TypeOK
  BY SemaphoreAssumption DEF Init, TypeOK, WaitInit, WaitState, ThreadState, Status
<1>2. \A q \in Queue : wq.list[q] = << >> /\ wq.count[q] = 0
  BY DEF Init, WaitInit
<1>3. \A t \in Thread : wq.blockedOn[t] = NULL /\ wq.state[t] = "READY" /\ pc[t] = "out"
  BY DEF Init, WaitInit
<1>4. WaitQueueOK(wq)
  BY <1>2, <1>3, NullAssumption DEF WaitQueueOK, NoRepeats, Elements
<1>5. Waiting = {} /\ Granted = {}
  BY <1>3 DEF Waiting, Granted
<1>6. CountAccountsForThreads /\ NoOverGrant
  BY <1>5, FS_EmptySet, SemaphoreAssumption
     DEF Init, CountAccountsForThreads, NoOverGrant
<1>7. SleepersAreWaiting /\ LifeOK /\ NoLostWakeup
  BY <1>2, <1>3, SemaphoreAssumption DEF Init, SleepersAreWaiting, LifeOK, NoLostWakeup
<1> QED
  BY <1>1, <1>4, <1>6, <1>7 DEF IInv

\* sem_post(): the count rises by one, and the head of the queue, if there is one
\* and the count was negative, is granted the resource.
LEMMA PostStep == ASSUME IInv, NEW t \in Thread, sem_post(t) PROVE IInv'
<1> USE DEF IInv
<1>0. /\ wq \in WaitState /\ WaitQueueOK(wq) /\ swait \in Queue /\ "NO_ERROR" \in Status
      /\ wq.list[swait] \in Seq(Thread)
      /\ alive = "yes" /\ count' = count + 1 /\ avail' = avail + 1
      /\ alive' = alive /\ pc' = pc /\ rc' = rc /\ late' = late
  BY SemaphoreAssumption DEF TypeOK, WaitState, Status, sem_post, Idle
<1>1. Waiting' = Waiting
  BY <1>0 DEF Waiting
<1>2. CountAccountsForThreads'
  BY <1>0, <1>1, Counts DEF CountAccountsForThreads, TypeOK
<1>3. CASE wq' = wq /\ (wq.list[swait] = << >> \/ ~(count + 1 <= 0))
  <2>1. Granted' = Granted
    BY <1>0, <1>1, <1>3 DEF Granted
  <2>2. NoOverGrant'
    BY <1>0, <2>1, Counts DEF NoOverGrant, TypeOK
  <2>3. NoLostWakeup'
    <3>1. SUFFICES ASSUME late = {}, wq.list[swait] # << >> PROVE FALSE
      BY <1>0, <1>3 DEF NoLostWakeup
    <3> QED
      BY <1>0, <1>3, <3>1, QueuedOrGranted, Counts
         DEF NoLostWakeup, CountAccountsForThreads, TypeOK
  <2> QED
    BY <1>0, <1>2, <1>3, <2>2, <2>3 DEF TypeOK, WaitQueueOK, SleepersAreWaiting, LifeOK
<1>4. CASE wq.list[swait] # << >> /\ wq' = wait_queue_wake_one(wq, swait, "NO_ERROR")
  <2> DEFINE h == Head(wq.list[swait])
  <2>1. wq' \in WaitState /\ WaitQueueOK(wq')
    BY <1>0, <1>4, WakeOneOK
  <2>2. /\ h \in Thread /\ wq.state[h] = "BLOCKED" /\ wq.blockedOn[h] = swait
        /\ wq'.state = [wq.state EXCEPT ![h] = "READY"]
        /\ wq'.blockedOn = [wq.blockedOn EXCEPT ![h] = NULL]
        /\ wq'.ret = [wq.ret EXCEPT ![h] = "NO_ERROR"]
    BY <1>0, <1>4, WakeOneEffect
  <2> HIDE DEF h
  <2>3. Granted' = Granted \union {h} /\ h \notin Granted
    BY <1>0, <1>1, <2>2 DEF WaitState, Granted, Waiting, SleepersAreWaiting
  <2>4. Cardinality(Granted') = Cardinality(Granted) + 1
    BY <2>3, Counts, FS_AddElement
  <2>5. NoOverGrant' /\ NoLostWakeup'
    BY <1>0, <1>4, <2>4, Counts DEF NoOverGrant, NoLostWakeup, TypeOK
  <2>6. SleepersAreWaiting' /\ LifeOK'
    BY <1>0, <2>2 DEF WaitState, SleepersAreWaiting, LifeOK
  <2>7. TypeOK'
    BY <1>0, <2>1 DEF TypeOK
  <2> QED
    BY <1>2, <2>1, <2>5, <2>6, <2>7
<1> QED
  BY <1>3, <1>4 DEF sem_post, wait_queue_wake_one

\* A resource that is free is taken without blocking, by sem_wait(),
\* sem_timedwait() and sem_trywait(): nobody is owed it.
LEMMA TakeStep ==
    ASSUME IInv, NEW t \in Thread, Idle(t), count - 1 >= 0, Take(t) PROVE IInv'
<1> USE DEF IInv
<1>0. /\ alive = "yes" /\ wq' = wq /\ pc' = pc /\ alive' = alive /\ late' = late
      /\ count' = count - 1 /\ avail' = avail - 1
      /\ rc' = [rc EXCEPT ![t] = "NO_ERROR"]
  BY DEF Take, Idle
<1>1. TypeOK'
  BY <1>0 DEF TypeOK, Status
<1>2. Waiting' = Waiting /\ Granted' = Granted
  BY <1>0 DEF Waiting, Granted
<1>3. avail > Cardinality(Waiting) /\ avail > Cardinality(Granted)
  BY <1>0, Counts DEF CountAccountsForThreads, TypeOK
<1>4. CountAccountsForThreads' /\ NoOverGrant'
  BY <1>0, <1>2, <1>3, Counts DEF CountAccountsForThreads, NoOverGrant, TypeOK
<1>5. NoLostWakeup'
  BY <1>0, <1>3, Counts DEF NoLostWakeup, TypeOK
<1> QED
  BY <1>0, <1>1, <1>4, <1>5 DEF SleepersAreWaiting, LifeOK

\* A caller that finds no resource joins the queue: if the queue was empty,
\* every resource there is has been granted.
LEMMA BlockStep ==
    ASSUME IInv, NEW t \in Thread, NEW timeout, WaitBlock(t, timeout) PROVE IInv'
<1> USE DEF IInv
<1>0. /\ wq \in WaitState /\ WaitQueueOK(wq) /\ swait \in Queue
      /\ alive = "yes" /\ pc[t] = "out" /\ count - 1 < 0
      /\ count' = count - 1 /\ alive' = alive /\ avail' = avail /\ late' = late
      /\ wq' = wait_queue_block(wq, swait, t, timeout)
      /\ pc' = [pc EXCEPT ![t] = "waiting"]
      /\ rc' = [rc EXCEPT ![t] = "NO_ERROR"]
  BY SemaphoreAssumption DEF TypeOK, WaitBlock, Idle
<1>1. TypeOK'
  BY <1>0, BlockType DEF TypeOK, Status
<1>2. wq.state[t] = "READY" /\ wq.blockedOn[t] = NULL
  BY <1>0 DEF SleepersAreWaiting, WaitQueueOK
<1>3. WaitQueueOK(wq')
  BY <1>0, <1>2, BlockOK
<1>4. /\ wq'.state = [wq.state EXCEPT ![t] = "BLOCKED"]
      /\ wq'.blockedOn = [wq.blockedOn EXCEPT ![t] = swait]
      /\ wq'.ret = [wq.ret EXCEPT ![t] = "NO_ERROR"]
  BY <1>0, BlockEffect
<1>5. Waiting' = Waiting \union {t} /\ t \notin Waiting /\ Granted' = Granted
  BY <1>0, <1>4 DEF TypeOK, WaitState, Waiting, Granted
<1>6. Cardinality(Waiting') = Cardinality(Waiting) + 1
  BY <1>5, Counts, FS_AddElement
<1>7. CountAccountsForThreads' /\ NoOverGrant'
  BY <1>0, <1>5, <1>6, Counts DEF CountAccountsForThreads, NoOverGrant, TypeOK
<1>8. SleepersAreWaiting' /\ LifeOK'
  BY <1>0, <1>4 DEF TypeOK, WaitState, SleepersAreWaiting, LifeOK
<1>9. late = {} => avail = Cardinality(Granted)
  <2>1. SUFFICES ASSUME late = {} PROVE avail = Cardinality(Granted)
    OBVIOUS
  <2>2. CASE wq.list[swait] # << >>
    BY <2>1, <2>2 DEF NoLostWakeup
  <2>3. CASE wq.list[swait] = << >>
    BY <1>0, <2>1, <2>3, QueuedOrGranted, Counts
       DEF CountAccountsForThreads, NoOverGrant, TypeOK
  <2> QED
    BY <2>2, <2>3
<1> QED
  BY <1>0, <1>1, <1>3, <1>5, <1>7, <1>8, <1>9 DEF NoLostWakeup

\* A wait that cannot succeed at once and may not block only sets its result.
LEMMA RefusedStep ==
    ASSUME IInv, NEW t \in Thread, NEW err \in Status \union {"ERR_NOT_READY"},
           rc' = [rc EXCEPT ![t] = err],
           UNCHANGED <<wq, count, alive, pc, avail, late>>
    PROVE  IInv'
<1>1. Waiting' = Waiting /\ Granted' = Granted
  BY DEF Waiting, Granted
<1> QED
  BY <1>1 DEF IInv, TypeOK, WaitQueueOK, SleepersAreWaiting, LifeOK,
              CountAccountsForThreads, NoOverGrant, NoLostWakeup

\* A woken waiter returns: with the resource it was granted, or backing its
\* decrement of the count out when its wait timed out.
LEMMA ResumeStep == ASSUME IInv, NEW t \in Thread, WaitResume(t) PROVE IInv'
<1> USE DEF IInv
<1>0. /\ wq \in WaitState /\ WaitQueueOK(wq)
      /\ t \in Waiting /\ wq.state[t] = "READY"
      /\ wq' = wait_queue_block_return(wq, t)
      /\ rc' = [rc EXCEPT ![t] = wq.ret[t]]
      /\ count' = IF wq.ret[t] = "ERR_TIMED_OUT" THEN count + 1 ELSE count
      /\ avail' = IF wq.ret[t] = "NO_ERROR" THEN avail - 1 ELSE avail
      /\ pc' = [pc EXCEPT ![t] = "out"]
      /\ alive' = alive /\ late' = late
  BY DEF TypeOK, WaitResume, CountAfterWait
<1>1. /\ wq'.state = wq.state /\ wq'.ret = wq.ret /\ wq'.list = wq.list
      /\ wq'.blockedOn = wq.blockedOn /\ wq'.count = wq.count
  BY <1>0 DEF wait_queue_block_return, WaitState
<1>2. TypeOK'
  <2>1. wq' \in WaitState
    BY <1>0, BlockReturnType
  <2> QED
    BY <1>0, <2>1 DEF TypeOK, WaitState
<1>3. WaitQueueOK(wq')
  BY <1>0, <1>1 DEF WaitQueueOK
<1>4. SleepersAreWaiting' /\ LifeOK'
  BY <1>0, <1>1 DEF TypeOK, SleepersAreWaiting, LifeOK
<1>5. Waiting' = Waiting \ {t}
  BY <1>0 DEF TypeOK, Waiting
<1>6. Cardinality(Waiting') = Cardinality(Waiting) - 1
  BY <1>0, <1>5, Counts, FS_RemoveElement
<1>7. CASE wq.ret[t] = "NO_ERROR"
  <2>1. Granted' = Granted \ {t} /\ t \in Granted
    BY <1>0, <1>1, <1>5, <1>7 DEF Granted
  <2>2. Cardinality(Granted') = Cardinality(Granted) - 1
    BY <2>1, Counts, FS_RemoveElement
  <2>3. CountAccountsForThreads' /\ NoOverGrant' /\ NoLostWakeup'
    BY <1>0, <1>1, <1>6, <1>7, <2>2, Counts
       DEF CountAccountsForThreads, NoOverGrant, NoLostWakeup, TypeOK
  <2> QED
    BY <1>2, <1>3, <1>4, <2>3
<1>8. CASE wq.ret[t] # "NO_ERROR"
  <2>1. Granted' = Granted
    BY <1>0, <1>1, <1>5, <1>8 DEF Granted
  <2>2. alive = "yes" => wq.ret[t] = "ERR_TIMED_OUT"
    BY <1>0, <1>8 DEF LifeOK, Waiting
  <2>3. CountAccountsForThreads' /\ NoOverGrant' /\ NoLostWakeup'
    BY <1>0, <1>1, <1>6, <1>8, <2>1, <2>2, Counts
       DEF CountAccountsForThreads, NoOverGrant, NoLostWakeup, TypeOK
  <2> QED
    BY <1>2, <1>3, <1>4, <2>3
<1> QED
  BY <1>7, <1>8

\* sem_destroy() empties the queue.
LEMMA DestroyStep == ASSUME IInv, NEW t \in Thread, sem_destroy(t) PROVE IInv'
<1> USE DEF IInv
<1>0. /\ wq \in WaitState /\ WaitQueueOK(wq) /\ swait \in Queue
      /\ "ERR_OBJECT_DESTROYED" \in Status
      /\ alive' = "no" /\ count' = 0 /\ avail' = 0 /\ rc' = rc /\ late' = late
      /\ pc' \in [Thread -> {"out", "waiting", "destroying"}]
      /\ \A u \in Thread : pc[u] = "waiting" => pc'[u] = "waiting"
  BY SemaphoreAssumption DEF TypeOK, Status, sem_destroy, Idle
<1>a. PICK woken : woken = wait_queue_wake_all(wq, swait, "ERR_OBJECT_DESTROYED")
  OBVIOUS
<1>1. /\ woken \in WaitState /\ WaitQueueOK(woken)
      /\ woken.list[swait] = << >>
      /\ \A u \in Thread :
           IF wq.blockedOn[u] = swait
           THEN woken.state[u] = "READY" /\ woken.blockedOn[u] = NULL
           ELSE woken.state[u] = wq.state[u] /\ woken.blockedOn[u] = wq.blockedOn[u]
  BY <1>0, <1>a, WakeAllEffect
<1>2. /\ wq' \in WaitState
      /\ wq'.list = woken.list /\ wq'.count = woken.count
      /\ wq'.state = woken.state /\ wq'.blockedOn = woken.blockedOn
  BY <1>1, <1>a DEF sem_destroy, WaitState
<1>3. TypeOK'
  BY <1>0, <1>2 DEF TypeOK
<1>4. WaitQueueOK(wq')
  BY <1>1, <1>2 DEF WaitQueueOK
<1>5. SleepersAreWaiting' /\ LifeOK'
  BY <1>0, <1>1, <1>2 DEF SleepersAreWaiting, LifeOK
<1> QED
  BY <1>0, <1>1, <1>2, <1>3, <1>4, <1>5
     DEF CountAccountsForThreads, NoOverGrant, NoLostWakeup

\* wait_queue_destroy() then only clears the magic of an empty queue.
LEMMA DestroyResumeStep == ASSUME IInv, NEW t \in Thread, DestroyResume(t) PROVE IInv'
<1> USE DEF IInv
<1>0. /\ wq \in WaitState /\ WaitQueueOK(wq)
      /\ alive = "no" /\ pc[t] = "destroying"
      /\ wq' = [wq EXCEPT !.live = @ \ {swait}]
      /\ pc' = [pc EXCEPT ![t] = "out"]
      /\ UNCHANGED <<count, alive, rc, avail, late>>
  BY DEF TypeOK, DestroyResume, LifeOK
<1>1. /\ wq' \in WaitState
      /\ wq'.list = wq.list /\ wq'.count = wq.count
      /\ wq'.state = wq.state /\ wq'.blockedOn = wq.blockedOn
  BY <1>0 DEF WaitState
<1>2. TypeOK' /\ WaitQueueOK(wq') /\ SleepersAreWaiting' /\ LifeOK'
  BY <1>0, <1>1 DEF TypeOK, WaitQueueOK, SleepersAreWaiting, LifeOK
<1> QED
  BY <1>0, <1>1, <1>2 DEF LifeOK, CountAccountsForThreads, NoOverGrant, NoLostWakeup

\* sem_init() of storage nobody uses any more starts from an empty queue.
LEMMA InitStep == ASSUME IInv, sem_init PROVE IInv'
<1> USE DEF IInv
<1>0. /\ wq \in WaitState /\ WaitQueueOK(wq) /\ swait \in Queue
      /\ alive = "no" /\ \A t \in Thread : pc[t] = "out"
      /\ alive' = "yes" /\ count' = InitialCount /\ avail' = InitialCount
      /\ wq' = wait_queue_init(wq, swait) /\ late' = {} /\ pc' = pc /\ rc' = rc
  BY SemaphoreAssumption DEF TypeOK, sem_init
<1>1. TypeOK'
  BY <1>0, InitType, SemaphoreAssumption DEF TypeOK
<1>2. wq.list[swait] = << >>
  BY <1>0 DEF LifeOK
<1>3. /\ wq'.list = wq.list /\ wq'.count = wq.count /\ wq'.state = wq.state
      /\ wq'.blockedOn = wq.blockedOn
  BY <1>0, <1>2 DEF wait_queue_init, WaitState, WaitQueueOK
<1>4. WaitQueueOK(wq') /\ SleepersAreWaiting' /\ LifeOK'
  BY <1>0, <1>3 DEF WaitQueueOK, SleepersAreWaiting, LifeOK
<1>5. Waiting' = {} /\ Granted' = {}
  BY <1>0 DEF Waiting, Granted
<1> QED
  BY <1>0, <1>1, <1>2, <1>3, <1>4, <1>5, FS_EmptySet, SemaphoreAssumption
     DEF CountAccountsForThreads, NoOverGrant, NoLostWakeup

\* A timer that fires takes a sleeper off the queue, and late remembers it.
LEMMA TimerStep == ASSUME IInv, NEW t \in Thread, TimerFires(t) PROVE IInv'
<1> USE DEF IInv
<1>0. /\ wq \in WaitState /\ WaitQueueOK(wq) /\ swait \in Queue
      /\ wq' = wait_queue_timeout_handler(wq, t)
      /\ late' = IF wq.state[t] = "BLOCKED" THEN late \union {t} ELSE late
      /\ count' = count /\ alive' = alive /\ pc' = pc /\ rc' = rc /\ avail' = avail
  BY SemaphoreAssumption DEF TypeOK, TimerFires
<1>1. /\ wq' \in WaitState /\ WaitQueueOK(wq')
      /\ wq.list[swait] = << >> => wq'.list[swait] = << >>
      /\ wq.state[t] # "BLOCKED" =>
           /\ wq'.list = wq.list /\ wq'.state = wq.state
           /\ wq'.blockedOn = wq.blockedOn /\ wq'.ret = wq.ret
      /\ wq.state[t] = "BLOCKED" =>
           /\ wq'.state = [wq.state EXCEPT ![t] = "READY"]
           /\ wq'.blockedOn = [wq.blockedOn EXCEPT ![t] = NULL]
           /\ wq'.ret = [wq.ret EXCEPT ![t] = "ERR_TIMED_OUT"]
  <2>1. wq' \in WaitState /\ WaitQueueOK(wq') /\ TimedOut(wq', wq, t)
    BY <1>0, TimeoutEffect
  <2> QED
    BY <1>0, <2>1 DEF TimedOut
<1>2. TypeOK'
  BY <1>0, <1>1 DEF TypeOK
<1>3. Waiting' = Waiting /\ Granted' = Granted
  BY <1>0, <1>1 DEF WaitState, Waiting, Granted
<1>4. SleepersAreWaiting' /\ LifeOK'
  <2>1. CASE wq.state[t] # "BLOCKED"
    BY <1>0, <1>1, <2>1 DEF SleepersAreWaiting, LifeOK
  <2>2. CASE wq.state[t] = "BLOCKED"
    <3>1. late' # {}
      BY <1>0, <2>2
    <3> QED
      BY <1>0, <1>1, <2>2, <3>1 DEF WaitState, SleepersAreWaiting, LifeOK
  <2> QED
    BY <2>1, <2>2
<1>5. CountAccountsForThreads' /\ NoOverGrant'
  BY <1>0, <1>3 DEF CountAccountsForThreads, NoOverGrant
<1>6. NoLostWakeup'
  BY <1>0, <1>1, <1>3 DEF NoLostWakeup
<1> QED
  BY <1>1, <1>2, <1>4, <1>5, <1>6

-----------------------------------------------------------------------------
\* Every step preserves the invariant.
LEMMA Inductive == IInv /\ [Next]_vars => IInv'
<1> SUFFICES ASSUME IInv, [Next]_vars PROVE IInv'
  OBVIOUS
<1>1. ASSUME NEW t \in Poster, sem_post(t) PROVE IInv'
  BY <1>1, PostStep, SemaphoreAssumption
<1>2. ASSUME NEW t \in Poster, sem_destroy(t) PROVE IInv'
  BY <1>2, DestroyStep, SemaphoreAssumption
<1>3. ASSUME NEW t \in Poster, DestroyResume(t) PROVE IInv'
  BY <1>3, DestroyResumeStep, SemaphoreAssumption
<1>4. ASSUME NEW t \in Waiter, WaitFree(t) PROVE IInv'
  BY <1>4, TakeStep, SemaphoreAssumption DEF WaitFree
<1>5. ASSUME NEW t \in Waiter, WaitZero(t) PROVE IInv'
  BY <1>5, RefusedStep, SemaphoreAssumption DEF WaitZero, Status
<1>6. ASSUME NEW t \in Waiter, WaitResume(t) PROVE IInv'
  BY <1>6, ResumeStep, SemaphoreAssumption
<1>7. ASSUME NEW t \in Waiter, NEW timeout, WaitBlock(t, timeout) PROVE IInv'
  BY <1>7, BlockStep, SemaphoreAssumption
<1>8. ASSUME NEW t \in Waiter, sem_trywait(t) PROVE IInv'
  <2>1. CASE count > 0 /\ Idle(t) /\ Take(t)
    <3>1. count - 1 >= 0
      BY <2>1 DEF IInv, TypeOK
    <3> QED
      BY <2>1, <3>1, TakeStep, SemaphoreAssumption
  <2>2. CASE /\ rc' = [rc EXCEPT ![t] = "ERR_NOT_READY"]
             /\ UNCHANGED <<wq, count, alive, pc, avail, late>>
    BY <2>2, RefusedStep, SemaphoreAssumption
  <2> QED
    BY <1>8, <2>1, <2>2 DEF sem_trywait
<1>9. ASSUME NEW t \in Waiter, TimerFires(t) PROVE IInv'
  BY <1>9, TimerStep, SemaphoreAssumption
<1>10. CASE sem_init
  BY <1>10, InitStep
<1>11. CASE UNCHANGED vars
  <2>1. Waiting' = Waiting /\ Granted' = Granted
    BY <1>11 DEF vars, Waiting, Granted
  <2> QED
    BY <1>11, <2>1 DEF vars, IInv, TypeOK, WaitQueueOK, SleepersAreWaiting, LifeOK,
                       CountAccountsForThreads, NoOverGrant, NoLostWakeup
<1> QED
  BY <1>1, <1>2, <1>3, <1>4, <1>5, <1>6, <1>7, <1>8, <1>9, <1>10, <1>11 DEF Next

\* The invariant, and with it the exactness of wait->count and of the wait
\* queue, holds in every reachable state.
THEOREM SemaphoreInvariant == Spec => []IInv
<1>1. IInv /\ [Next]_vars => IInv'
  BY Inductive
<1> QED
  BY <1>1, Initially, PTL DEF Spec

\* sem_post() never promises more resources than there are: the successful waits
\* never outnumber the initial count plus the posts.
THEOREM OverGrantNever == Spec => []NoOverGrant
<1>1. IInv => NoOverGrant
  BY DEF IInv
<1> QED
  BY <1>1, SemaphoreInvariant, PTL

\* sem->count is at all times the free resources less the threads inside a wait,
\* through timeouts that race a post.
THEOREM CountIsExact == Spec => []CountAccountsForThreads
<1>1. IInv => CountAccountsForThreads
  BY DEF IInv
<1> QED
  BY <1>1, SemaphoreInvariant, PTL

\* No thread sits in the queue of a semaphore with a resource nobody was promised,
\* until a wait times out.
THEOREM PostWakesSleeper == Spec => []NoLostWakeup
<1>1. IInv => NoLostWakeup
  BY DEF IInv
<1> QED
  BY <1>1, SemaphoreInvariant, PTL
=============================================================================
