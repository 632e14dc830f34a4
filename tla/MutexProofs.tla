----------------------------- MODULE MutexProofs -----------------------------
(***************************************************************************)
(* Mutual exclusion of the mutex for any number of threads and any use of  *)
(* timeouts, destruction and re-initialisation.                            *)
(***************************************************************************)
EXTENDS Mutex, WaitQueueProofs, FiniteSetTheorems

\* The threads m->count counts.
Inside == {t \in Thread : pc[t] \in {"holds", "blocked"}}

\* Every action leaves well-typed state: the operations of the wait queue do.
LEMMA TypeStep ==
    ASSUME TypeOK, WaitQueueOK(wq), [Next]_vars
    PROVE  TypeOK'
<1>1. ASSUME NEW t \in Thread, AcquireFree(t) PROVE TypeOK'
  BY <1>1 DEF TypeOK, AcquireFree, AcquireUpTo, Status
<1>2. ASSUME NEW t \in Thread, AcquireTry(t) PROVE TypeOK'
  BY <1>2 DEF TypeOK, AcquireTry, Status
<1>3. ASSUME NEW t \in Thread, NEW timeout \in Timeouts, AcquireBlock(t, timeout) PROVE TypeOK'
  BY <1>3, BlockType, MutexAssumption DEF TypeOK, AcquireBlock, Status
<1>4. ASSUME NEW t \in Thread, AcquireResume(t) PROVE TypeOK'
  <2>1. wq' \in WaitState
    BY <1>4, BlockReturnType DEF TypeOK, AcquireResume, ResumeOwner, ResumeTimedOut, ResumeFailed
  <2>2. m' \in [magic : {MUTEX_MAGIC, 0}, count : Int, holder : Thread \union {NULL}]
    BY <1>4 DEF TypeOK, AcquireResume, ResumeOwner, ResumeTimedOut, ResumeFailed
  <2>3. pc' \in [Thread -> {"out", "blocked", "holds", "destroying"}]
    BY <1>4 DEF TypeOK, AcquireResume, ResumeOwner, ResumeTimedOut, ResumeFailed
  <2>4. rc' \in [Thread -> Status]
    BY <1>4 DEF TypeOK, AcquireResume, ResumeOwner, ResumeTimedOut, ResumeFailed, WaitState
  <2> QED
    BY <1>4, <2>1, <2>2, <2>3, <2>4 DEF TypeOK, AcquireResume
<1>5. ASSUME NEW t \in Thread, mutex_release(t) PROVE TypeOK'
  <2>1. wq' \in WaitState
    BY <1>5, WakeOneOK, MutexAssumption DEF TypeOK, mutex_release, ReleaseTo, Status
  <2> QED
    BY <1>5, <2>1 DEF TypeOK, mutex_release, ReleaseTo
<1>6. ASSUME NEW t \in Thread, mutex_destroy(t) PROVE TypeOK'
  <2>1. wait_queue_wake_all(wq, mwait, "ERR_OBJECT_DESTROYED") \in WaitState
    BY WakeAllOK, MutexAssumption DEF TypeOK, Status
  <2>2. wq' \in WaitState
    BY <1>6, <2>1 DEF mutex_destroy, DestroyWaking, WaitState
  <2>3. pc' \in [Thread -> {"out", "blocked", "holds", "destroying"}]
    BY <1>6 DEF TypeOK, mutex_destroy, DestroyWaking
  <2> QED
    BY <1>6, <2>2, <2>3 DEF TypeOK, mutex_destroy, DestroyWaking
<1>7. ASSUME NEW t \in Thread, DestroyResume(t) PROVE TypeOK'
  BY <1>7 DEF TypeOK, DestroyResume, WaitState
<1>8. ASSUME NEW t \in Thread, TimerFires(t) PROVE TypeOK'
  BY <1>8, TimeoutOK DEF TypeOK, TimerFires
<1>9. ASSUME mutex_init PROVE TypeOK'
  BY <1>9, InitType, MutexAssumption DEF TypeOK, mutex_init, MUTEX_INITIAL_VALUE
<1>10. CASE UNCHANGED vars
  BY <1>10 DEF TypeOK, vars
<1> QED
  BY <1>1, <1>2, <1>3, <1>4, <1>5, <1>6, <1>7, <1>8, <1>9, <1>10 DEF Next

-----------------------------------------------------------------------------
\* One thread entering or leaving changes the count by one; nobody is inside
\* exactly when the count is zero.
LEMMA InsideCount ==
    ASSUME TypeOK
    PROVE  /\ Cardinality(Inside) \in Nat
           /\ Cardinality(Inside) = 0 => Inside = {}
           /\ \A t \in Thread :
                /\ Inside' = Inside \union {t} /\ t \notin Inside
                     => Cardinality(Inside') = Cardinality(Inside) + 1
                /\ Inside' = Inside \ {t} /\ t \in Inside
                     => Cardinality(Inside') = Cardinality(Inside) - 1
<1>1. IsFiniteSet(Inside)
  BY FS_Subset, MutexAssumption DEF Inside
<1>2. Cardinality(Inside) \in Nat
  BY <1>1, FS_CardinalityType
<1>3. Cardinality(Inside) = 0 => Inside = {}
  BY <1>1, FS_EmptySet
<1>4. ASSUME NEW t \in Thread
      PROVE  /\ t \notin Inside => Cardinality(Inside \union {t}) = Cardinality(Inside) + 1
             /\ t \in Inside => Cardinality(Inside \ {t}) = Cardinality(Inside) - 1
  BY <1>1, FS_AddElement, FS_RemoveElement
<1> QED
  BY <1>2, <1>3, <1>4

\* A mutex nobody is inside of has no owner.
LEMMA NobodyInside ==
    ASSUME TypeOK, CountAccountsForThreads, Live, m.count <= 0
    PROVE  \A t \in Thread : pc[t] \notin {"holds", "blocked"}
<1>1. m.count = Cardinality(Inside)
  BY DEF CountAccountsForThreads, Inside
<1>2. Inside = {}
  BY <1>1, InsideCount
<1> QED
  BY <1>2 DEF Inside

\* A caller that finds the mutex free becomes its only owner.
LEMMA AcquireFreeStep ==
    ASSUME IInv, NEW t \in Thread, AcquireFree(t)
    PROVE  IInv'
<1> USE DEF IInv
<1>1. TypeOK'
  BY TypeStep DEF Next
<1>2. Live /\ m.count <= 0 /\ m.count \in Int
  BY DEF AcquireFree, AcquireUpTo, TypeOK
<1>3. \A u \in Thread : pc[u] \notin {"holds", "blocked"}
  BY <1>2, NobodyInside
<1>4. /\ Live' /\ m'.holder = t /\ m'.count = m.count + 1
      /\ wq' = wq
      /\ \A u \in Thread : pc'[u] = IF u = t THEN "holds" ELSE pc[u]
  BY DEF AcquireFree, AcquireUpTo, TypeOK, Live
<1>5. CountAccountsForThreads'
  <2>1. Inside' = Inside \union {t} /\ t \notin Inside
    BY <1>3, <1>4 DEF Inside
  <2>2. m'.count = Cardinality(Inside')
    BY <1>2, <1>4, <2>1, InsideCount DEF CountAccountsForThreads, Inside
  <2> QED
    BY <2>2 DEF CountAccountsForThreads, Inside
<1>6. WaitQueueOK(wq') /\ WaitersInside' /\ QueueLife'
  BY <1>2, <1>3, <1>4 DEF WaitersInside, QueueLife
<1>7. HolderIsOwner' /\ MutualExclusion' /\ NoOwnerOfDestroyed'
  BY <1>3, <1>4 DEF HolderIsOwner, MutualExclusion, NoOwnerOfDestroyed, Owns, Granted
<1> QED
  BY <1>1, <1>5, <1>6, <1>7

\* A caller that blocks joins the queue and the count, and owns nothing.
LEMMA AcquireBlockStep ==
    ASSUME IInv, NEW t \in Thread, NEW timeout \in Timeouts, AcquireBlock(t, timeout)
    PROVE  IInv'
<1> USE DEF IInv
<1>1. TypeOK'
  BY TypeStep DEF Next
<1>2. wq \in WaitState /\ mwait \in Queue
  BY MutexAssumption DEF TypeOK
<1>3. /\ pc[t] = "out" /\ Live /\ Live' /\ m'.holder = m.holder
      /\ m'.count = m.count + 1 /\ m.count \in Int
      /\ wq' = wait_queue_block(wq, mwait, t, timeout)
      /\ \A u \in Thread : pc'[u] = IF u = t THEN "blocked" ELSE pc[u]
  BY DEF AcquireBlock, TypeOK, Live
<1>4. wq.blockedOn[t] = NULL
  BY <1>3 DEF WaitersInside, WaitQueueOK
<1>5. WaitQueueOK(wq')
  BY <1>2, <1>3, <1>4, BlockOK
<1>6. /\ wq'.live = wq.live
      /\ \A u \in Thread :
           /\ wq'.state[u] = IF u = t THEN "BLOCKED" ELSE wq.state[u]
           /\ wq'.ret[u] = IF u = t THEN "NO_ERROR" ELSE wq.ret[u]
  BY <1>2, <1>3 DEF wait_queue_block, WaitState
<1>7. CountAccountsForThreads'
  <2>1. Inside' = Inside \union {t} /\ t \notin Inside
    BY <1>3 DEF Inside
  <2>2. m'.count = Cardinality(Inside')
    BY <1>3, <2>1, InsideCount DEF CountAccountsForThreads, Inside
  <2> QED
    BY <2>2 DEF CountAccountsForThreads, Inside
<1>8. WaitersInside' /\ QueueLife'
  BY <1>3, <1>6 DEF WaitersInside, QueueLife
<1>9. HolderIsOwner' /\ MutualExclusion' /\ NoOwnerOfDestroyed'
  BY <1>3, <1>6 DEF HolderIsOwner, MutualExclusion, NoOwnerOfDestroyed, Owns, Granted
<1> QED
  BY <1>1, <1>5, <1>7, <1>8, <1>9

\* A zero-timeout acquire of a held mutex changes only its own return code.
LEMMA AcquireTryStep ==
    ASSUME IInv, NEW t \in Thread, AcquireTry(t)
    PROVE  IInv'
<1>1. TypeOK'
  BY TypeStep DEF Next, IInv
<1> QED
  BY <1>1 DEF AcquireTry, IInv, WaitersInside, QueueLife, CountAccountsForThreads,
              HolderIsOwner, MutualExclusion, NoOwnerOfDestroyed, Owns, Granted, Live

\* The three ways out of a contended mutex_acquire_timeout().
LEMMA AcquireResumeStep ==
    ASSUME IInv, NEW t \in Thread, AcquireResume(t)
    PROVE  IInv'
<1> USE DEF IInv
<1>1. TypeOK'
  BY TypeStep DEF Next
<1>2. wq \in WaitState
  BY DEF TypeOK
<1>3. /\ pc[t] = "blocked" /\ wq.state[t] = "READY" /\ m.count \in Int
      /\ wq' = wait_queue_block_return(wq, t)
      /\ Live' <=> Live
  BY DEF AcquireResume, ResumeOwner, ResumeTimedOut, ResumeFailed, TypeOK, Live
<1>4. /\ wq'.list = wq.list /\ wq'.count = wq.count /\ wq'.state = wq.state
      /\ wq'.blockedOn = wq.blockedOn /\ wq'.ret = wq.ret /\ wq'.live = wq.live
  BY <1>2, <1>3 DEF wait_queue_block_return, WaitState
<1>5. WaitQueueOK(wq')
  BY <1>4 DEF WaitQueueOK
<1>6. CASE wq.ret[t] = "NO_ERROR"
  <2>1. /\ m'.holder = t /\ m'.count = m.count
        /\ \A u \in Thread : pc'[u] = IF u = t THEN "holds" ELSE pc[u]
    BY <1>6 DEF AcquireResume, ResumeOwner, ResumeTimedOut, ResumeFailed, TypeOK
  <2>2. Owns(t) /\ Live
    BY <1>3, <1>6 DEF Owns, Granted, NoOwnerOfDestroyed
  <2>3. \A u \in Thread : u # t => pc[u] # "holds"
    BY <2>2 DEF MutualExclusion, Owns
  <2>4. CountAccountsForThreads'
    <3>1. Inside' = Inside
      BY <1>3, <2>1 DEF Inside
    <3> QED
      BY <1>3, <2>1, <3>1 DEF CountAccountsForThreads, Inside
  <2>5. WaitersInside' /\ QueueLife'
    BY <1>3, <1>4, <2>1 DEF WaitersInside, QueueLife
  <2>6. HolderIsOwner'
    BY <2>1, <2>3 DEF HolderIsOwner
  <2>7. MutualExclusion' /\ NoOwnerOfDestroyed'
    BY <1>3, <1>4, <2>1, <2>2 DEF MutualExclusion, NoOwnerOfDestroyed, Owns, Granted
  <2> QED
    BY <1>1, <1>5, <2>4, <2>5, <2>6, <2>7
<1>7. CASE wq.ret[t] # "NO_ERROR"
  <2>1. /\ m'.holder = m.holder
        /\ Live => m'.count = m.count - 1
        /\ \A u \in Thread : pc'[u] = IF u = t THEN "out" ELSE pc[u]
    BY <1>3, <1>7 DEF AcquireResume, ResumeOwner, ResumeTimedOut, ResumeFailed, TypeOK, WaitersInside
  <2>2. CountAccountsForThreads'
    <3>1. Inside' = Inside \ {t} /\ t \in Inside
      BY <1>3, <2>1 DEF Inside
    <3>2. Live => m'.count = Cardinality(Inside')
      BY <1>3, <2>1, <3>1, InsideCount DEF CountAccountsForThreads, Inside
    <3> QED
      BY <1>3, <3>2 DEF CountAccountsForThreads, Inside
  <2>3. WaitersInside' /\ QueueLife'
    BY <1>3, <1>4, <2>1 DEF WaitersInside, QueueLife
  <2>4. HolderIsOwner'
    BY <1>3, <2>1 DEF HolderIsOwner
  <2>5. MutualExclusion' /\ NoOwnerOfDestroyed'
    BY <1>3, <1>4, <2>1 DEF MutualExclusion, NoOwnerOfDestroyed, Owns, Granted
  <2> QED
    BY <1>1, <1>5, <2>2, <2>3, <2>4, <2>5
<1> QED
  BY <1>6, <1>7

\* The releaser leaves; at most the head of the queue becomes the owner.
LEMMA ReleaseStep ==
    ASSUME IInv, NEW t \in Thread, mutex_release(t)
    PROVE  IInv'
<1> USE DEF IInv
<1>1. TypeOK'
  BY TypeStep DEF Next
<1>2. wq \in WaitState /\ mwait \in Queue /\ m.count \in Int
  BY MutexAssumption DEF TypeOK
<1>3. /\ pc[t] = "holds" /\ Live /\ Live' /\ m'.holder = NULL
      /\ m'.count = m.count - 1
      /\ \A u \in Thread : pc'[u] = IF u = t THEN "out" ELSE pc[u]
  BY DEF mutex_release, ReleaseTo, TypeOK, Live
<1>4. \A u \in Thread : u # t => ~Owns(u)
  BY <1>3 DEF MutualExclusion, Owns
<1>5. CountAccountsForThreads'
  <2>1. Inside' = Inside \ {t} /\ t \in Inside
    BY <1>3 DEF Inside
  <2>2. m'.count = Cardinality(Inside')
    BY <1>2, <1>3, <2>1, InsideCount DEF CountAccountsForThreads, Inside
  <2> QED
    BY <2>2 DEF CountAccountsForThreads, Inside
<1>6. HolderIsOwner'
  BY <1>3, <1>4, NullAssumption DEF HolderIsOwner, Owns
<1>7. WaitQueueOK(wq')
  BY <1>2, WakeOneOK DEF mutex_release, ReleaseTo, Status
<1>8. CASE wq' = wq
  BY <1>1, <1>3, <1>4, <1>5, <1>6, <1>7, <1>8
     DEF WaitersInside, QueueLife, MutualExclusion, NoOwnerOfDestroyed, Owns, Granted
<1>9. CASE wq' # wq
  <2> DEFINE h == Head(wq.list[mwait])
  <2>1. wq' = wait_queue_wake_one(wq, mwait, "NO_ERROR")
    BY <1>9 DEF mutex_release, ReleaseTo
  <2>2. wq.list[mwait] # << >>
    BY <1>9, <2>1 DEF wait_queue_wake_one
  <2>3. h \in Thread /\ h \in Elements(wq.list[mwait])
    BY <1>2, <2>2, WakeOneOK DEF Status
  <2>4. wq.state[h] = "BLOCKED"
    BY <1>2, <2>3, NullAssumption DEF WaitQueueOK
  <2>5. pc[h] = "blocked" /\ h # t
    BY <1>3, <2>3, <2>4 DEF WaitersInside
  <2>6. /\ wq'.live = wq.live
        /\ \A u \in Thread :
             /\ wq'.state[u] = IF u = h THEN "READY" ELSE wq.state[u]
             /\ wq'.ret[u] = IF u = h THEN "NO_ERROR" ELSE wq.ret[u]
    BY <2>1, <2>2 DEF wait_queue_wake_one, Dequeue
  <2> HIDE DEF h
  <2>7. WaitersInside' /\ QueueLife'
    BY <1>3, <2>3, <2>5, <2>6 DEF WaitersInside, QueueLife
  <2>8. \A u \in Thread : Owns(u)' => u = h
    BY <1>3, <1>4, <2>6 DEF Owns, Granted
  <2>9. MutualExclusion' /\ NoOwnerOfDestroyed'
    BY <1>3, <2>8 DEF MutualExclusion, NoOwnerOfDestroyed
  <2> QED
    BY <1>1, <1>5, <1>6, <1>7, <2>7, <2>9
<1> QED
  BY <1>8, <1>9

\* The destroyer was the only owner, if there was one; the queue empties and
\* every woken waiter carries an error.
LEMMA DestroyStep ==
    ASSUME IInv, NEW t \in Thread, mutex_destroy(t)
    PROVE  IInv'
<1> USE DEF IInv
<1> DEFINE woken == wait_queue_wake_all(wq, mwait, "ERR_OBJECT_DESTROYED")
<1>1. TypeOK'
  BY TypeStep DEF Next
<1>2. wq \in WaitState /\ mwait \in Queue
  BY MutexAssumption DEF TypeOK
<1>3. Live /\ ~Live'
  BY DEF mutex_destroy, DestroyWaking, Live, MUTEX_MAGIC
<1>4. woken \in WaitState /\ WaitQueueOK(woken)
  BY <1>2, WakeAllOK DEF Status
<1>5. /\ woken.list[mwait] = << >>
      /\ \A u \in Thread :
           \/ woken.state[u] = wq.state[u] /\ woken.ret[u] = wq.ret[u]
           \/ /\ wq.state[u] = "BLOCKED"
              /\ woken.state[u] = "READY" /\ woken.ret[u] = "ERR_OBJECT_DESTROYED"
  <2>1. wq.list \in [Queue -> Seq(Thread)]
    BY <1>2 DEF WaitState
  <2>2. \A u \in Thread : u \in Elements(wq.list[mwait]) => wq.state[u] = "BLOCKED"
    BY <1>2, NullAssumption DEF WaitQueueOK
  <2> QED
    BY <1>2, <2>1, <2>2 DEF wait_queue_wake_all, Dequeue
<1> HIDE DEF woken
<1>6. /\ wq'.list = woken.list /\ wq'.count = woken.count
      /\ wq'.state = woken.state /\ wq'.blockedOn = woken.blockedOn
      /\ wq'.ret = woken.ret
  BY <1>4 DEF mutex_destroy, DestroyWaking, WaitState, woken
<1>7. WaitQueueOK(wq')
  BY <1>4, <1>6 DEF WaitQueueOK
<1>8. /\ pc'[t] \in {"out", "destroying"}
      /\ \A u \in Thread : u # t => pc'[u] = pc[u]
  BY DEF mutex_destroy, DestroyWaking, TypeOK
<1>9. pc[t] # "blocked"
  BY <1>3 DEF mutex_destroy, DestroyWaking, HolderIsOwner
<1>10. \A u \in Thread : u # t => ~Owns(u)
  <2>1. CASE m.holder = t
    <3>1. Owns(t)
      BY <1>3, <2>1 DEF HolderIsOwner, Owns
    <3> QED
      BY <3>1 DEF MutualExclusion
  <2>2. CASE \A u \in Thread : pc[u] = "out"
    BY <2>2 DEF Owns, Granted
  <2> QED
    BY <2>1, <2>2 DEF mutex_destroy, DestroyWaking
<1>11. WaitersInside' /\ QueueLife'
  BY <1>3, <1>5, <1>6, <1>8, <1>9 DEF WaitersInside, QueueLife
<1>12. CountAccountsForThreads' /\ HolderIsOwner'
  BY <1>3 DEF CountAccountsForThreads, HolderIsOwner
<1>13. ASSUME NEW u \in Thread PROVE ~Owns(u)'
  <2>1. CASE u = t
    <3>1. pc'[u] \in {"out", "destroying"}
      BY <1>8, <2>1
    <3> QED
      BY <3>1 DEF Owns, Granted
  <2>2. CASE u # t
    <3>1. ~Owns(u) /\ pc'[u] = pc[u]
      BY <1>8, <1>10, <2>2
    <3>2. \/ wq'.state[u] = wq.state[u] /\ wq'.ret[u] = wq.ret[u]
          \/ wq'.ret[u] = "ERR_OBJECT_DESTROYED"
      BY <1>5, <1>6
    <3> QED
      BY <3>1, <3>2 DEF Owns, Granted
  <2> QED
    BY <2>1, <2>2
<1> QED
  BY <1>1, <1>7, <1>11, <1>12, <1>13 DEF MutualExclusion, NoOwnerOfDestroyed

\* The rest of wait_queue_destroy() only clears the magic of an empty queue.
LEMMA DestroyResumeStep ==
    ASSUME IInv, NEW t \in Thread, DestroyResume(t)
    PROVE  IInv'
<1> USE DEF IInv
<1>1. TypeOK'
  BY TypeStep DEF Next
<1>2. pc[t] = "destroying" /\ ~Live /\ ~Live' /\ m' = m
  BY DEF DestroyResume, QueueLife, Live
<1>3. /\ wq'.list = wq.list /\ wq'.count = wq.count /\ wq'.state = wq.state
      /\ wq'.blockedOn = wq.blockedOn /\ wq'.ret = wq.ret
  BY DEF DestroyResume, TypeOK, WaitState
<1>4. \A u \in Thread : pc'[u] = IF u = t THEN "out" ELSE pc[u]
  BY DEF DestroyResume, TypeOK
<1>5. WaitQueueOK(wq')
  BY <1>3 DEF WaitQueueOK
<1> QED
  BY <1>1, <1>2, <1>3, <1>4, <1>5
     DEF WaitersInside, QueueLife, CountAccountsForThreads, HolderIsOwner,
         MutualExclusion, NoOwnerOfDestroyed, Owns, Granted

\* A timer makes no owner: whom it wakes returns ERR_TIMED_OUT.
LEMMA TimerStep ==
    ASSUME IInv, NEW t \in Thread, TimerFires(t)
    PROVE  IInv'
<1> USE DEF IInv
<1>1. TypeOK'
  BY TypeStep DEF Next
<1>2. wq \in WaitState /\ wq' = wait_queue_timeout_handler(wq, t) /\ pc' = pc /\ m' = m
  BY DEF TimerFires, TypeOK
<1>3. /\ WaitQueueOK(wq')
      /\ wq'.live = wq.live
      /\ \A u \in Thread :
           IF u = t /\ wq.state[t] = "BLOCKED"
           THEN wq'.state[u] = "READY" /\ wq'.ret[u] = "ERR_TIMED_OUT"
           ELSE wq'.state[u] = wq.state[u] /\ wq'.ret[u] = wq.ret[u]
  BY <1>2, TimeoutOK
<1>4. ~Live => wq'.list[mwait] = << >>
  <2> SUFFICES ASSUME ~Live PROVE wq'.list[mwait] = << >>
    OBVIOUS
  <2>1. Elements(wq'.list[mwait]) \subseteq Elements(wq.list[mwait])
    BY <1>2, TimeoutOK, MutexAssumption
  <2>2. wq.list[mwait] = << >>
    BY DEF QueueLife
  <2>3. wq.list[mwait] \in Seq(Thread) /\ wq'.list[mwait] \in Seq(Thread)
    BY <1>1, MutexAssumption DEF TypeOK, WaitState
  <2> QED
    BY <2>1, <2>2, <2>3, EmptyElements
<1>5. WaitersInside' /\ QueueLife'
  BY <1>2, <1>3, <1>4 DEF WaitersInside, QueueLife, Live
<1>6. CountAccountsForThreads' /\ HolderIsOwner'
  BY <1>2 DEF CountAccountsForThreads, HolderIsOwner, Live
<1>7. MutualExclusion' /\ NoOwnerOfDestroyed'
  BY <1>2, <1>3 DEF MutualExclusion, NoOwnerOfDestroyed, Owns, Granted, Live
<1> QED
  BY <1>1, <1>3, <1>5, <1>6, <1>7

\* mutex_init() of storage no call is using.
LEMMA InitStep ==
    ASSUME IInv, mutex_init
    PROVE  IInv'
<1> USE DEF IInv
<1>1. TypeOK'
  BY TypeStep DEF Next
<1>2. /\ pc' = pc /\ \A t \in Thread : pc[t] = "out"
      /\ Live' /\ m'.count = 0 /\ m'.holder = NULL
  BY DEF mutex_init, Live, MUTEX_INITIAL_VALUE
<1>3. wq.list[mwait] = << >> /\ wq.count[mwait] = 0 /\ mwait \in Queue
  BY MutexAssumption DEF mutex_init, QueueLife, WaitQueueOK
<1>4. /\ wq'.list = wq.list /\ wq'.count = wq.count /\ wq'.state = wq.state
      /\ wq'.blockedOn = wq.blockedOn /\ wq'.ret = wq.ret
      /\ mwait \in wq'.live
  BY <1>3 DEF mutex_init, wait_queue_init, TypeOK, WaitState
<1>5. WaitQueueOK(wq')
  BY <1>4 DEF WaitQueueOK
<1>6. CountAccountsForThreads'
  <2>1. {t \in Thread : pc'[t] \in {"holds", "blocked"}} = {}
    BY <1>2
  <2> QED
    BY <1>2, <2>1, FS_EmptySet DEF CountAccountsForThreads
<1> QED
  BY <1>1, <1>2, <1>4, <1>5, <1>6, NullAssumption
     DEF WaitersInside, QueueLife, HolderIsOwner, MutualExclusion,
         NoOwnerOfDestroyed, Owns, Granted

-----------------------------------------------------------------------------
\* The initial state satisfies the inductive invariant.
LEMMA Initially == Init => IInv
<1> SUFFICES ASSUME Init PROVE IInv
  OBVIOUS
<1>1. TypeOK
  BY NullAssumption DEF Init, TypeOK, WaitInit, WaitState, ThreadState, Status,
                        MUTEX_INITIAL_VALUE
<1>2. WaitQueueOK(wq)
  BY NullAssumption DEF Init, WaitInit, WaitQueueOK, NoRepeats, Elements
<1>3. CountAccountsForThreads
  <2>1. {t \in Thread : pc[t] \in {"holds", "blocked"}} = {}
    BY DEF Init
  <2> QED
    BY <2>1, FS_EmptySet DEF CountAccountsForThreads, Init, MUTEX_INITIAL_VALUE
<1>4. WaitersInside /\ QueueLife
  BY MutexAssumption DEF Init, WaitInit, WaitersInside, QueueLife, Live, MUTEX_INITIAL_VALUE
<1> QED
  BY <1>1, <1>2, <1>3, <1>4, NullAssumption
     DEF IInv, Init, HolderIsOwner, MutualExclusion, NoOwnerOfDestroyed, Owns, Granted,
         MUTEX_INITIAL_VALUE

\* Every step of every operation preserves the inductive invariant.
LEMMA Inductive == IInv /\ [Next]_vars => IInv'
<1> SUFFICES ASSUME IInv, [Next]_vars PROVE IInv'
  OBVIOUS
<1>1. CASE UNCHANGED vars
  BY <1>1 DEF vars, IInv, TypeOK, WaitersInside, QueueLife, CountAccountsForThreads,
              HolderIsOwner, MutualExclusion, NoOwnerOfDestroyed, Owns, Granted, Live
<1>2. CASE mutex_init
  BY <1>2, InitStep
<1>3. ASSUME NEW t \in Thread,
             \/ AcquireFree(t) \/ AcquireTry(t) \/ AcquireResume(t)
             \/ \E timeout \in Timeouts : AcquireBlock(t, timeout)
             \/ mutex_release(t)
             \/ mutex_destroy(t) \/ DestroyResume(t)
             \/ TimerFires(t)
      PROVE  IInv'
  BY <1>3, AcquireFreeStep, AcquireTryStep, AcquireResumeStep, AcquireBlockStep,
     ReleaseStep, DestroyStep, DestroyResumeStep, TimerStep
<1> QED
  BY <1>1, <1>2, <1>3 DEF Next

\* The invariant holds in every reachable state of the mutex.
THEOREM MutexInvariant == Spec => []IInv
BY Initially, Inductive, PTL DEF Spec

\* Type correctness of the state of mutex.c and of its wait queue.
THEOREM TypeCorrect == Spec => []TypeOK
<1>1. IInv => TypeOK
  BY DEF IInv
<1> QED
  BY <1>1, MutexInvariant, PTL

\* At most one thread owns the mutex, for any number of threads and any mix of
\* timed, untimed and zero-timeout acquires, destruction and re-initialisation.
THEOREM MutexMutualExclusion == Spec => []MutualExclusion
<1>1. IInv => MutualExclusion
  BY DEF IInv
<1> QED
  BY <1>1, MutexInvariant, PTL

\* A mutex acquired without blocking had neither owner nor waiters.
THEOREM MutexNoBarging == Spec => NoBarging
<1>1. IInv /\ [Next]_vars =>
        [\A t \in Thread : pc[t] = "out" /\ pc'[t] = "holds" =>
           wq.list[mwait] = << >> /\ \A u \in Thread : ~Owns(u)]_vars
  <2> SUFFICES ASSUME IInv, Next, NEW t \in Thread, pc[t] = "out", pc'[t] = "holds"
               PROVE  wq.list[mwait] = << >> /\ \A u \in Thread : ~Owns(u)
    BY DEF vars
  <2> USE DEF IInv
  <2>1. AcquireFree(t)
    BY DEF Next, AcquireFree, AcquireUpTo, AcquireTry, AcquireBlock, AcquireResume, ResumeOwner, ResumeTimedOut, ResumeFailed, mutex_release, ReleaseTo,
           mutex_destroy, DestroyWaking, DestroyResume, TimerFires, mutex_init, TypeOK
  <2>2. \A u \in Thread : pc[u] \notin {"holds", "blocked"}
    <3>1. Live /\ m.count <= 0
      BY <2>1 DEF AcquireFree, AcquireUpTo, TypeOK
    <3> QED
      BY <3>1, NobodyInside
  <2>3. \A u \in Thread : ~Owns(u)
    BY <2>2 DEF Owns, Granted
  <2>4. wq.list[mwait] \in Seq(Thread)
    BY MutexAssumption DEF TypeOK, WaitState
  <2>5. Elements(wq.list[mwait]) = {}
    <3>1. \A u \in Thread : wq.blockedOn[u] = NULL
      BY <2>2 DEF WaitersInside, WaitQueueOK
    <3>2. Elements(wq.list[mwait]) \subseteq Thread
      BY <2>4 DEF Elements
    <3> QED
      BY <3>1, <3>2, NullAssumption, MutexAssumption DEF WaitQueueOK
  <2> QED
    BY <2>3, <2>4, <2>5, EmptyElements
<1> QED
  BY <1>1, MutexInvariant, PTL DEF Spec, NoBarging

-----------------------------------------------------------------------------
(***************************************************************************)
(* Nobody is stranded while no wait has timed out.                         *)
(***************************************************************************)

\* What holds in addition as long as no wait on the mutex has timed out: whoever
\* leaves the queue of a live mutex was handed it.
UInv ==
    /\ \A t \in Thread : wq.blockedOn[t] \in {NULL, mwait}
    /\ late = {} => \A t \in Thread : Live /\ pc[t] = "blocked" => wq.ret[t] = "NO_ERROR"
    /\ NoLostWakeup

\* Somebody who is inside owns the mutex, or waits for an owner.
LEMMA InsideHasOwner ==
    ASSUME IInv, UInv, Live, late = {},
           NEW u \in Thread, pc[u] \in {"holds", "blocked"}
    PROVE  \E o \in Thread : Owns(o)
<1>1. CASE pc[u] = "holds" \/ wq.state[u] = "READY"
  BY <1>1 DEF Owns, Granted, UInv
<1>2. CASE wq.state[u] = "BLOCKED"
  <2>1. u \in Elements(wq.list[mwait])
    BY <1>2, MutexAssumption DEF IInv, UInv, WaitQueueOK
  <2>2. wq.list[mwait] # << >>
    BY <2>1 DEF Elements
  <2> QED
    BY <2>2 DEF UInv, NoLostWakeup
<1> QED
  BY <1>1, <1>2 DEF IInv, WaitersInside

\* A thread that blocks finds an owner to wait for.
LEMMA UBlock ==
    ASSUME IInv, UInv, NEW t \in Thread, NEW timeout \in Timeouts, AcquireBlock(t, timeout)
    PROVE  UInv'
<1> USE DEF IInv
<1>1. /\ pc[t] = "out" /\ Live /\ m.count >= 1 /\ m.count \in Int
      /\ Live' <=> Live
      /\ late' = late
      /\ wq' = wait_queue_block(wq, mwait, t, timeout)
      /\ \A u \in Thread : pc'[u] = IF u = t THEN "blocked" ELSE pc[u]
  BY DEF AcquireBlock, TypeOK, Live
<1>2. \A u \in Thread :
           /\ wq'.state[u] = IF u = t THEN "BLOCKED" ELSE wq.state[u]
           /\ wq'.blockedOn[u] = IF u = t THEN mwait ELSE wq.blockedOn[u]
           /\ wq'.ret[u] = IF u = t THEN "NO_ERROR" ELSE wq.ret[u]
  BY <1>1 DEF wait_queue_block, TypeOK, WaitState
<1>3. PICK u \in Thread : pc[u] \in {"holds", "blocked"}
  <2>1. Cardinality(Inside) # 0
    BY <1>1 DEF CountAccountsForThreads, Inside
  <2>2. Inside # {}
    BY <2>1, FS_EmptySet
  <2> QED
    BY <2>2 DEF Inside
<1>5. late = {} => \E o \in Thread : Owns(o)'
  <2> SUFFICES ASSUME late = {} PROVE \E o \in Thread : Owns(o)'
    OBVIOUS
  <2>1. PICK o \in Thread : Owns(o)
    BY <1>1, <1>3, InsideHasOwner
  <2> QED
    BY <1>1, <1>2, <2>1 DEF Owns, Granted
<1> QED
  BY <1>1, <1>2, <1>5 DEF UInv, NoLostWakeup

\* mutex_release() hands the mutex over whenever somebody is queued.
LEMMA URelease ==
    ASSUME IInv, UInv, NEW t \in Thread, mutex_release(t)
    PROVE  UInv'
<1> USE DEF IInv
<1>1. /\ pc[t] = "holds" /\ Live /\ Live' /\ m.count \in Int /\ late' = late
      /\ \A u \in Thread : pc'[u] = IF u = t THEN "out" ELSE pc[u]
  BY DEF mutex_release, ReleaseTo, TypeOK, Live
<1>2. CASE wq.list[mwait] = << >>
  <2>1. wq' = wq
    BY <1>2 DEF mutex_release, ReleaseTo, wait_queue_wake_one
  <2> QED
    BY <1>1, <1>2, <2>1 DEF UInv, NoLostWakeup
<1>3. CASE wq.list[mwait] # << >>
  <2>1. PICK h \in Thread : h = Head(wq.list[mwait]) /\ h \in Elements(wq.list[mwait])
    BY <1>3, WakeOneOK, MutexAssumption DEF TypeOK, Status
  <2>2. wq.state[h] = "BLOCKED"
    BY <2>1, NullAssumption, MutexAssumption DEF WaitQueueOK
  <2>3. pc[h] = "blocked" /\ h # t
    BY <1>1, <2>1, <2>2 DEF WaitersInside
  <2>4. m.count - 1 >= 1
    <3>1. t \in Inside /\ h \in Inside \ {t} /\ IsFiniteSet(Inside)
      BY <1>1, <2>1, <2>3, FS_Subset, MutexAssumption DEF Inside
    <3>2. /\ IsFiniteSet(Inside \ {t})
          /\ Cardinality(Inside \ {t}) = Cardinality(Inside) - 1
      BY <3>1, FS_RemoveElement
    <3>3. Cardinality(Inside \ {t}) # 0 /\ Cardinality(Inside \ {t}) \in Nat
      BY <3>1, <3>2, FS_EmptySet, FS_CardinalityType
    <3>4. m.count = Cardinality(Inside)
      BY <1>1 DEF CountAccountsForThreads, Inside
    <3> QED
      BY <1>1, <3>2, <3>3, <3>4
  <2>5. wq' = wait_queue_wake_one(wq, mwait, "NO_ERROR")
    BY <2>4 DEF mutex_release, ReleaseTo
  <2>6. \A u \in Thread :
             /\ wq'.state[u] = IF u = h THEN "READY" ELSE wq.state[u]
             /\ wq'.blockedOn[u] = IF u = h THEN NULL ELSE wq.blockedOn[u]
             /\ wq'.ret[u] = IF u = h THEN "NO_ERROR" ELSE wq.ret[u]
    BY <1>3, <2>1, <2>5 DEF wait_queue_wake_one, Dequeue
  <2>7. Owns(h)'
    BY <1>1, <2>1, <2>3, <2>6 DEF Owns, Granted
  <2> QED
    BY <1>1, <2>1, <2>6, <2>7 DEF UInv, NoLostWakeup
<1> QED
  BY <1>2, <1>3

\* mutex_destroy() leaves nobody queued.
LEMMA UDestroy ==
    ASSUME IInv, UInv, NEW t \in Thread, mutex_destroy(t)
    PROVE  UInv'
<1> USE DEF IInv
<1> DEFINE woken == wait_queue_wake_all(wq, mwait, "ERR_OBJECT_DESTROYED")
<1>1. ~Live' /\ late' = late
  BY DEF mutex_destroy, DestroyWaking, Live, MUTEX_MAGIC
<1>2. woken \in WaitState /\ mwait \in Queue
  BY WakeAllOK, MutexAssumption DEF TypeOK, Status
<1>3. /\ woken.list[mwait] = << >>
      /\ \A u \in Thread : woken.blockedOn[u] \in {NULL, wq.blockedOn[u]}
  BY <1>2 DEF wait_queue_wake_all, Dequeue, TypeOK, WaitState
<1> HIDE DEF woken
<1>4. /\ wq'.list = woken.list
      /\ wq'.blockedOn = woken.blockedOn
  BY <1>2 DEF mutex_destroy, DestroyWaking, WaitState, woken
<1> QED
  BY <1>1, <1>3, <1>4 DEF UInv, NoLostWakeup

\* A timer that finds its thread still queued makes the history late; one that
\* comes after the hand-over changes nothing.
LEMMA UTimer ==
    ASSUME IInv, UInv, NEW t \in Thread, TimerFires(t)
    PROVE  UInv'
<1> USE DEF IInv
<1>1. wq \in WaitState /\ wq' = wait_queue_timeout_handler(wq, t) /\ pc' = pc /\ m' = m
  BY DEF TimerFires, TypeOK
<1>2. CASE wq.state[t] = "BLOCKED"
  <2>1. t \in late'
    BY <1>2 DEF TimerFires
  <2>2. \A u \in Thread : wq'.blockedOn[u] \in {NULL, wq.blockedOn[u]}
    BY <1>1, <1>2 DEF wait_queue_timeout_handler, thread_unblock_from_wait_queue, Dequeue, WaitState
  <2> QED
    BY <2>1, <2>2 DEF UInv, NoLostWakeup
<1>3. CASE wq.state[t] # "BLOCKED"
  <2>1. /\ wq'.list = wq.list /\ wq'.state = wq.state /\ wq'.blockedOn = wq.blockedOn
        /\ wq'.ret = wq.ret /\ late' = late
    BY <1>1, <1>3 DEF wait_queue_timeout_handler, thread_unblock_from_wait_queue, WaitState, TimerFires
  <2> QED
    BY <1>1, <2>1 DEF UInv, NoLostWakeup, Owns, Granted, Live
<1> QED
  BY <1>2, <1>3

\* Whoever waits for a mutex on which no wait has timed out waits for an owner:
\* releases, destruction and re-initialisation never leave a waiter behind.
THEOREM MutexNoLostWakeup == Spec => []NoLostWakeup
<1>1. Init => UInv
  BY MutexAssumption DEF Init, UInv, WaitInit, NoLostWakeup
<1>2. IInv /\ UInv /\ [Next]_vars => UInv'
  <2> SUFFICES ASSUME IInv, UInv, [Next]_vars PROVE UInv'
    OBVIOUS
  <2> USE DEF IInv
  <2>1. CASE UNCHANGED vars
    BY <2>1 DEF vars, UInv, NoLostWakeup, Owns, Granted, Live
  <2>2. CASE mutex_init
    <3>1. /\ pc' = pc /\ \A t \in Thread : pc[t] = "out"
          /\ wq'.blockedOn = wq.blockedOn /\ wq'.list[mwait] = << >>
      BY <2>2, MutexAssumption DEF mutex_init, wait_queue_init, TypeOK, WaitState
    <3> QED
      BY <3>1 DEF UInv, NoLostWakeup
  <2>3. ASSUME NEW t \in Thread, AcquireFree(t) PROVE UInv'
    <3>1. wq' = wq /\ late' = late /\ Live /\ \A u \in Thread : pc'[u] = IF u = t THEN "holds" ELSE pc[u]
      BY <2>3 DEF AcquireFree, AcquireUpTo, TypeOK
    <3> QED
      BY <3>1 DEF UInv, NoLostWakeup, Owns
  <2>4. ASSUME NEW t \in Thread, AcquireTry(t) PROVE UInv'
    BY <2>4 DEF AcquireTry, UInv, NoLostWakeup, Owns, Granted, Live
  <2>5. ASSUME NEW t \in Thread, NEW timeout \in Timeouts, AcquireBlock(t, timeout)
        PROVE  UInv'
    BY <2>5, UBlock
  <2>6. ASSUME NEW t \in Thread, AcquireResume(t) PROVE UInv'
    <3>1. /\ wq'.blockedOn = wq.blockedOn /\ late' = late
          /\ wq'.ret = wq.ret /\ wq'.list = wq.list
          /\ Live' <=> Live
      BY <2>6 DEF AcquireResume, ResumeOwner, ResumeTimedOut, ResumeFailed, wait_queue_block_return, TypeOK, WaitState, Live
    <3>2. \A u \in Thread : u # t => pc'[u] = pc[u]
      BY <2>6 DEF AcquireResume, ResumeOwner, ResumeTimedOut, ResumeFailed, TypeOK
    <3>3. pc'[t] \in {"out", "holds"} /\ (wq.ret[t] = "NO_ERROR" => pc'[t] = "holds")
      BY <2>6 DEF AcquireResume, ResumeOwner, ResumeTimedOut, ResumeFailed, TypeOK
    <3>4. NoLostWakeup'
      <4>1. CASE ~Live
        BY <3>1, <4>1 DEF QueueLife, NoLostWakeup
      <4>2. CASE Live /\ late = {}
        <5>1. pc'[t] = "holds"
          BY <2>6, <3>3, <4>2 DEF UInv, AcquireResume, ResumeOwner, ResumeTimedOut, ResumeFailed
        <5> QED
          BY <5>1 DEF NoLostWakeup, Owns
      <4> QED
        BY <3>1, <4>1, <4>2 DEF NoLostWakeup
    <3> QED
      BY <3>1, <3>2, <3>3, <3>4 DEF UInv
  <2>7. ASSUME NEW t \in Thread, DestroyResume(t) PROVE UInv'
    <3>1. ~Live /\ ~Live' /\ late' = late
          /\ wq'.blockedOn = wq.blockedOn /\ wq'.list = wq.list
      BY <2>7 DEF DestroyResume, QueueLife, Live, TypeOK, WaitState
    <3> QED
      BY <3>1 DEF UInv, QueueLife, NoLostWakeup
  <2> QED
    BY <2>1, <2>2, <2>3, <2>4, <2>5, <2>6, <2>7, URelease, UDestroy, UTimer DEF Next
<1>3. UInv => NoLostWakeup
  BY DEF UInv
<1> QED
  BY <1>1, <1>2, <1>3, MutexInvariant, PTL DEF Spec
=============================================================================
