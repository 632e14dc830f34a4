--------------------------- MODULE WaitQueueProofs ---------------------------
(***************************************************************************)
(* What each wait queue operation returns, and that it preserves           *)
(* WaitQueueOK.  The proofs about the objects built on wait queues cite    *)
(* these lemmas.                                                           *)
(***************************************************************************)
EXTENDS WaitQueue, TLAPS

\* wait_queue_block() returns a well-formed state.
LEMMA BlockType ==
    ASSUME NEW w \in WaitState, NEW q \in Queue, NEW t \in Thread, NEW timeout
    PROVE  wait_queue_block(w, q, t, timeout) \in WaitState
BY DEF wait_queue_block, WaitState, ThreadState, Status

\* So does timer_cancel() after the switch back in.
LEMMA BlockReturnType ==
    ASSUME NEW w \in WaitState, NEW t \in Thread
    PROVE  wait_queue_block_return(w, t) \in WaitState
BY DEF wait_queue_block_return, WaitState

\* wait_queue_init() returns a well-formed state.
LEMMA InitType ==
    ASSUME NEW w \in WaitState, NEW q \in Queue
    PROVE  wait_queue_init(w, q) \in WaitState
BY DEF wait_queue_init, WaitState

\* Taking threads off a queue returns a well-formed state.
LEMMA DequeueType ==
    ASSUME NEW w \in WaitState, NEW q \in Queue, NEW rest \in Seq(Thread),
           NEW woken, NEW err \in Status
    PROVE  Dequeue(w, q, rest, woken, err) \in WaitState
BY DEF Dequeue, WaitState, ThreadState, Status

-----------------------------------------------------------------------------
\* The head of a list without repetitions leaves it: what list_remove_head_type()
\* does to the threads on the list.
LEMMA TailElements ==
    ASSUME NEW s \in Seq(Thread), s # << >>, NoRepeats(s)
    PROVE  /\ Head(s) \in Elements(s)
           /\ Tail(s) \in Seq(Thread)
           /\ Len(Tail(s)) = Len(s) - 1
           /\ Elements(Tail(s)) = Elements(s) \ {Head(s)}
           /\ NoRepeats(Tail(s))
<1>1. /\ Len(s) \in Nat /\ Len(s) > 0
      /\ Tail(s) \in Seq(Thread)
      /\ Len(Tail(s)) = Len(s) - 1
      /\ Head(s) = s[1]
      /\ \A i \in 1 .. Len(s) - 1 : Tail(s)[i] = s[i + 1]
  OBVIOUS
<1>2. NoRepeats(Tail(s))
  BY <1>1 DEF NoRepeats
<1>3. Head(s) \in Elements(s)
  BY <1>1 DEF Elements
<1>4. ASSUME NEW x \in Elements(Tail(s)) PROVE x \in Elements(s) \ {Head(s)}
  <2>1. PICK i \in 1 .. Len(s) - 1 : x = s[i + 1]
    BY <1>1, <1>4 DEF Elements
  <2> QED
    BY <1>1, <2>1 DEF Elements, NoRepeats
<1>5. ASSUME NEW x \in Elements(s) \ {Head(s)} PROVE x \in Elements(Tail(s))
  <2>1. PICK i \in 1 .. Len(s) : x = s[i] /\ i # 1
    BY <1>1 DEF Elements
  <2>2. i - 1 \in 1 .. Len(Tail(s)) /\ Tail(s)[i - 1] = x
    BY <1>1, <2>1
  <2> QED
    BY <2>2 DEF Elements
<1> QED
  BY <1>1, <1>2, <1>3, <1>4, <1>5

\* A list without threads is empty.
LEMMA EmptyElements ==
    ASSUME NEW s \in Seq(Thread)
    PROVE  Elements(s) = {} <=> s = << >>
<1>1. Len(s) \in Nat /\ (s = << >> <=> Len(s) = 0)
  OBVIOUS
<1>2. s # << >> => s[1] \in Elements(s)
  BY <1>1 DEF Elements
<1>3. s = << >> => Elements(s) = {}
  BY <1>1 DEF Elements
<1> QED
  BY <1>2, <1>3

\* list_delete() removes the thread it is given and nothing else.
LEMMA DeleteElements ==
    ASSUME NEW s \in Seq(Thread), NoRepeats(s), NEW t \in Elements(s)
    PROVE  /\ list_delete(s, t) \in Seq(Thread)
           /\ Len(list_delete(s, t)) = Len(s) - 1
           /\ Elements(list_delete(s, t)) = Elements(s) \ {t}
           /\ NoRepeats(list_delete(s, t))
<1> DEFINE i == CHOOSE i \in 1 .. Len(s) : s[i] = t
           d == list_delete(s, t)
<1>1. i \in 1 .. Len(s) /\ s[i] = t /\ Len(s) \in Nat
  BY DEF Elements
<1>2. d = [j \in 1 .. Len(s) - 1 |-> IF j < i THEN s[j] ELSE s[j + 1]]
  BY DEF list_delete
<1> HIDE DEF i, d
<1>3. d \in Seq(Thread) /\ Len(d) = Len(s) - 1
  BY <1>1, <1>2
<1>4. NoRepeats(d)
  BY <1>1, <1>2, <1>3 DEF NoRepeats
<1>5. ASSUME NEW x \in Elements(d) PROVE x \in Elements(s) \ {t}
  <2>1. PICK j \in 1 .. Len(s) - 1 : x = d[j]
    BY <1>3, <1>5 DEF Elements
  <2> QED
    BY <1>1, <1>2, <2>1 DEF Elements, NoRepeats
<1>6. ASSUME NEW x \in Elements(s) \ {t} PROVE x \in Elements(d)
  <2>1. PICK k \in 1 .. Len(s) : x = s[k] /\ k # i
    BY <1>1 DEF Elements
  <2>2. \E j \in 1 .. Len(d) : d[j] = x
    <3>1. CASE k < i
      BY <1>1, <1>2, <1>3, <2>1, <3>1
    <3>2. CASE k > i
      <4>1. k - 1 \in 1 .. Len(d) /\ d[k - 1] = x
        BY <1>1, <1>2, <1>3, <2>1, <3>2
      <4> QED
        BY <4>1
    <3> QED
      BY <1>1, <2>1, <3>1, <3>2
  <2> QED
    BY <2>2 DEF Elements
<1> QED
  BY <1>3, <1>4, <1>5, <1>6 DEF d

\* list_add_tail() adds the caller at the tail.
LEMMA AppendElements ==
    ASSUME NEW s \in Seq(Thread), NEW t \in Thread
    PROVE  /\ Append(s, t) \in Seq(Thread)
           /\ Len(Append(s, t)) = Len(s) + 1
           /\ Elements(Append(s, t)) = Elements(s) \union {t}
           /\ NoRepeats(s) /\ t \notin Elements(s) => NoRepeats(Append(s, t))
<1>1. /\ Len(s) \in Nat
      /\ Append(s, t) \in Seq(Thread)
      /\ Len(Append(s, t)) = Len(s) + 1
      /\ \A i \in 1 .. Len(s) : Append(s, t)[i] = s[i]
      /\ Append(s, t)[Len(s) + 1] = t
  OBVIOUS
<1>2. ASSUME NEW x \in Elements(Append(s, t)) PROVE x \in Elements(s) \union {t}
  BY <1>1, <1>2 DEF Elements
<1>3. ASSUME NEW x \in Elements(s) \union {t} PROVE x \in Elements(Append(s, t))
  <2>1. CASE x = t
    <3>1. Len(s) + 1 \in 1 .. Len(Append(s, t))
      BY <1>1
    <3> QED
      BY <1>1, <2>1, <3>1 DEF Elements
  <2>2. CASE x \in Elements(s)
    <3>1. PICK i \in 1 .. Len(s) : x = s[i]
      BY <2>2 DEF Elements
    <3>2. i \in 1 .. Len(Append(s, t)) /\ Append(s, t)[i] = x
      BY <1>1, <3>1
    <3> QED
      BY <3>2 DEF Elements
  <2> QED
    BY <1>3, <2>1, <2>2
<1>4. NoRepeats(s) /\ t \notin Elements(s) => NoRepeats(Append(s, t))
  BY <1>1 DEF NoRepeats, Elements
<1> QED
  BY <1>1, <1>2, <1>3, <1>4

-----------------------------------------------------------------------------
\* A thread that is on no queue may block.
LEMMA BlockOK ==
    ASSUME NEW w \in WaitState, WaitQueueOK(w),
           NEW q \in Queue, NEW t \in Thread, NEW timeout,
           w.blockedOn[t] = NULL
    PROVE  WaitQueueOK(wait_queue_block(w, q, t, timeout))
<1> DEFINE v == wait_queue_block(w, q, t, timeout)
<1>1. /\ v.list = [w.list EXCEPT ![q] = Append(@, t)]
      /\ v.count = [w.count EXCEPT ![q] = @ + 1]
      /\ v.state = [w.state EXCEPT ![t] = "BLOCKED"]
      /\ v.blockedOn = [w.blockedOn EXCEPT ![t] = q]
  BY DEF wait_queue_block
<1>2. /\ w.list \in [Queue -> Seq(Thread)]
      /\ w.count \in [Queue -> Int]
      /\ w.state \in [Thread -> ThreadState]
      /\ w.blockedOn \in [Thread -> Queue \union {NULL}]
  BY DEF WaitState
<1> HIDE DEF v
<1>3. t \notin Elements(w.list[q])
  BY NullAssumption DEF WaitQueueOK
<1>4. ASSUME NEW p \in Queue
      PROVE  /\ v.count[p] = Len(v.list[p])
             /\ NoRepeats(v.list[p])
             /\ \A u \in Thread : u \in Elements(v.list[p]) <=> v.blockedOn[u] = p
  <2>1. CASE p = q
    <3>1. v.list[p] = Append(w.list[q], t) /\ v.count[p] = w.count[q] + 1
      BY <1>1, <1>2, <2>1
    <3>2. /\ Len(v.list[p]) = Len(w.list[q]) + 1
          /\ Elements(v.list[p]) = Elements(w.list[q]) \union {t}
          /\ NoRepeats(v.list[p])
      BY <1>2, <1>3, <3>1, AppendElements DEF WaitQueueOK
    <3> QED
      BY <1>1, <1>2, <2>1, <3>1, <3>2 DEF WaitQueueOK
  <2>2. CASE p # q
    BY <1>1, <1>2, <2>2, NullAssumption DEF WaitQueueOK
  <2> QED
    BY <2>1, <2>2
<1>5. \A u \in Thread : v.state[u] = "BLOCKED" <=> v.blockedOn[u] # NULL
  BY <1>1, <1>2, NullAssumption DEF WaitQueueOK
<1> QED
  BY <1>4, <1>5 DEF WaitQueueOK, v

\* Any set of threads may be taken off a queue, as long as the list keeps
\* exactly the others.
LEMMA DequeueOK ==
    ASSUME NEW w \in WaitState, WaitQueueOK(w), NEW q \in Queue,
           NEW rest \in Seq(Thread), NEW woken \in SUBSET Thread, NEW err,
           woken \subseteq Elements(w.list[q]),
           Elements(rest) = Elements(w.list[q]) \ woken,
           NoRepeats(rest)
    PROVE  WaitQueueOK(Dequeue(w, q, rest, woken, err))
<1> DEFINE v == Dequeue(w, q, rest, woken, err)
<1>1. /\ v.list = [w.list EXCEPT ![q] = rest]
      /\ v.count = [w.count EXCEPT ![q] = @ - (Len(w.list[q]) - Len(rest))]
      /\ v.state = [t \in Thread |-> IF t \in woken THEN "READY" ELSE w.state[t]]
      /\ v.blockedOn = [t \in Thread |-> IF t \in woken THEN NULL ELSE w.blockedOn[t]]
  BY DEF Dequeue
<1>2. /\ w.list \in [Queue -> Seq(Thread)]
      /\ w.count \in [Queue -> Int]
  BY DEF WaitState
<1> HIDE DEF v
<1>3. \A t \in woken : w.blockedOn[t] = q
  BY DEF WaitQueueOK
<1>4. ASSUME NEW p \in Queue
      PROVE  /\ v.count[p] = Len(v.list[p])
             /\ NoRepeats(v.list[p])
             /\ \A u \in Thread : u \in Elements(v.list[p]) <=> v.blockedOn[u] = p
  <2>1. CASE p = q
    <3>1. v.list[p] = rest /\ v.count[p] = Len(rest)
      BY <1>1, <1>2, <2>1 DEF WaitQueueOK
    <3> QED
      BY <1>1, <1>3, <2>1, <3>1, NullAssumption DEF WaitQueueOK
  <2>2. CASE p # q
    BY <1>1, <1>2, <1>3, <2>2, NullAssumption DEF WaitQueueOK
  <2> QED
    BY <2>1, <2>2
<1>5. \A u \in Thread : v.state[u] = "BLOCKED" <=> v.blockedOn[u] # NULL
  BY <1>1 DEF WaitQueueOK
<1> QED
  BY <1>4, <1>5 DEF WaitQueueOK, v

\* wait_queue_wake_one() keeps the queues consistent; a thread it makes READY
\* was the head of the list.
LEMMA WakeOneOK ==
    ASSUME NEW w \in WaitState, WaitQueueOK(w), NEW q \in Queue, NEW err \in Status
    PROVE  /\ wait_queue_wake_one(w, q, err) \in WaitState
           /\ WaitQueueOK(wait_queue_wake_one(w, q, err))
           /\ w.list[q] # << >> =>
                /\ Head(w.list[q]) \in Elements(w.list[q])
                /\ Elements(w.list[q]) \subseteq Thread
<1>1. w.list[q] \in Seq(Thread) /\ NoRepeats(w.list[q])
  BY DEF WaitState, WaitQueueOK
<1>2. Elements(w.list[q]) \subseteq Thread
  BY <1>1 DEF Elements
<1>3. CASE w.list[q] = << >>
  BY <1>3 DEF wait_queue_wake_one
<1>4. CASE w.list[q] # << >>
  <2>1. /\ Head(w.list[q]) \in Elements(w.list[q])
        /\ Tail(w.list[q]) \in Seq(Thread)
        /\ Elements(Tail(w.list[q])) = Elements(w.list[q]) \ {Head(w.list[q])}
        /\ NoRepeats(Tail(w.list[q]))
    BY <1>1, <1>4, TailElements
  <2>2. {Head(w.list[q])} \in SUBSET Thread
    BY <1>2, <2>1
  <2>3. Dequeue(w, q, Tail(w.list[q]), {Head(w.list[q])}, err) \in WaitState
    BY <2>1, DequeueType
  <2>4. WaitQueueOK(Dequeue(w, q, Tail(w.list[q]), {Head(w.list[q])}, err))
    BY <2>1, <2>2, DequeueOK
  <2> QED
    BY <1>2, <1>4, <2>1, <2>3, <2>4 DEF wait_queue_wake_one
<1> QED
  BY <1>3, <1>4

\* wait_queue_wake_all() keeps the queues consistent.
LEMMA WakeAllOK ==
    ASSUME NEW w \in WaitState, WaitQueueOK(w), NEW q \in Queue, NEW err \in Status
    PROVE  /\ wait_queue_wake_all(w, q, err) \in WaitState
           /\ WaitQueueOK(wait_queue_wake_all(w, q, err))
<1>1. w.list[q] \in Seq(Thread)
  BY DEF WaitState
<1>2. Elements(w.list[q]) \in SUBSET Thread
  BY <1>1 DEF Elements
<1>3. << >> \in Seq(Thread) /\ Elements(<< >>) = {} /\ NoRepeats(<< >>)
  BY DEF Elements, NoRepeats
<1>4. Dequeue(w, q, << >>, Elements(w.list[q]), err) \in WaitState
  BY <1>3, DequeueType
<1>5. WaitQueueOK(Dequeue(w, q, << >>, Elements(w.list[q]), err))
  BY <1>2, <1>3, DequeueOK
<1> QED
  BY <1>4, <1>5 DEF wait_queue_wake_all

\* The timeout handler keeps the queues consistent.  It touches nobody but the
\* thread whose timer fired, and that one only if it is still BLOCKED.
LEMMA TimeoutOK ==
    ASSUME NEW w \in WaitState, WaitQueueOK(w), NEW t \in Thread
    PROVE  LET v == wait_queue_timeout_handler(w, t)
           IN  /\ v \in WaitState
               /\ WaitQueueOK(v)
               /\ v.timers = w.timers \ {t}
               /\ v.live = w.live
               /\ \A q \in Queue : Elements(v.list[q]) \subseteq Elements(w.list[q])
               /\ \A u \in Thread :
                    IF u = t /\ w.state[t] = "BLOCKED"
                    THEN v.state[u] = "READY" /\ v.ret[u] = "ERR_TIMED_OUT"
                    ELSE v.state[u] = w.state[u] /\ v.ret[u] = w.ret[u]
<1> DEFINE x == [w EXCEPT !.timers = @ \ {t}]
           v == wait_queue_timeout_handler(w, t)
<1>1. x \in WaitState
  BY DEF WaitState
<1>2. /\ x.list = w.list /\ x.count = w.count /\ x.state = w.state
      /\ x.blockedOn = w.blockedOn /\ x.ret = w.ret /\ x.live = w.live
      /\ x.timers = w.timers \ {t}
  BY DEF WaitState
<1>3. WaitQueueOK(x)
  BY <1>2 DEF WaitQueueOK
<1>4. v = thread_unblock_from_wait_queue(x, t, "ERR_TIMED_OUT")
  BY DEF wait_queue_timeout_handler
<1> HIDE DEF x, v
<1>5. CASE w.state[t] # "BLOCKED"
  <2>1. v = x
    BY <1>2, <1>4, <1>5 DEF thread_unblock_from_wait_queue
  <2> QED
    BY <1>1, <1>2, <1>3, <1>5, <2>1 DEF v
<1>6. CASE w.state[t] = "BLOCKED"
  <2> DEFINE q == w.blockedOn[t]
             rest == list_delete(w.list[q], t)
  <2>1. v = Dequeue(x, q, rest, {t}, "ERR_TIMED_OUT")
    BY <1>2, <1>4, <1>6 DEF thread_unblock_from_wait_queue
  <2>2. q \in Queue /\ t \in Elements(w.list[q])
    BY <1>6 DEF WaitQueueOK, WaitState
  <2>3. w.list[q] \in Seq(Thread) /\ NoRepeats(w.list[q])
    BY <2>2 DEF WaitState, WaitQueueOK
  <2>4. /\ rest \in Seq(Thread)
        /\ Elements(rest) = Elements(w.list[q]) \ {t}
        /\ NoRepeats(rest)
    BY <2>2, <2>3, DeleteElements
  <2> HIDE DEF q, rest
  <2>5. "ERR_TIMED_OUT" \in Status
    BY DEF Status
  <2>6. v \in WaitState
    BY <1>1, <2>1, <2>2, <2>4, <2>5, DequeueType
  <2>7. WaitQueueOK(v)
    <3>1. {t} \in SUBSET Thread /\ {t} \subseteq Elements(x.list[q])
      BY <1>2, <2>2
    <3> QED
      BY <1>1, <1>2, <1>3, <2>1, <2>2, <2>4, <3>1, DequeueOK
  <2>8. /\ v.timers = w.timers \ {t}
        /\ v.live = w.live
        /\ v.list = [w.list EXCEPT ![q] = rest]
        /\ \A u \in Thread :
             /\ v.state[u] = (IF u = t THEN "READY" ELSE w.state[u])
             /\ v.ret[u] = (IF u = t THEN "ERR_TIMED_OUT" ELSE w.ret[u])
    BY <1>2, <2>1 DEF Dequeue
  <2>9. \A p \in Queue : Elements(v.list[p]) \subseteq Elements(w.list[p])
    <3>1. w.list \in [Queue -> Seq(Thread)]
      BY DEF WaitState
    <3> QED
      BY <2>2, <2>4, <2>8, <3>1
  <2> QED
    BY <1>6, <2>6, <2>7, <2>8, <2>9 DEF v
<1> QED
  BY <1>5, <1>6

-----------------------------------------------------------------------------
(***************************************************************************)
(* What the operations do to each thread, for the proofs about callers.    *)
(***************************************************************************)

\* wait_queue_block() puts its caller, and nobody else, to sleep on the queue.
LEMMA BlockEffect ==
    ASSUME NEW w \in WaitState, NEW q \in Queue, NEW t \in Thread, NEW timeout,
           NEW v, v = wait_queue_block(w, q, t, timeout)
    PROVE  /\ v.list[q] = Append(w.list[q], t)
           /\ v.live = w.live
           /\ v.state = [w.state EXCEPT ![t] = "BLOCKED"]
           /\ v.blockedOn = [w.blockedOn EXCEPT ![t] = q]
           /\ v.ret = [w.ret EXCEPT ![t] = "NO_ERROR"]
BY DEF wait_queue_block, WaitState

\* wait_queue_wake_one() wakes the head of the list, which was asleep on it, and
\* nobody else.
LEMMA WakeOneEffect ==
    ASSUME NEW w \in WaitState, WaitQueueOK(w), NEW q \in Queue, NEW err \in Status,
           w.list[q] # << >>,
           NEW v, v = wait_queue_wake_one(w, q, err),
           NEW h, h = Head(w.list[q])
    PROVE  /\ h \in Thread /\ w.state[h] = "BLOCKED" /\ w.blockedOn[h] = q
           /\ v.list[q] = Tail(w.list[q])
           /\ v.live = w.live
           /\ v.state = [w.state EXCEPT ![h] = "READY"]
           /\ v.blockedOn = [w.blockedOn EXCEPT ![h] = NULL]
           /\ v.ret = [w.ret EXCEPT ![h] = err]
<1>1. h \in Elements(w.list[q]) /\ h \in Thread
  BY WakeOneOK
<1>2. w.blockedOn[h] = q /\ w.state[h] = "BLOCKED"
  BY <1>1, NullAssumption DEF WaitQueueOK
<1>3. v = Dequeue(w, q, Tail(w.list[q]), {h}, err)
  BY DEF wait_queue_wake_one
<1>4. /\ w.list \in [Queue -> Seq(Thread)]
      /\ w.state \in [Thread -> ThreadState]
      /\ w.blockedOn \in [Thread -> Queue \union {NULL}]
      /\ w.ret \in [Thread -> Status]
  BY DEF WaitState
<1>5. /\ v.list = [w.list EXCEPT ![q] = Tail(w.list[q])]
      /\ v.live = w.live
      /\ v.state = [u \in Thread |-> IF u \in {h} THEN "READY" ELSE w.state[u]]
      /\ v.blockedOn = [u \in Thread |-> IF u \in {h} THEN NULL ELSE w.blockedOn[u]]
      /\ v.ret = [u \in Thread |-> IF u \in {h} THEN err ELSE w.ret[u]]
  BY <1>3 DEF Dequeue
<1> QED
  BY <1>1, <1>2, <1>4, <1>5

\* wait_queue_wake_all() wakes the threads asleep on the queue and nobody else.
LEMMA WakeAllEffect ==
    ASSUME NEW w \in WaitState, WaitQueueOK(w), NEW q \in Queue, NEW err \in Status,
           NEW v, v = wait_queue_wake_all(w, q, err)
    PROVE  /\ v \in WaitState /\ WaitQueueOK(v)
           /\ v.list[q] = << >>
           /\ v.live = w.live
           /\ v.timers = w.timers
           /\ \A u \in Thread :
                IF w.blockedOn[u] = q
                THEN v.state[u] = "READY" /\ v.blockedOn[u] = NULL /\ v.ret[u] = err
                ELSE /\ v.state[u] = w.state[u] /\ v.blockedOn[u] = w.blockedOn[u]
                     /\ v.ret[u] = w.ret[u]
<1>1. \A u \in Thread : u \in Elements(w.list[q]) <=> w.blockedOn[u] = q
  BY DEF WaitQueueOK
<1>2. v = Dequeue(w, q, << >>, Elements(w.list[q]), err)
  BY DEF wait_queue_wake_all
<1>3. w.list \in [Queue -> Seq(Thread)]
  BY DEF WaitState
<1>4. v.list[q] = << >> /\ v.live = w.live /\ v.timers = w.timers
  BY <1>2, <1>3 DEF Dequeue
<1>5. \A u \in Thread :
        IF w.blockedOn[u] = q
        THEN v.state[u] = "READY" /\ v.blockedOn[u] = NULL /\ v.ret[u] = err
        ELSE /\ v.state[u] = w.state[u] /\ v.blockedOn[u] = w.blockedOn[u]
             /\ v.ret[u] = w.ret[u]
  <2>1. \A u \in Thread :
          /\ v.state[u] = IF u \in Elements(w.list[q]) THEN "READY" ELSE w.state[u]
          /\ v.blockedOn[u] = IF u \in Elements(w.list[q]) THEN NULL ELSE w.blockedOn[u]
          /\ v.ret[u] = IF u \in Elements(w.list[q]) THEN err ELSE w.ret[u]
    BY <1>2 DEF Dequeue
  <2> QED
    BY <1>1, <2>1
<1> QED
  BY <1>4, <1>5, WakeAllOK

\* v is w after the timer of t has fired.
TimedOut(v, w, t) ==
    /\ v.live = w.live
    /\ v.timers = w.timers \ {t}
    /\ \A q \in Queue : w.list[q] = << >> => v.list[q] = << >>
    /\ w.state[t] # "BLOCKED" =>
         /\ v.list = w.list /\ v.state = w.state
         /\ v.blockedOn = w.blockedOn /\ v.ret = w.ret
    /\ w.state[t] = "BLOCKED" =>
         /\ v.state = [w.state EXCEPT ![t] = "READY"]
         /\ v.blockedOn = [w.blockedOn EXCEPT ![t] = NULL]
         /\ v.ret = [w.ret EXCEPT ![t] = "ERR_TIMED_OUT"]

\* The timeout handler takes its thread off the queue it is asleep on; on a thread
\* that was woken before, it has no effect but that the timer is gone.
LEMMA TimeoutEffect ==
    ASSUME NEW w \in WaitState, WaitQueueOK(w), NEW t \in Thread,
           NEW v, v = wait_queue_timeout_handler(w, t)
    PROVE  v \in WaitState /\ WaitQueueOK(v) /\ TimedOut(v, w, t)
<1> DEFINE x == [w EXCEPT !.timers = @ \ {t}]
<1>1. /\ x.list = w.list /\ x.state = w.state /\ x.blockedOn = w.blockedOn
      /\ x.ret = w.ret /\ x.live = w.live /\ x.timers = w.timers \ {t}
  BY DEF WaitState
<1>2. v = thread_unblock_from_wait_queue(x, t, "ERR_TIMED_OUT")
  BY DEF wait_queue_timeout_handler
<1> HIDE DEF x
<1>3. /\ w.state \in [Thread -> ThreadState]
      /\ w.blockedOn \in [Thread -> Queue \union {NULL}]
      /\ w.ret \in [Thread -> Status]
  BY DEF WaitState
<1>4. v \in WaitState /\ WaitQueueOK(v)
      /\ \A q \in Queue : Elements(v.list[q]) \subseteq Elements(w.list[q])
  BY TimeoutOK
<1>5. ASSUME NEW q \in Queue, w.list[q] = << >> PROVE v.list[q] = << >>
  <2>1. v.list[q] \in Seq(Thread) /\ w.list[q] \in Seq(Thread)
    BY <1>4 DEF WaitState
  <2> QED
    BY <1>4, <1>5, <2>1, EmptyElements
<1>6. CASE w.state[t] # "BLOCKED"
  <2>1. v = x
    BY <1>1, <1>2, <1>6 DEF thread_unblock_from_wait_queue
  <2> QED
    BY <1>1, <1>4, <1>5, <1>6, <2>1 DEF TimedOut
<1>7. CASE w.state[t] = "BLOCKED"
  <2>1. v = Dequeue(x, w.blockedOn[t], list_delete(w.list[w.blockedOn[t]], t), {t},
                    "ERR_TIMED_OUT")
    BY <1>1, <1>2, <1>7 DEF thread_unblock_from_wait_queue
  <2>2. /\ v.live = w.live
        /\ v.timers = w.timers \ {t}
        /\ v.state = [u \in Thread |-> IF u \in {t} THEN "READY" ELSE w.state[u]]
        /\ v.blockedOn = [u \in Thread |-> IF u \in {t} THEN NULL ELSE w.blockedOn[u]]
        /\ v.ret = [u \in Thread |-> IF u \in {t} THEN "ERR_TIMED_OUT" ELSE w.ret[u]]
    BY <1>1, <2>1 DEF Dequeue
  <2> QED
    BY <1>3, <1>4, <1>5, <1>7, <2>2 DEF TimedOut
<1> QED
  BY <1>6, <1>7
=============================================================================
