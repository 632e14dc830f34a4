----------------------------- MODULE EventProofs -----------------------------
(***************************************************************************)
(* The safety properties of Event, for any finite set of threads, with and *)
(* without EVENT_FLAG_AUTOUNSIGNAL, and any timeouts.  The invariants hold *)
(* together with the consistency of the wait queue and with the fact that  *)
(* a destroyed event is unsignaled and has nobody queued.                  *)
(***************************************************************************)
EXTENDS Event, WaitQueueProofs, FiniteSetTheorems

\* Only a thread inside a wait sleeps, and only on the event's own queue.
SleepersAreWaiting ==
    \A t \in Thread :
        /\ wq.state[t] \in {"READY", "BLOCKED"}
        /\ wq.state[t] = "BLOCKED" => pc[t] = "waiting" /\ wq.blockedOn[t] = ewait

\* While the event lives nobody is destroying it; afterwards it is unsignaled
\* and nobody is queued.
LifeOK ==
    /\ Live => \A t \in Thread : pc[t] # "destroying"
    /\ ~Live => wq.list[ewait] = << >> /\ e.signaled = 0

IInv ==
    /\ TypeOK
    /\ WaitQueueOK(wq)
    /\ SleepersAreWaiting
    /\ LifeOK
    /\ SignaledMeansNobodyWaits
    /\ OneWaiterPerSignal

-----------------------------------------------------------------------------
\* The threads a signal has let go are finitely many.
LEMMA GrantedCount ==
    ASSUME TypeOK
    PROVE  IsFiniteSet(Granted) /\ Cardinality(Granted) \in Nat
<1>1. Granted \subseteq Thread
  BY DEF Waiting, Granted
<1> QED
  BY <1>1, FS_Subset, FS_CardinalityType, EventAssumption

\* A freshly initialised event satisfies the invariant.
LEMMA Initially == Init => IInv
<1> SUFFICES ASSUME Init PROVE IInv
  OBVIOUS
<1>0. PICK initial \in {0, 1}, flags \in Flags :
        e = EVENT_INITIAL_VALUE(initial, flags) /\ owed = initial
  BY DEF Init
<1>1. e \in EventState /\ Live /\ e.signaled = initial
  BY <1>0, EventAssumption DEF EVENT_INITIAL_VALUE, EventState, Live
<1>2. TypeOK
  BY <1>0, <1>1 DEF Init, TypeOK, WaitInit, WaitState, ThreadState, Status
<1>3. \A q \in Queue : wq.list[q] = << >> /\ wq.count[q] = 0
  BY DEF Init, WaitInit
<1>4. \A t \in Thread : wq.blockedOn[t] = NULL /\ wq.state[t] = "READY" /\ pc[t] = "out"
  BY DEF Init, WaitInit
<1>5. WaitQueueOK(wq)
  BY <1>3, <1>4, NullAssumption DEF WaitQueueOK, NoRepeats, Elements
<1>6. Granted = {}
  BY <1>4 DEF Waiting, Granted
<1>7. OneWaiterPerSignal
  BY <1>0, <1>1, <1>6, FS_EmptySet DEF OneWaiterPerSignal
<1>8. SleepersAreWaiting /\ LifeOK /\ SignaledMeansNobodyWaits
  BY <1>1, <1>3, <1>4, EventAssumption
     DEF SleepersAreWaiting, LifeOK, SignaledMeansNobodyWaits
<1> QED
  BY <1>2, <1>5, <1>7, <1>8 DEF IInv

-----------------------------------------------------------------------------
\* A wait on a signaled event passes, and takes the signal of an AUTOUNSIGNAL
\* event with it.
LEMMA SignaledStep == ASSUME IInv, NEW t \in Thread, WaitSignaled(t) PROVE IInv'
<1> USE DEF IInv, Live, AutoUnsignal
<1>0. /\ Live /\ e \in EventState /\ e.signaled = 1
      /\ e' = IF AutoUnsignal THEN [e EXCEPT !.signaled = 0] ELSE e
      /\ rc' = [rc EXCEPT ![t] = "NO_ERROR"]
      /\ owed' = IF AutoUnsignal THEN owed - 1 ELSE owed
      /\ wq' = wq /\ pc' = pc
  BY DEF WaitSignaled, Idle, Passes, TypeOK, EventState
<1>1. /\ e' \in EventState /\ Live' /\ (AutoUnsignal' <=> AutoUnsignal)
      /\ e'.signaled = IF AutoUnsignal THEN 0 ELSE e.signaled
  BY <1>0 DEF EventState
<1>2. TypeOK'
  BY <1>0, <1>1 DEF TypeOK, Status
<1>3. Granted' = Granted
  BY <1>0 DEF Granted, Waiting
<1>4. OneWaiterPerSignal'
  BY <1>0, <1>1, <1>3, GrantedCount DEF OneWaiterPerSignal, TypeOK, EventState
<1> QED
  BY <1>0, <1>1, <1>2, <1>4
     DEF WaitQueueOK, SleepersAreWaiting, LifeOK, SignaledMeansNobodyWaits

\* A wait with a zero timeout on an unsignaled event only sets its result.
LEMMA ZeroStep == ASSUME IInv, NEW t \in Thread, WaitZero(t) PROVE IInv'
<1>1. Granted' = Granted
  BY DEF WaitZero, Waiting, Granted
<1> QED
  BY <1>1 DEF WaitZero, IInv, TypeOK, Status, WaitQueueOK, SleepersAreWaiting, LifeOK,
              Live, AutoUnsignal, SignaledMeansNobodyWaits, OneWaiterPerSignal

\* A thread joins the queue only while the event is unsignaled.
LEMMA BlockStep ==
    ASSUME IInv, NEW t \in Thread, NEW timeout, WaitBlock(t, timeout) PROVE IInv'
<1> USE DEF IInv, Live, AutoUnsignal
<1>0. /\ wq \in WaitState /\ WaitQueueOK(wq) /\ ewait \in Queue
      /\ Live /\ pc[t] = "out" /\ e.signaled = 0
      /\ e' = e /\ rc' = rc /\ owed' = owed
      /\ wq' = wait_queue_block(wq, ewait, t, timeout)
      /\ pc' = [pc EXCEPT ![t] = "waiting"]
  BY EventAssumption DEF TypeOK, WaitBlock, Idle
<1>1. TypeOK'
  BY <1>0, BlockType DEF TypeOK
<1>2. wq.blockedOn[t] = NULL
  BY <1>0 DEF SleepersAreWaiting, WaitQueueOK
<1>3. WaitQueueOK(wq')
  BY <1>0, <1>2, BlockOK
<1>4. /\ wq'.state = [wq.state EXCEPT ![t] = "BLOCKED"]
      /\ wq'.blockedOn = [wq.blockedOn EXCEPT ![t] = ewait]
      /\ wq'.ret = [wq.ret EXCEPT ![t] = "NO_ERROR"]
  BY <1>0, BlockEffect
<1>5. Granted' = Granted
  BY <1>0, <1>4 DEF TypeOK, WaitState, Waiting, Granted
<1>6. SleepersAreWaiting' /\ LifeOK'
  BY <1>0, <1>4 DEF TypeOK, WaitState, SleepersAreWaiting, LifeOK, Live
<1> QED
  BY <1>0, <1>1, <1>3, <1>5, <1>6
     DEF SignaledMeansNobodyWaits, OneWaiterPerSignal, Live, AutoUnsignal

\* A woken waiter returns; only one that was let go by a signal settles it.
LEMMA ResumeStep == ASSUME IInv, NEW t \in Thread, WaitResume(t) PROVE IInv'
<1> USE DEF IInv, Live, AutoUnsignal
<1>0. /\ wq \in WaitState /\ WaitQueueOK(wq)
      /\ t \in Waiting /\ wq.state[t] = "READY"
      /\ wq' = wait_queue_block_return(wq, t)
      /\ rc' = [rc EXCEPT ![t] = wq.ret[t]]
      /\ pc' = [pc EXCEPT ![t] = "out"]
      /\ owed' = IF wq.ret[t] = "NO_ERROR" /\ AutoUnsignal THEN owed - 1 ELSE owed
      /\ e' = e
  BY DEF TypeOK, WaitResume, Passes
<1>1. /\ wq'.state = wq.state /\ wq'.ret = wq.ret /\ wq'.list = wq.list
      /\ wq'.blockedOn = wq.blockedOn /\ wq'.count = wq.count
  BY <1>0 DEF wait_queue_block_return, WaitState
<1>2. TypeOK'
  <2>1. wq' \in WaitState
    BY <1>0, BlockReturnType
  <2> QED
    BY <1>0, <2>1 DEF TypeOK, WaitState
<1>3. WaitQueueOK(wq')
  BY <1>0, <1>1 DEF WaitQueueOK
<1>4. SleepersAreWaiting' /\ LifeOK' /\ SignaledMeansNobodyWaits'
  BY <1>0, <1>1 DEF TypeOK, SleepersAreWaiting, LifeOK, Live, SignaledMeansNobodyWaits
<1>5. CASE wq.ret[t] = "NO_ERROR"
  <2>1. Granted' = Granted \ {t} /\ t \in Granted
    BY <1>0, <1>1, <1>5 DEF TypeOK, Granted, Waiting
  <2>2. Cardinality(Granted') = Cardinality(Granted) - 1
    BY <2>1, GrantedCount, FS_RemoveElement
  <2>3. OneWaiterPerSignal'
    BY <1>0, <1>5, <2>2, GrantedCount
       DEF OneWaiterPerSignal, TypeOK, EventState
  <2> QED
    BY <1>2, <1>3, <1>4, <2>3
<1>6. CASE wq.ret[t] # "NO_ERROR"
  <2>1. Granted' = Granted
    BY <1>0, <1>1, <1>6 DEF TypeOK, Granted, Waiting
  <2>2. OneWaiterPerSignal'
    BY <1>0, <1>6, <2>1 DEF OneWaiterPerSignal, Live, AutoUnsignal
  <2> QED
    BY <1>2, <1>3, <1>4, <2>2
<1> QED
  BY <1>5, <1>6

\* event_signal() lets the first waiter of an AUTOUNSIGNAL event go, or keeps the
\* signal when nobody waits; without the flag it empties the queue.
LEMMA SignalStep == ASSUME IInv, event_signal PROVE IInv'
<1> USE DEF IInv, Live, AutoUnsignal
<1>0. /\ wq \in WaitState /\ WaitQueueOK(wq) /\ ewait \in Queue /\ e \in EventState
      /\ "NO_ERROR" \in Status /\ owed \in Int
      /\ Live /\ pc' = pc /\ rc' = rc
  BY EventAssumption DEF TypeOK, Status, event_signal
<1>1. CASE e.signaled = 1 /\ UNCHANGED <<e, wq, owed>>
  <2>1. Granted' = Granted
    BY <1>0, <1>1 DEF Granted, Waiting
  <2> QED
    BY <1>0, <1>1, <2>1 DEF TypeOK, WaitQueueOK, SleepersAreWaiting, LifeOK,
                            SignaledMeansNobodyWaits, OneWaiterPerSignal
<1>2. CASE /\ e.signaled = 0 /\ AutoUnsignal /\ owed' = owed + 1
           /\ wq.list[ewait] = << >> /\ wq' = wq
           /\ e' = [e EXCEPT !.signaled = 1]
  <2>1. Granted' = Granted
    BY <1>0, <1>2 DEF Granted, Waiting
  <2>2. e' \in EventState /\ Live' /\ e'.signaled = 1
    BY <1>0, <1>2 DEF EventState
  <2>3. OneWaiterPerSignal'
    BY <1>0, <1>2, <2>1, <2>2, GrantedCount DEF OneWaiterPerSignal
  <2> QED
    BY <1>0, <1>2, <2>2, <2>3 DEF TypeOK, WaitQueueOK, SleepersAreWaiting, LifeOK,
                                  SignaledMeansNobodyWaits
<1>3. CASE /\ e.signaled = 0 /\ AutoUnsignal /\ owed' = owed + 1
           /\ wq.list[ewait] # << >> /\ e' = e
           /\ wq' = wait_queue_wake_one(wq, ewait, "NO_ERROR")
  <2> DEFINE h == Head(wq.list[ewait])
  <2>1. wq' \in WaitState /\ WaitQueueOK(wq')
    BY <1>0, <1>3, WakeOneOK
  <2>2. /\ h \in Thread /\ wq.state[h] = "BLOCKED" /\ wq.blockedOn[h] = ewait
        /\ wq'.state = [wq.state EXCEPT ![h] = "READY"]
        /\ wq'.blockedOn = [wq.blockedOn EXCEPT ![h] = NULL]
        /\ wq'.ret = [wq.ret EXCEPT ![h] = "NO_ERROR"]
    BY <1>0, <1>3, WakeOneEffect
  <2> HIDE DEF h
  <2>3. Granted' = Granted \union {h} /\ h \notin Granted
    BY <1>0, <2>2 DEF WaitState, Granted, Waiting, SleepersAreWaiting
  <2>4. Cardinality(Granted') = Cardinality(Granted) + 1
    BY <2>3, GrantedCount, FS_AddElement
  <2>5. OneWaiterPerSignal'
    BY <1>0, <1>3, <2>4, GrantedCount DEF OneWaiterPerSignal
  <2>6. SleepersAreWaiting' /\ LifeOK' /\ SignaledMeansNobodyWaits'
    BY <1>0, <1>3, <2>2
       DEF WaitState, SleepersAreWaiting, LifeOK, SignaledMeansNobodyWaits
  <2> QED
    BY <1>0, <1>3, <2>1, <2>5, <2>6 DEF TypeOK
<1>4. CASE /\ e.signaled = 0 /\ ~AutoUnsignal /\ owed' = owed
           /\ e' = [e EXCEPT !.signaled = 1]
           /\ wq' = wait_queue_wake_all(wq, ewait, "NO_ERROR")
  <2>1. /\ wq' \in WaitState /\ WaitQueueOK(wq')
        /\ wq'.list[ewait] = << >>
        /\ \A u \in Thread :
             IF wq.blockedOn[u] = ewait
             THEN wq'.state[u] = "READY" /\ wq'.blockedOn[u] = NULL
             ELSE wq'.state[u] = wq.state[u] /\ wq'.blockedOn[u] = wq.blockedOn[u]
    BY <1>0, <1>4, WakeAllEffect
  <2>2. e' \in EventState /\ Live' /\ ~AutoUnsignal'
    BY <1>0, <1>4 DEF EventState
  <2>3. TypeOK'
    BY <1>0, <1>4, <2>1, <2>2 DEF TypeOK
  <2> QED
    BY <1>0, <2>1, <2>2, <2>3
       DEF SleepersAreWaiting, LifeOK, SignaledMeansNobodyWaits, OneWaiterPerSignal
<1> QED
  BY <1>1, <1>2, <1>3, <1>4 DEF event_signal, SignalEffect, wait_queue_wake_one

\* event_unsignal() takes back a signal nobody has used.
LEMMA UnsignalStep == ASSUME IInv, event_unsignal PROVE IInv'
<1> USE DEF IInv, Live, AutoUnsignal
<1>0. /\ Live /\ wq' = wq /\ pc' = pc /\ rc' = rc
      /\ owed' = IF AutoUnsignal THEN owed - e.signaled ELSE owed
  BY DEF event_unsignal
<1>1. /\ e' \in EventState /\ e'.signaled = 0 /\ Live'
      /\ AutoUnsignal' <=> AutoUnsignal
      /\ e.signaled \in Int
  BY DEF event_unsignal, TypeOK, EventState
<1>2. Granted' = Granted
  BY <1>0 DEF Granted, Waiting
<1>3. OneWaiterPerSignal'
  BY <1>0, <1>1, <1>2, GrantedCount DEF OneWaiterPerSignal, TypeOK
<1> QED
  BY <1>0, <1>1, <1>3
     DEF TypeOK, WaitQueueOK, SleepersAreWaiting, LifeOK, SignaledMeansNobodyWaits

\* event_destroy() empties the queue, and lets nobody go with NO_ERROR.
LEMMA DestroyStep ==
    ASSUME IInv, NEW t \in Thread, event_destroy(t)
    PROVE  IInv' /\ Granted' \subseteq Granted
<1> USE DEF IInv
<1>0. /\ wq \in WaitState /\ WaitQueueOK(wq) /\ ewait \in Queue
      /\ DestroyStatus \in Status /\ DestroyStatus # "NO_ERROR"
      /\ e' = [magic |-> 0, signaled |-> 0, flags |-> "NONE"]
      /\ rc' = rc /\ owed' = owed
      /\ pc' \in [Thread -> {"out", "waiting", "destroying"}]
      /\ \A u \in Thread : pc[u] = "waiting" <=> pc'[u] = "waiting"
  BY EventAssumption DEF TypeOK, Status, DestroyStatus, event_destroy, Idle
<1>1. PICK woken : woken = wait_queue_wake_all(wq, ewait, DestroyStatus)
  OBVIOUS
<1>2. /\ woken \in WaitState /\ WaitQueueOK(woken)
      /\ woken.list[ewait] = << >>
      /\ \A u \in Thread :
           IF wq.blockedOn[u] = ewait
           THEN /\ woken.state[u] = "READY" /\ woken.blockedOn[u] = NULL
                /\ woken.ret[u] = DestroyStatus
           ELSE /\ woken.state[u] = wq.state[u] /\ woken.blockedOn[u] = wq.blockedOn[u]
                /\ woken.ret[u] = wq.ret[u]
  BY <1>0, <1>1, WakeAllEffect
<1>3. /\ wq' \in WaitState
      /\ wq'.list = woken.list /\ wq'.count = woken.count /\ wq'.ret = woken.ret
      /\ wq'.state = woken.state /\ wq'.blockedOn = woken.blockedOn
  BY <1>1, <1>2 DEF event_destroy, WaitState
<1>4. ~Live' /\ e'.signaled = 0 /\ e' \in EventState
  BY <1>0 DEF Live, EventState, EVENT_MAGIC
<1>5. TypeOK'
  BY <1>0, <1>3, <1>4 DEF TypeOK
<1>6. WaitQueueOK(wq')
  BY <1>2, <1>3 DEF WaitQueueOK
<1>7. SleepersAreWaiting' /\ LifeOK' /\ SignaledMeansNobodyWaits' /\ OneWaiterPerSignal'
  BY <1>0, <1>2, <1>3, <1>4
     DEF SleepersAreWaiting, LifeOK, SignaledMeansNobodyWaits, OneWaiterPerSignal
<1>8. Granted' \subseteq Granted
  BY <1>0, <1>2, <1>3 DEF Granted, Waiting
<1> QED
  BY <1>5, <1>6, <1>7, <1>8

\* wait_queue_destroy() then only clears the magic of an empty queue.
LEMMA DestroyResumeStep ==
    ASSUME IInv, NEW t \in Thread, DestroyResume(t)
    PROVE  IInv' /\ Granted' \subseteq Granted
<1> USE DEF IInv
<1>0. /\ wq \in WaitState /\ WaitQueueOK(wq)
      /\ ~Live /\ pc[t] = "destroying"
      /\ wq' = [wq EXCEPT !.live = @ \ {ewait}]
      /\ pc' = [pc EXCEPT ![t] = "out"]
      /\ UNCHANGED <<e, rc, owed>>
  BY DEF TypeOK, DestroyResume, LifeOK
<1>1. /\ wq' \in WaitState
      /\ wq'.list = wq.list /\ wq'.count = wq.count /\ wq'.ret = wq.ret
      /\ wq'.state = wq.state /\ wq'.blockedOn = wq.blockedOn
  BY <1>0 DEF WaitState
<1>2. TypeOK' /\ WaitQueueOK(wq') /\ SleepersAreWaiting' /\ LifeOK'
  BY <1>0, <1>1 DEF TypeOK, WaitQueueOK, SleepersAreWaiting, LifeOK, Live
<1>3. Granted' \subseteq Granted
  BY <1>0, <1>1 DEF TypeOK, Granted, Waiting
<1> QED
  BY <1>0, <1>1, <1>2, <1>3 DEF LifeOK, SignaledMeansNobodyWaits, OneWaiterPerSignal, Live

\* event_init() of storage nobody uses any more starts from an empty queue.
LEMMA InitStep == ASSUME IInv, event_init PROVE IInv' /\ Live'
<1> USE DEF IInv
<1>0. /\ wq \in WaitState /\ WaitQueueOK(wq) /\ ewait \in Queue
      /\ ~Live /\ \A t \in Thread : pc[t] = "out"
      /\ wq' = wait_queue_init(wq, ewait) /\ pc' = pc /\ rc' = rc
  BY EventAssumption DEF TypeOK, event_init
<1>1. PICK initial \in {0, 1}, flags \in Flags :
        e' = EVENT_INITIAL_VALUE(initial, flags) /\ owed' = initial
  BY DEF event_init
<1>2. e' \in EventState /\ Live' /\ e'.signaled = initial
  BY <1>1, EventAssumption DEF EVENT_INITIAL_VALUE, EventState, Live
<1>3. TypeOK'
  BY <1>0, <1>1, <1>2, InitType DEF TypeOK
<1>4. wq.list[ewait] = << >>
  BY <1>0 DEF LifeOK
<1>5. /\ wq'.list = wq.list /\ wq'.count = wq.count /\ wq'.state = wq.state
      /\ wq'.blockedOn = wq.blockedOn
  BY <1>0, <1>4 DEF wait_queue_init, WaitState, WaitQueueOK
<1>6. WaitQueueOK(wq') /\ SleepersAreWaiting' /\ LifeOK'
  BY <1>0, <1>2, <1>5 DEF WaitQueueOK, SleepersAreWaiting, LifeOK
<1>7. Granted' = {}
  BY <1>0 DEF Waiting, Granted
<1> QED
  BY <1>1, <1>2, <1>3, <1>4, <1>5, <1>6, <1>7, FS_EmptySet
     DEF SignaledMeansNobodyWaits, OneWaiterPerSignal

\* A timer that fires takes a sleeper off the queue without letting it go.
LEMMA TimerStep ==
    ASSUME IInv, NEW t \in Thread, TimerFires(t)
    PROVE  IInv' /\ Granted' = Granted
<1> USE DEF IInv
<1>0. /\ wq \in WaitState /\ WaitQueueOK(wq) /\ ewait \in Queue
      /\ wq' = wait_queue_timeout_handler(wq, t)
      /\ e' = e /\ pc' = pc /\ rc' = rc /\ owed' = owed
  BY EventAssumption DEF TypeOK, TimerFires
<1>1. /\ wq' \in WaitState /\ WaitQueueOK(wq')
      /\ wq.list[ewait] = << >> => wq'.list[ewait] = << >>
      /\ wq.state[t] # "BLOCKED" =>
           /\ wq'.list = wq.list /\ wq'.state = wq.state
           /\ wq'.blockedOn = wq.blockedOn /\ wq'.ret = wq.ret
      /\ wq.state[t] = "BLOCKED" =>
           /\ wq'.state = [wq.state EXCEPT ![t] = "READY"]
           /\ wq'.blockedOn = [wq.blockedOn EXCEPT ![t] = NULL]
           /\ wq'.ret = [wq.ret EXCEPT ![t] = "ERR_TIMED_OUT"]
  <2>1. wq' \in WaitState /\ WaitQueueOK(wq') /\ TimedOut(wq', wq, t)
    BY <1>0, TimeoutEffect
  <2> QED
    BY <1>0, <2>1 DEF TimedOut
<1>2. TypeOK'
  BY <1>0, <1>1 DEF TypeOK
<1>3. Granted' = Granted
  BY <1>0, <1>1 DEF WaitState, Waiting, Granted
<1>4. SleepersAreWaiting' /\ LifeOK' /\ SignaledMeansNobodyWaits'
  BY <1>0, <1>1
     DEF WaitState, SleepersAreWaiting, LifeOK, Live, SignaledMeansNobodyWaits
<1>5. OneWaiterPerSignal'
  BY <1>0, <1>3 DEF OneWaiterPerSignal, Live, AutoUnsignal
<1> QED
  BY <1>1, <1>2, <1>3, <1>4, <1>5

-----------------------------------------------------------------------------
\* Every step preserves the invariant.
LEMMA Inductive == IInv /\ [Next]_vars => IInv'
<1> SUFFICES ASSUME IInv, [Next]_vars PROVE IInv'
  OBVIOUS
<1>1. ASSUME NEW t \in Thread, WaitSignaled(t) PROVE IInv'
  BY <1>1, SignaledStep
<1>2. ASSUME NEW t \in Thread, WaitZero(t) PROVE IInv'
  BY <1>2, ZeroStep
<1>3. ASSUME NEW t \in Thread, WaitResume(t) PROVE IInv'
  BY <1>3, ResumeStep
<1>4. ASSUME NEW t \in Thread, NEW timeout, WaitBlock(t, timeout) PROVE IInv'
  BY <1>4, BlockStep
<1>5. ASSUME NEW t \in Thread, event_destroy(t) PROVE IInv'
  BY <1>5, DestroyStep
<1>6. ASSUME NEW t \in Thread, DestroyResume(t) PROVE IInv'
  BY <1>6, DestroyResumeStep
<1>7. ASSUME NEW t \in Thread, TimerFires(t) PROVE IInv'
  BY <1>7, TimerStep
<1>8. CASE event_signal
  BY <1>8, SignalStep
<1>9. CASE event_unsignal
  BY <1>9, UnsignalStep
<1>10. CASE event_init
  BY <1>10, InitStep
<1>11. CASE UNCHANGED vars
  <2>1. Granted' = Granted
    BY <1>11 DEF vars, Waiting, Granted
  <2> QED
    BY <1>11, <2>1 DEF vars, IInv, TypeOK, WaitQueueOK, SleepersAreWaiting, LifeOK,
                       Live, AutoUnsignal, SignaledMeansNobodyWaits, OneWaiterPerSignal
<1> QED
  BY <1>1, <1>2, <1>3, <1>4, <1>5, <1>6, <1>7, <1>8, <1>9, <1>10, <1>11 DEF Next

\* The invariant holds in every reachable state.
THEOREM EventInvariant == Spec => []IInv
<1>1. IInv /\ [Next]_vars => IInv'
  BY Inductive
<1> QED
  BY <1>1, Initially, PTL DEF Spec

\* No thread is ever found in the queue of a signaled event, however
\* event_signal(), event_unsignal(), timeouts and new waiters interleave.
THEOREM SignaledQueueEmpty == Spec => []SignaledMeansNobodyWaits
<1>1. IInv => SignaledMeansNobodyWaits
  BY DEF IInv
<1> QED
  BY <1>1, EventInvariant, PTL

\* Each signal of an AUTOUNSIGNAL event lets exactly one waiter through.
THEOREM SignalsAreCounted == Spec => []OneWaiterPerSignal
<1>1. IInv => OneWaiterPerSignal
  BY DEF IInv
<1> QED
  BY <1>1, EventInvariant, PTL

\* From event_destroy() until event_init() nobody else is let go with NO_ERROR:
\* a step that leaves the event dead is one of its destruction, a timeout, or the
\* return of a waiter.
THEOREM DestroyIsNoSignal == Spec => NoSuccessAfterDestroy
<1>1. IInv /\ [Next]_vars => [~Live' => Granted' \subseteq Granted]_vars
  <2> SUFFICES ASSUME IInv, Next, ~Live' PROVE Granted' \subseteq Granted
    OBVIOUS
  <2>1. ASSUME NEW t \in Thread, event_destroy(t) PROVE Granted' \subseteq Granted
    BY <2>1, DestroyStep
  <2>2. ASSUME NEW t \in Thread, DestroyResume(t) PROVE Granted' \subseteq Granted
    BY <2>2, DestroyResumeStep
  <2>3. ASSUME NEW t \in Thread, TimerFires(t) PROVE Granted' \subseteq Granted
    BY <2>3, TimerStep
  <2>4. ASSUME NEW t \in Thread, WaitResume(t) PROVE Granted' \subseteq Granted
    <3>1. wq'.state = wq.state /\ wq'.ret = wq.ret /\ pc' = [pc EXCEPT ![t] = "out"]
      BY <2>4 DEF WaitResume, wait_queue_block_return, IInv, TypeOK, WaitState
    <3> QED
      BY <3>1 DEF IInv, TypeOK, Granted, Waiting
  <2>5. event_init => Granted' \subseteq Granted
    BY InitStep
  <2>6. ASSUME NEW t \in Thread,
               \/ WaitSignaled(t) \/ WaitZero(t)
               \/ \E timeout \in Timeouts \union {"INFINITE_TIME"} : WaitBlock(t, timeout)
        PROVE  FALSE
    BY <2>6 DEF WaitSignaled, WaitZero, WaitBlock, Idle, Live, IInv, TypeOK, EventState
  <2>7. event_signal \/ event_unsignal => FALSE
    BY DEF event_signal, SignalEffect, event_unsignal, Live, IInv, TypeOK, EventState
  <2> QED
    BY <2>1, <2>2, <2>3, <2>4, <2>5, <2>6, <2>7 DEF Next
<1> QED
  BY <1>1, EventInvariant, PTL DEF Spec, NoSuccessAfterDestroy
=============================================================================
