---------------------------- MODULE SchedProofs ----------------------------
(***************************************************************************)
(* Proofs about Sched: for any number of threads, CPUs and priorities the  *)
(* run queues stay consistent, no two CPUs run one thread, and each CPU's  *)
(* preemption timer follows its thread, so that thread_resched() never     *)
(* makes timer_set() panic; and with one CPU the idle thread runs only     *)
(* when there is nothing else to do.                                       *)
(*                                                                         *)
(* Every action ends in thread_resched() or leaves the CPUs' threads as    *)
(* they are.  The invariant is therefore a predicate on a kernel state s   *)
(* with a set off of CPUs whose thread has left the state RUNNING and      *)
(* which are about to call thread_resched(); off is empty between actions. *)
(***************************************************************************)
EXTENDS Sched, FiniteSetTheorems, WellFoundedInduction, TLAPS

Elements(q) == {q[i] : i \in 1 .. Len(q)}

NoRepeats(q) == \A i, j \in 1 .. Len(q) : q[i] = q[j] => i = j

\* The run queues hold the READY threads, each once under its priority, except
\* those of off, which are READY but not queued yet.
Queues(s, off) ==
    /\ s.run_queue_bitmap = {p \in Priority : s.run_queue[p] # << >>}
    /\ \A p \in Priority :
         /\ NoRepeats(s.run_queue[p])
         /\ Elements(s.run_queue[p]) =
               {t \in Thread \ off : s.state[t] = "READY" /\ s.priority[t] = p}

\* The wait queue holds the BLOCKED threads, each once.
Waiting(s) ==
    /\ NoRepeats(s.waiters)
    /\ Elements(s.waiters) = {t \in Thread : s.state[t] = "BLOCKED"}

\* A sleeping thread has a timer.
Sleeping(s) == \A t \in Thread : s.state[t] = "SLEEPING" => s.timerCpu[t] \in Cpu

\* The threads of the CPUs, except those of off, are the RUNNING ones.
Cpus(s, off) ==
    /\ \A t \in Thread :
         s.state[t] = "RUNNING" <=> \E c \in Cpu \ off : s.current[c] = t
    /\ \A c, d \in Cpu : s.current[c] = s.current[d] /\ s.current[c] # Idle => c = d
    /\ \A c \in Cpu : s.current[c] # Idle => Allowed(s.current[c], c)
    /\ s.idle_cpus = {c \in Cpu : s.current[c] = Idle}

\* The preemption timers follow the threads of the CPUs.
Timers(s) ==
    /\ s.preempt_timer = {c \in Cpu : ~RealTimeOrIdle(s, s.current[c])}
    /\ s.panicked = {}

Core(s, off) ==
    /\ s \in KernelState
    /\ Queues(s, {})
    /\ Sleeping(s)
    /\ Cpus(s, off)
    /\ Timers(s)

Consistent(s, off) == Core(s, off) /\ Waiting(s)

IInv == Consistent(k, {})

-----------------------------------------------------------------------------
\* Lemmas about queues.

\* Two sequences of threads one after the other are one.
LEMMA Concat ==
  ASSUME NEW a \in Seq(Thread), NEW b \in Seq(Thread)
  PROVE  a \o b \in Seq(Thread) /\ Len(a \o b) = Len(a) + Len(b)
OBVIOUS

\* list_add_head() makes the queue's first element t and keeps the others.
LEMMA AddHead ==
  ASSUME NEW q \in Seq(Thread), NEW t \in Thread, NoRepeats(q), t \notin Elements(q)
  PROVE  /\ <<t>> \o q \in Seq(Thread)
         /\ <<t>> \o q # << >>
         /\ NoRepeats(<<t>> \o q)
         /\ Elements(<<t>> \o q) = Elements(q) \union {t}
<1>1. PICK r : r = <<t>> \o q
  OBVIOUS
<1>2. /\ r \in Seq(Thread)
      /\ Len(r) = Len(q) + 1
      /\ r[1] = t
      /\ \A i \in 1 .. Len(q) : r[i + 1] = q[i]
  BY <1>1
<1>3. \A i \in 1 .. Len(r) : i = 1 \/ (i - 1 \in 1 .. Len(q) /\ r[i] = q[i - 1])
  BY <1>2
<1>4. NoRepeats(r)
  <2>1. ASSUME NEW i \in 1 .. Len(r), NEW j \in 1 .. Len(r), r[i] = r[j]
        PROVE  i = j
    <3>1. \A n \in 1 .. Len(q) : q[n] # t
      BY DEF Elements
    <3>2. CASE i = 1 \/ j = 1
      BY <2>1, <3>1, <3>2, <1>2, <1>3
    <3>3. CASE i # 1 /\ j # 1
      <4>1. i - 1 \in 1 .. Len(q) /\ j - 1 \in 1 .. Len(q) /\ q[i - 1] = q[j - 1]
        BY <2>1, <3>3, <1>3
      <4>2. i - 1 = j - 1
        BY <4>1 DEF NoRepeats
      <4>3. QED
        BY <4>2
    <3>4. QED
      BY <3>2, <3>3
  <2>2. QED
    BY <2>1 DEF NoRepeats
<1>5. Elements(r) = Elements(q) \union {t}
  <2>1. ASSUME NEW x \in Elements(r)
        PROVE  x \in Elements(q) \union {t}
    <3>1. PICK i \in 1 .. Len(r) : x = r[i]
      BY DEF Elements
    <3>2. QED
      BY <3>1, <1>2, <1>3 DEF Elements
  <2>2. ASSUME NEW x \in Elements(q)
        PROVE  x \in Elements(r)
    <3>1. PICK i \in 1 .. Len(q) : x = q[i]
      BY DEF Elements
    <3>2. i + 1 \in 1 .. Len(r) /\ r[i + 1] = x
      BY <1>2, <3>1
    <3>3. QED
      BY <3>2 DEF Elements
  <2>3. t \in Elements(r)
    BY <1>2 DEF Elements
  <2>4. QED
    BY <2>1, <2>2, <2>3
<1>6. r # << >>
  BY <1>2
<1>7. QED
  BY <1>1, <1>2, <1>4, <1>5, <1>6

\* list_add_tail() makes the queue's last element t and keeps the others.
LEMMA AddTail ==
  ASSUME NEW q \in Seq(Thread), NEW t \in Thread, NoRepeats(q), t \notin Elements(q)
  PROVE  /\ Append(q, t) \in Seq(Thread)
         /\ Append(q, t) # << >>
         /\ NoRepeats(Append(q, t))
         /\ Elements(Append(q, t)) = Elements(q) \union {t}
<1>1. PICK r : r = Append(q, t)
  OBVIOUS
<1>2. /\ r \in Seq(Thread)
      /\ Len(r) = Len(q) + 1
      /\ r[Len(q) + 1] = t
      /\ \A i \in 1 .. Len(q) : r[i] = q[i]
  BY <1>1
<1>3. \A i \in 1 .. Len(r) : i = Len(q) + 1 \/ (i \in 1 .. Len(q) /\ r[i] = q[i])
  BY <1>2
<1>4. NoRepeats(r)
  BY <1>2, <1>3 DEF NoRepeats, Elements
<1>5. Elements(r) = Elements(q) \union {t}
  <2>1. ASSUME NEW x \in Elements(r)
        PROVE  x \in Elements(q) \union {t}
    BY <1>2, <1>3 DEF Elements
  <2>2. ASSUME NEW x \in Elements(q)
        PROVE  x \in Elements(r)
    BY <1>2 DEF Elements
  <2>3. t \in Elements(r)
    BY <1>2 DEF Elements
  <2>4. QED
    BY <2>1, <2>2, <2>3
<1>6. r # << >>
  BY <1>2
<1>7. QED
  BY <1>1, <1>2, <1>4, <1>5, <1>6

\* list_delete() takes element i off the queue and keeps the others.
LEMMA Delete ==
  ASSUME NEW q \in Seq(Thread), NoRepeats(q), NEW i \in 1 .. Len(q)
  PROVE  /\ Without(q, i) \in Seq(Thread)
         /\ NoRepeats(Without(q, i))
         /\ Elements(Without(q, i)) = Elements(q) \ {q[i]}
<1>1. PICK r : r = Without(q, i)
  OBVIOUS
<1>2. PICK a : a = SubSeq(q, 1, i - 1)
  OBVIOUS
<1>3. PICK b : b = SubSeq(q, i + 1, Len(q))
  OBVIOUS
<1>4. /\ a \in Seq(Thread) /\ Len(a) = i - 1
      /\ \A j \in 1 .. i - 1 : a[j] = q[j]
  BY <1>2
<1>5. /\ b \in Seq(Thread) /\ Len(b) = Len(q) - i
      /\ \A j \in 1 .. Len(q) - i : b[j] = q[i + j]
  BY <1>3
<1>6. r = a \o b
  BY <1>1, <1>2, <1>3 DEF Without
<1>7. /\ r \in Seq(Thread)
      /\ Len(r) = Len(q) - 1
      /\ \A j \in 1 .. Len(q) - 1 : r[j] = IF j < i THEN q[j] ELSE q[j + 1]
  <2>1. r \in Seq(Thread) /\ Len(r) = Len(a) + Len(b)
    BY <1>4, <1>5, <1>6, Concat
  <2>2. ASSUME NEW j \in 1 .. Len(q) - 1
        PROVE  r[j] = IF j < i THEN q[j] ELSE q[j + 1]
    <3>1. CASE j < i
      BY <3>1, <1>4, <1>5, <1>6
    <3>2. CASE ~(j < i)
      <4>1. j - Len(a) \in 1 .. Len(b) /\ r[j] = b[j - Len(a)]
        BY <3>2, <1>4, <1>5, <1>6
      <4>2. b[j - Len(a)] = q[i + (j - (i - 1))] /\ i + (j - (i - 1)) = j + 1
        BY <4>1, <1>4, <1>5
      <4>3. QED
        BY <3>2, <4>1, <4>2
    <3>3. QED
      BY <3>1, <3>2
  <2>3. QED
    BY <2>1, <2>2, <1>4, <1>5
<1>8. NoRepeats(r)
  BY <1>7 DEF NoRepeats
<1>9. Elements(r) = Elements(q) \ {q[i]}
  <2>1. ASSUME NEW x \in Elements(r)
        PROVE  x \in Elements(q) \ {q[i]}
    <3>1. PICK j \in 1 .. Len(q) - 1 : x = r[j]
      BY <1>7 DEF Elements
    <3>2. PICK n \in 1 .. Len(q) : x = q[n] /\ n # i
      BY <3>1, <1>7
    <3>3. QED
      BY <3>2 DEF Elements, NoRepeats
  <2>2. ASSUME NEW x \in Elements(q) \ {q[i]}
        PROVE  x \in Elements(r)
    <3>1. PICK n \in 1 .. Len(q) : x = q[n] /\ n # i
      BY DEF Elements
    <3>2. CASE n < i
      BY <3>1, <3>2, <1>7 DEF Elements
    <3>3. CASE n > i
      <4>1. n - 1 \in 1 .. Len(r) /\ r[n - 1] = x
        BY <3>1, <3>3, <1>7
      <4>2. QED
        BY <4>1 DEF Elements
    <3>4. QED
      BY <3>1, <3>2, <3>3
  <2>3. QED
    BY <2>1, <2>2
<1>10. QED
  BY <1>1, <1>7, <1>8, <1>9

\* list_remove_head() takes the first element off the queue and keeps the others.
LEMMA RemoveHead ==
  ASSUME NEW q \in Seq(Thread), NoRepeats(q), q # << >>
  PROVE  /\ Head(q) \in Elements(q)
         /\ Tail(q) \in Seq(Thread)
         /\ NoRepeats(Tail(q))
         /\ Elements(Tail(q)) = Elements(q) \ {Head(q)}
<1>1. PICK r : r = Tail(q)
  OBVIOUS
<1>2. Len(q) > 0 /\ Head(q) = q[1]
  OBVIOUS
<1>3. /\ r \in Seq(Thread) /\ Len(r) = Len(q) - 1
      /\ \A i \in 1 .. Len(q) - 1 : r[i] = q[i + 1]
  BY <1>1, <1>2
<1>4. Head(q) \in Elements(q)
  BY <1>2 DEF Elements
<1>5. NoRepeats(r)
  BY <1>2, <1>3 DEF NoRepeats
<1>6. Elements(r) = Elements(q) \ {Head(q)}
  <2>1. ASSUME NEW x \in Elements(r)
        PROVE  x \in Elements(q) \ {q[1]}
    <3>1. PICK i \in 1 .. Len(q) - 1 : x = r[i]
      BY <1>3 DEF Elements
    <3>2. x = q[i + 1] /\ i + 1 \in 1 .. Len(q) /\ i + 1 # 1 /\ 1 \in 1 .. Len(q)
      BY <1>2, <1>3, <3>1
    <3>3. QED
      BY <3>2 DEF Elements, NoRepeats
  <2>2. ASSUME NEW x \in Elements(q) \ {q[1]}
        PROVE  x \in Elements(r)
    <3>1. PICK i \in 1 .. Len(q) : x = q[i] /\ i # 1
      BY DEF Elements
    <3>2. i - 1 \in 1 .. Len(r) /\ r[i - 1] = x
      BY <1>3, <3>1
    <3>3. QED
      BY <3>2 DEF Elements
  <2>3. QED
    BY <1>2, <2>1, <2>2
<1>7. QED
  BY <1>1, <1>3, <1>4, <1>5, <1>6

\* A queue is empty when it has no element.
LEMMA NoElements ==
  ASSUME NEW q \in Seq(Thread)
  PROVE  q = << >> <=> Elements(q) = {}
<1>1. ASSUME Elements(q) = {}
      PROVE  q = << >>
  <2>1. ASSUME Len(q) # 0
        PROVE  q[1] \in Elements(q)
    BY <2>1 DEF Elements
  <2>2. QED
    BY <1>1, <2>1
<1>2. QED
  BY <1>1 DEF Elements

-----------------------------------------------------------------------------
\* What the scheduler's functions do to a kernel state.

SameThreads(v, s) ==
    /\ v.state = s.state
    /\ v.priority = s.priority
    /\ v.waiters = s.waiters
    /\ v.timerCpu = s.timerCpu

SameCpus(v, s) ==
    /\ v.current = s.current
    /\ v.realtime = s.realtime
    /\ v.preempt_timer = s.preempt_timer
    /\ v.idle_cpus = s.idle_cpus
    /\ v.panicked = s.panicked

SameQueues(v, s) ==
    /\ v.run_queue = s.run_queue
    /\ v.run_queue_bitmap = s.run_queue_bitmap

SameIrqs(v, s) == v.resched = s.resched

WithQueues(s, q, b) == [s EXCEPT !.run_queue = q, !.run_queue_bitmap = b]

\* Replacing the run queues and their bitmap replaces nothing else.
LEMMA SetQueues ==
  ASSUME NEW s \in KernelState, NEW q \in [Priority -> Seq(Thread)],
         NEW b \in SUBSET Priority, NEW v, v = WithQueues(s, q, b)
  PROVE  /\ v \in KernelState
         /\ v.run_queue = q /\ v.run_queue_bitmap = b
         /\ SameThreads(v, s) /\ SameCpus(v, s) /\ SameIrqs(v, s)
<1>1. PICK y : y = [s EXCEPT !.run_queue = q]
  OBVIOUS
<1>2. v = [y EXCEPT !.run_queue_bitmap = b]
  BY <1>1, Zenon DEF WithQueues
<1>3. /\ y \in KernelState /\ y.run_queue = q
      /\ SameThreads(y, s) /\ SameCpus(y, s) /\ SameIrqs(y, s)
  BY <1>1 DEF KernelState, SameThreads, SameCpus, SameIrqs
<1>4. /\ v \in KernelState /\ v.run_queue = y.run_queue /\ v.run_queue_bitmap = b
      /\ SameThreads(v, y) /\ SameCpus(v, y) /\ SameIrqs(v, y)
  BY <1>2, <1>3 DEF KernelState, SameThreads, SameCpus, SameIrqs
<1>5. QED
  BY <1>3, <1>4 DEF SameThreads, SameCpus, SameIrqs

\* insert_in_run_queue_head() and insert_in_run_queue_tail() queue the one READY
\* thread that is not queued yet.
LEMMA Insert ==
  ASSUME NEW s \in KernelState, NEW t \in Thread,
         Queues(s, {t}), s.state[t] = "READY",
         NEW v, v = insert_in_run_queue_head(s, t) \/ v = insert_in_run_queue_tail(s, t)
  PROVE  /\ v \in KernelState
         /\ Queues(v, {})
         /\ SameThreads(v, s) /\ SameCpus(v, s) /\ SameIrqs(v, s)
<1>1. PICK p : p = s.priority[t]
  OBVIOUS
<1>2. /\ s.run_queue \in [Priority -> Seq(Thread)]
      /\ s.run_queue_bitmap \in SUBSET Priority
      /\ s.priority \in [Thread -> Priority]
  BY DEF KernelState
<1>3. p \in Priority
  BY <1>1, <1>2
<1>4. PICK q : \/ q = <<t>> \o s.run_queue[p]
                  /\ v = insert_in_run_queue_head(s, t)
               \/ q = Append(s.run_queue[p], t)
                  /\ v = insert_in_run_queue_tail(s, t)
  OBVIOUS
<1>5. /\ s.run_queue[p] \in Seq(Thread)
      /\ NoRepeats(s.run_queue[p])
      /\ t \notin Elements(s.run_queue[p])
  BY <1>2, <1>3 DEF Queues
<1>6. /\ q \in Seq(Thread) /\ q # << >> /\ NoRepeats(q)
      /\ Elements(q) = Elements(s.run_queue[p]) \union {t}
  <2>1. PICK z : z = s.run_queue[p]
    OBVIOUS
  <2>2. z \in Seq(Thread) /\ NoRepeats(z) /\ t \notin Elements(z)
    BY <1>5, <2>1
  <2>3. CASE q = <<t>> \o s.run_queue[p]
    BY <2>1, <2>2, <2>3, AddHead
  <2>4. CASE q = Append(s.run_queue[p], t)
    BY <2>1, <2>2, <2>4, AddTail
  <2>5. QED
    BY <1>4, <2>3, <2>4
<1>7. PICK r : r = [s.run_queue EXCEPT ![p] = q]
  OBVIOUS
<1>8. PICK b : b = s.run_queue_bitmap \union {p}
  OBVIOUS
<1>9. r \in [Priority -> Seq(Thread)] /\ b \in SUBSET Priority
  BY <1>2, <1>3, <1>6, <1>7, <1>8
<1>10. v = WithQueues(s, r, b)
  BY <1>1, <1>4, <1>7, <1>8, Zenon
     DEF insert_in_run_queue_head, insert_in_run_queue_tail, WithQueues
<1>11. /\ v \in KernelState
       /\ v.run_queue = r /\ v.run_queue_bitmap = b
       /\ SameThreads(v, s) /\ SameCpus(v, s) /\ SameIrqs(v, s)
  BY <1>9, <1>10, SetQueues
<1>12. b = {x \in Priority : r[x] # << >>}
  BY <1>2, <1>3, <1>6, <1>7, <1>8 DEF Queues
<1>13. ASSUME NEW x \in Priority
       PROVE  /\ NoRepeats(r[x])
              /\ Elements(r[x]) =
                    {u \in Thread : s.state[u] = "READY" /\ s.priority[u] = x}
  <2>1. CASE x = p
    <3>1. r[x] = q
      BY <2>1, <1>2, <1>3, <1>7
    <3>2. QED
      BY <2>1, <3>1, <1>1, <1>3, <1>6 DEF Queues
  <2>2. CASE x # p
    <3>1. r[x] = s.run_queue[x]
      BY <2>2, <1>2, <1>3, <1>7
    <3>2. QED
      BY <2>2, <3>1, <1>1 DEF Queues
  <2>3. QED
    BY <2>1, <2>2
<1>14. Queues(v, {})
  BY <1>11, <1>12, <1>13 DEF Queues, SameThreads
<1>15. QED
  BY <1>11, <1>14

WithState(s, f) == [s EXCEPT !.state = f]

\* v and s differ at most in the states.
ButState(v, s) ==
    /\ v.priority = s.priority /\ v.waiters = s.waiters /\ v.timerCpu = s.timerCpu
    /\ SameQueues(v, s) /\ SameCpus(v, s) /\ SameIrqs(v, s)

\* Replacing the threads' states replaces nothing else.
LEMMA SetState ==
  ASSUME NEW s \in KernelState,
         NEW f \in [Thread -> {"SUSPENDED", "READY", "RUNNING", "BLOCKED", "SLEEPING",
                               "DEATH"}],
         NEW v, v = WithState(s, f)
  PROVE  /\ v \in KernelState
         /\ v.state = f
         /\ ButState(v, s)
BY DEF ButState, KernelState, WithState, SameQueues, SameCpus, SameIrqs

WithTimerCpu(s, f) == [s EXCEPT !.timerCpu = f]

\* v and s differ at most in the timers.
ButTimerCpu(v, s) ==
    /\ v.state = s.state /\ v.priority = s.priority /\ v.waiters = s.waiters
    /\ SameQueues(v, s) /\ SameCpus(v, s) /\ SameIrqs(v, s)

\* Replacing the threads' timers replaces nothing else.
LEMMA SetTimerCpu ==
  ASSUME NEW s \in KernelState, NEW f \in [Thread -> Cpu \union {NoCpu}],
         NEW v, v = WithTimerCpu(s, f)
  PROVE  /\ v \in KernelState
         /\ v.timerCpu = f
         /\ ButTimerCpu(v, s)
BY DEF ButTimerCpu, KernelState, WithTimerCpu, SameQueues, SameCpus, SameIrqs

WithWaiters(s, q) == [s EXCEPT !.waiters = q]

\* v and s differ at most in the wait queue.
ButWaiters(v, s) ==
    /\ v.state = s.state /\ v.priority = s.priority /\ v.timerCpu = s.timerCpu
    /\ SameQueues(v, s) /\ SameCpus(v, s) /\ SameIrqs(v, s)

\* Replacing the wait queue replaces nothing else.
LEMMA SetWaiters ==
  ASSUME NEW s \in KernelState, NEW q \in Seq(Thread), NEW v, v = WithWaiters(s, q)
  PROVE  /\ v \in KernelState
         /\ v.waiters = q
         /\ ButWaiters(v, s)
BY DEF ButWaiters, KernelState, WithWaiters, SameQueues, SameCpus, SameIrqs

\* The run queues stay consistent when neither they nor who is READY changes.
LEMMA QueuesKept ==
  ASSUME NEW s, NEW off, Queues(s, off), NEW v, SameQueues(v, s),
         \A u \in Thread : v.state[u] = "READY" <=> s.state[u] = "READY",
         \A u \in Thread : v.state[u] = "READY" => v.priority[u] = s.priority[u]
  PROVE  Queues(v, off)
<1>1. \A p \in Priority :
        {u \in Thread \ off : v.state[u] = "READY" /\ v.priority[u] = p} =
        {u \in Thread \ off : s.state[u] = "READY" /\ s.priority[u] = p}
  OBVIOUS
<1>2. QED
  BY <1>1 DEF Queues, SameQueues

\* The CPUs' threads stay consistent when neither they nor who runs changes.
LEMMA CpusKept ==
  ASSUME NEW s, NEW off, Cpus(s, off), NEW v,
         \A u \in Thread : v.state[u] = "RUNNING" <=> s.state[u] = "RUNNING",
         v.current = s.current, v.idle_cpus = s.idle_cpus
  PROVE  Cpus(v, off)
BY DEF Cpus

\* A CPU that idles runs no thread, whether it is about to reschedule or not.
LEMMA IdleCpuOff ==
  ASSUME NEW s, Cpus(s, {}), NEW c \in Cpu, s.current[c] = Idle
  PROVE  Cpus(s, {c})
BY SchedAssumption DEF Cpus

\* A thread that becomes READY is missing from the run queues until it is inserted.
LEMMA BecomesReady ==
  ASSUME NEW s \in KernelState, NEW t \in Thread, NEW y \in KernelState,
         Queues(s, {}), s.state[t] # "READY", SameQueues(y, s),
         y.state = [s.state EXCEPT ![t] = "READY"],
         \A u \in Thread \ {t} : y.priority[u] = s.priority[u]
  PROVE  Queues(y, {t}) /\ y.state[t] = "READY"
<1>1. s.state \in [Thread -> {"SUSPENDED", "READY", "RUNNING", "BLOCKED", "SLEEPING",
                              "DEATH"}]
  BY DEF KernelState
<1>2. y.state[t] = "READY" /\ \A u \in Thread \ {t} : y.state[u] = s.state[u]
  BY <1>1
<1>3. \A p \in Priority :
        {u \in Thread \ {t} : y.state[u] = "READY" /\ y.priority[u] = p} =
        {u \in Thread \ {} : s.state[u] = "READY" /\ s.priority[u] = p}
  BY <1>2
<1>4. QED
  BY <1>2, <1>3 DEF Queues, SameQueues

\* ReadyAtHead() makes t READY, queues it and takes its timer away.
LEMMA ReadyEffect ==
  ASSUME NEW s \in KernelState, NEW t \in Thread,
         Queues(s, {}), s.state[t] # "READY", NEW v, v = ReadyAtHead(s, t)
  PROVE  /\ v \in KernelState
         /\ Queues(v, {})
         /\ v.state = [s.state EXCEPT ![t] = "READY"]
         /\ v.timerCpu = [s.timerCpu EXCEPT ![t] = NoCpu]
         /\ v.priority = s.priority /\ v.waiters = s.waiters
         /\ SameCpus(v, s) /\ SameIrqs(v, s)
<1>1. PICK f : f = [s.state EXCEPT ![t] = "READY"]
  OBVIOUS
<1>2. PICK g : g = [s.timerCpu EXCEPT ![t] = NoCpu]
  OBVIOUS
<1>3. /\ f \in [Thread -> {"SUSPENDED", "READY", "RUNNING", "BLOCKED", "SLEEPING",
                           "DEATH"}]
      /\ g \in [Thread -> Cpu \union {NoCpu}]
  BY <1>1, <1>2 DEF KernelState
<1>4. PICK x : x = WithState(s, f)
  OBVIOUS
<1>5. PICK y : y = WithTimerCpu(x, g)
  OBVIOUS
<1>6. /\ x \in KernelState /\ x.state = f
      /\ x.priority = s.priority /\ x.waiters = s.waiters /\ x.timerCpu = s.timerCpu
      /\ SameQueues(x, s) /\ SameCpus(x, s) /\ SameIrqs(x, s)
  <2>1. x \in KernelState /\ x.state = f /\ ButState(x, s)
    BY <1>3, <1>4, SetState
  <2>2. QED
    BY <2>1 DEF ButState
<1>7. /\ y \in KernelState /\ y.timerCpu = g
      /\ y.state = x.state /\ y.priority = x.priority /\ y.waiters = x.waiters
      /\ SameQueues(y, x) /\ SameCpus(y, x) /\ SameIrqs(y, x)
  <2>1. y \in KernelState /\ y.timerCpu = g /\ ButTimerCpu(y, x)
    BY <1>3, <1>5, <1>6, SetTimerCpu
  <2>2. QED
    BY <2>1 DEF ButTimerCpu
<1>8. v = insert_in_run_queue_head(y, t)
  BY <1>1, <1>2, <1>4, <1>5, Zenon DEF ReadyAtHead, WithState, WithTimerCpu
<1>9. Queues(y, {t}) /\ y.state[t] = "READY"
  <2>1. SameQueues(y, s)
    BY <1>6, <1>7 DEF SameQueues
  <2>2. /\ y \in KernelState
        /\ y.state = [s.state EXCEPT ![t] = "READY"] /\ y.priority = s.priority
    BY <1>1, <1>6, <1>7
  <2>3. QED
    BY <2>1, <2>2, BecomesReady
<1>10. /\ v \in KernelState /\ Queues(v, {})
       /\ SameThreads(v, y) /\ SameCpus(v, y) /\ SameIrqs(v, y)
  BY <1>7, <1>8, <1>9, Insert
<1>11. SameCpus(v, s) /\ SameIrqs(v, s)
  BY <1>6, <1>7, <1>10 DEF SameCpus, SameIrqs
<1>12. QED
  BY <1>1, <1>2, <1>6, <1>7, <1>10, <1>11 DEF SameThreads

-----------------------------------------------------------------------------
\* How the invariant is kept.

\* A thread that is neither READY nor RUNNING becomes READY.
LEMMA Wake ==
  ASSUME NEW s, NEW off, Core(s, off), NEW t \in Thread,
         s.state[t] # "READY", s.state[t] # "RUNNING",
         NEW v, v = ReadyAtHead(s, t)
  PROVE  /\ Core(v, off)
         /\ v.state = [s.state EXCEPT ![t] = "READY"]
         /\ v.waiters = s.waiters
         /\ SameCpus(v, s) /\ SameIrqs(v, s)
<1>1. s \in KernelState /\ Queues(s, {})
  BY DEF Core
<1>2. /\ v \in KernelState
      /\ Queues(v, {})
      /\ v.state = [s.state EXCEPT ![t] = "READY"]
      /\ v.timerCpu = [s.timerCpu EXCEPT ![t] = NoCpu]
      /\ v.waiters = s.waiters
      /\ SameCpus(v, s) /\ SameIrqs(v, s)
  BY <1>1, ReadyEffect
<1>3. /\ s.state \in [Thread -> {"SUSPENDED", "READY", "RUNNING", "BLOCKED", "SLEEPING",
                                 "DEATH"}]
      /\ s.timerCpu \in [Thread -> Cpu \union {NoCpu}]
  BY <1>1 DEF KernelState
<1>4. Sleeping(v)
  BY <1>2, <1>3 DEF Sleeping, Core
<1>5. Cpus(v, off)
  <2>1. \A u \in Thread : v.state[u] = "RUNNING" <=> s.state[u] = "RUNNING"
    BY <1>2, <1>3
  <2>2. v.current = s.current /\ v.idle_cpus = s.idle_cpus
    BY <1>2 DEF SameCpus
  <2>3. QED
    BY <2>1, <2>2, SchedAssumption DEF Core, Cpus
<1>6. Timers(v)
  BY <1>2 DEF Timers, Core, RealTimeOrIdle, SameCpus
<1>7. QED
  BY <1>2, <1>4, <1>5, <1>6 DEF Core

\* The thread a CPU runs is RUNNING.
LEMMA CurrentThread ==
  ASSUME NEW s, Core(s, {}), NEW c \in Cpu, NEW t, s.current[c] = t, t # Idle
  PROVE  t \in Thread /\ s.state[t] = "RUNNING"
<1>1. s.current \in [Cpu -> Thread \union {Idle}]
  BY DEF Core, KernelState
<1>2. t \in Thread
  BY <1>1
<1>3. QED
  BY <1>2 DEF Core, Cpus

\* y is s with t made READY, and perhaps with another priority.
MadeReady(y, s, t) ==
    /\ SameQueues(y, s) /\ SameCpus(y, s)
    /\ y.state = [s.state EXCEPT ![t] = "READY"]
    /\ y.timerCpu = s.timerCpu
    /\ \A u \in Thread \ {t} : y.priority[u] = s.priority[u]

\* v is y with t put on its run queue.
Inserted(v, y, t) ==
    v = insert_in_run_queue_head(y, t) \/ v = insert_in_run_queue_tail(y, t)

\* v has queued what y made READY, the thread of CPU c in s.
Requeued(v, y, s, c) ==
    /\ Core(v, {c})
    /\ v.state = y.state /\ v.waiters = y.waiters
    /\ SameCpus(v, s) /\ SameIrqs(v, y)

\* The thread of CPU c becomes READY and is queued, perhaps under a new priority.
LEMMA Requeue ==
  ASSUME NEW s, Core(s, {}), NEW c \in Cpu,
         NEW t \in Thread, s.current[c] = t,
         NEW y \in KernelState, MadeReady(y, s, t),
         NEW v, Inserted(v, y, t)
  PROVE  Requeued(v, y, s, c)
<1>0. /\ SameQueues(y, s) /\ SameCpus(y, s)
      /\ y.state = [s.state EXCEPT ![t] = "READY"]
      /\ y.timerCpu = s.timerCpu
      /\ \A u \in Thread \ {t} : y.priority[u] = s.priority[u]
  BY DEF MadeReady
<1>1. /\ s \in KernelState
      /\ s.current \in [Cpu -> Thread \union {Idle}]
      /\ s.state \in [Thread -> {"SUSPENDED", "READY", "RUNNING", "BLOCKED", "SLEEPING",
                                 "DEATH"}]
  BY DEF Core, KernelState
<1>2. s.state[t] = "RUNNING"
  BY DEF Core, Cpus
<1>3. Queues(y, {t}) /\ y.state[t] = "READY"
  <2>1. Queues(s, {}) /\ s.state[t] # "READY"
    BY <1>2 DEF Core
  <2>2. QED
    BY <1>0, <1>1, <2>1, BecomesReady
<1>4. /\ v \in KernelState /\ Queues(v, {})
      /\ SameThreads(v, y) /\ SameCpus(v, y) /\ SameIrqs(v, y)
  <2>1. v = insert_in_run_queue_head(y, t) \/ v = insert_in_run_queue_tail(y, t)
    BY DEF Inserted
  <2>2. QED
    BY <1>3, <2>1, Insert
<1>5. SameCpus(v, s)
  BY <1>0, <1>4 DEF SameCpus
<1>6. v.state = [s.state EXCEPT ![t] = "READY"] /\ v.timerCpu = s.timerCpu
  BY <1>0, <1>4 DEF SameThreads
<1>7. Sleeping(v)
  BY <1>1, <1>6 DEF Sleeping, Core
<1>8. Cpus(v, {c})
  <2>1. \A u \in Thread : v.state[u] = "RUNNING" <=> s.state[u] = "RUNNING" /\ u # t
    BY <1>1, <1>6
  <2>2. v.current = s.current /\ v.idle_cpus = s.idle_cpus
    BY <1>5 DEF SameCpus
  <2>3. QED
    BY <2>1, <2>2, SchedAssumption DEF Core, Cpus
<1>9. Timers(v)
  BY <1>5 DEF Timers, Core, RealTimeOrIdle, SameCpus
<1>10. Core(v, {c})
  BY <1>4, <1>7, <1>8, <1>9 DEF Core
<1>11. QED
  BY <1>4, <1>5, <1>10 DEF Requeued, SameThreads

\* The thread of CPU c blocks, goes to sleep or dies.
LEMMA Leave ==
  ASSUME NEW s, Core(s, {}), NEW c \in Cpu,
         NEW t \in Thread, s.current[c] = t,
         NEW y \in KernelState, SameQueues(y, s), SameCpus(y, s),
         y.priority = s.priority,
         y.state[t] \in {"BLOCKED", "SLEEPING", "DEATH"},
         y.state[t] = "SLEEPING" => y.timerCpu[t] \in Cpu,
         \A u \in Thread \ {t} :
            y.state[u] = s.state[u] /\ y.timerCpu[u] = s.timerCpu[u]
  PROVE  Core(y, {c})
<1>1. s.state[t] = "RUNNING"
  BY DEF Core, Cpus
<1>2. Queues(y, {})
  <2>1. \A p \in Priority :
          {u \in Thread \ {} : y.state[u] = "READY" /\ y.priority[u] = p} =
          {u \in Thread \ {} : s.state[u] = "READY" /\ s.priority[u] = p}
    BY <1>1
  <2>2. QED
    BY <2>1 DEF Core, Queues, SameQueues
<1>3. Sleeping(y)
  BY DEF Sleeping, Core
<1>4. Cpus(y, {c})
  <2>1. \A u \in Thread : y.state[u] = "RUNNING" <=> s.state[u] = "RUNNING" /\ u # t
    OBVIOUS
  <2>2. y.current = s.current /\ y.idle_cpus = s.idle_cpus
    BY DEF SameCpus
  <2>3. QED
    BY <2>1, <2>2, SchedAssumption DEF Core, Cpus
<1>5. Timers(y)
  BY DEF Timers, Core, RealTimeOrIdle, SameCpus
<1>6. QED
  BY <1>2, <1>3, <1>4, <1>5 DEF Core

-----------------------------------------------------------------------------
\* thread_resched()

\* Among finitely many queue positions there is one that no other precedes in the
\* order in which get_top_thread() looks at them.
LEMMA FirstPosition ==
  ASSUME NEW R, \A x \in R : x[1] \in Nat /\ x[2] \in Nat, IsFiniteSet(R), R # {}
  PROVE  \E x \in R : \A y \in R : x[1] > y[1] \/ (x[1] = y[1] /\ x[2] <= y[2])
<1> DEFINE Upto(x) == {y \in R : y[1] > x[1] \/ (y[1] = x[1] /\ y[2] <= x[2])}
           T == {Upto(x) : x \in R}
<1>1. T \subseteq FiniteSubsetsOf(R)
  BY FS_Subset DEF FiniteSubsetsOf
<1>2. PICK M \in T : \A N \in T : <<N, M>> \notin StrictSubsetOrdering(R)
  <2>1. IsWellFoundedOn(StrictSubsetOrdering(R), FiniteSubsetsOf(R))
    BY FS_StrictSubsetOrderingWellFounded
  <2>2. T # {}
    OBVIOUS
  <2>3. QED
    BY <1>1, <2>1, <2>2, WFMin
<1>3. PICK m \in R : M = Upto(m)
  OBVIOUS
<1>4. ASSUME NEW y \in R, ~(m[1] > y[1] \/ (m[1] = y[1] /\ m[2] <= y[2]))
      PROVE  FALSE
  <2>1. /\ m[1] \in Nat /\ m[2] \in Nat /\ y[1] \in Nat /\ y[2] \in Nat
        /\ \A z \in R : z[1] \in Nat /\ z[2] \in Nat
    OBVIOUS
  <2>2. y[1] > m[1] \/ (y[1] = m[1] /\ y[2] < m[2])
    BY <1>4, <2>1
  <2>3. Upto(y) \subseteq Upto(m)
    BY <2>1, <2>2
  <2>4. m \in Upto(m) /\ m \notin Upto(y)
    BY <1>4, <2>1
  <2>5. <<Upto(y), Upto(m)>> \in StrictSubsetOrdering(R)
    BY <2>3, <2>4 DEF StrictSubsetOrdering
  <2>6. QED
    BY <1>2, <1>3, <2>5
<1>5. QED
  BY <1>4

\* The run queues in use are finitely many, as each holds a thread of its own.
LEMMA BitmapFinite ==
  ASSUME NEW s \in KernelState, Queues(s, {})
  PROVE  IsFiniteSet(s.run_queue_bitmap)
<1>1. PICK f : f = [p \in s.run_queue_bitmap |-> s.run_queue[p][1]]
  OBVIOUS
<1>2. ASSUME NEW p \in s.run_queue_bitmap
      PROVE  f[p] \in Thread /\ s.priority[f[p]] = p
  <2>1. /\ p \in Priority
        /\ s.run_queue[p] \in Seq(Thread)
        /\ s.run_queue[p] # << >>
    BY DEF KernelState, Queues
  <2>2. 1 \in 1 .. Len(s.run_queue[p])
    BY <2>1
  <2>3. s.run_queue[p][1] \in Elements(s.run_queue[p])
    BY <2>2 DEF Elements
  <2>4. QED
    BY <1>1, <2>1, <2>3 DEF Queues
<1>3. f \in Injection(s.run_queue_bitmap, Thread)
  BY <1>1, <1>2 DEF Injection, IsInjective
<1>4. QED
  BY <1>3, FS_Injection, SchedAssumption

\* get_top_thread() finds a position when there is one.
LEMMA TopThread ==
  ASSUME NEW s \in KernelState, Queues(s, {}), NEW c \in Cpu, Runnable(s, c) # {}
  PROVE  TopPosition(s, c) \in Runnable(s, c)
<1>1. IsFiniteSet(s.run_queue_bitmap \X (1 .. Cardinality(Thread)))
  <2>1. Cardinality(Thread) \in Nat
    BY SchedAssumption, FS_CardinalityType
  <2>2. IsFiniteSet(1 .. Cardinality(Thread))
    BY <2>1, FS_Interval
  <2>3. QED
    BY <2>2, BitmapFinite, FS_Product
<1>2. Runnable(s, c) \subseteq s.run_queue_bitmap \X (1 .. Cardinality(Thread))
  BY DEF Runnable
<1>3. IsFiniteSet(Runnable(s, c))
  BY <1>1, <1>2, FS_Subset
<1>4. \A x \in Runnable(s, c) : x[1] \in Nat /\ x[2] \in Nat
  <2>1. s.run_queue_bitmap \subseteq Nat
    BY SchedAssumption DEF KernelState
  <2>2. QED
    BY <1>2, <2>1
<1>5. PICK R : R = Runnable(s, c)
  OBVIOUS
<1>6. \E x \in R : \A y \in R : x[1] > y[1] \/ (x[1] = y[1] /\ x[2] <= y[2])
  BY <1>3, <1>4, <1>5, FirstPosition
<1>7. (CHOOSE x \in R : \A y \in R : x[1] > y[1] \/ (x[1] = y[1] /\ x[2] <= y[2])) \in R
  BY <1>6
<1>8. QED
  BY <1>5, <1>7 DEF TopPosition

\* Taking a thread off its run queue leaves it READY and not queued.
LEMMA Dequeue ==
  ASSUME NEW s \in KernelState, Queues(s, {}), NEW p \in Priority,
         NEW i \in 1 .. Len(s.run_queue[p]),
         NEW t, t = s.run_queue[p][i], NEW v, v = DequeueAt(s, p, i)
  PROVE  /\ t \in Thread /\ s.state[t] = "READY"
         /\ v \in KernelState
         /\ Queues(v, {t})
         /\ SameThreads(v, s) /\ SameCpus(v, s) /\ SameIrqs(v, s)
<1>1. /\ s.run_queue \in [Priority -> Seq(Thread)]
      /\ s.run_queue_bitmap \in SUBSET Priority
  BY DEF KernelState
<1>2. t \in Elements(s.run_queue[p])
  BY DEF Elements
<1>3. t \in Thread /\ s.state[t] = "READY" /\ s.priority[t] = p
  BY <1>2 DEF Queues
<1>4. PICK q : q = Without(s.run_queue[p], i)
  OBVIOUS
<1>5. q \in Seq(Thread) /\ NoRepeats(q) /\ Elements(q) = Elements(s.run_queue[p]) \ {t}
  <2>1. s.run_queue[p] \in Seq(Thread) /\ NoRepeats(s.run_queue[p])
    BY <1>1 DEF Queues
  <2>2. QED
    BY <1>4, <2>1, Delete
<1>6. PICK r : r = [s.run_queue EXCEPT ![p] = q]
  OBVIOUS
<1>7. PICK b : b = IF q = << >> THEN s.run_queue_bitmap \ {p} ELSE s.run_queue_bitmap
  OBVIOUS
<1>8. r \in [Priority -> Seq(Thread)] /\ b \in SUBSET Priority
  BY <1>1, <1>5, <1>6, <1>7
<1>9. v = WithQueues(s, r, b)
  BY <1>4, <1>6, <1>7, Zenon DEF DequeueAt, WithQueues
<1>10. /\ v \in KernelState
       /\ v.run_queue = r /\ v.run_queue_bitmap = b
       /\ SameThreads(v, s) /\ SameCpus(v, s) /\ SameIrqs(v, s)
  BY <1>8, <1>9, SetQueues
<1>11. b = {x \in Priority : r[x] # << >>}
  <2>1. p \in s.run_queue_bitmap
    <3>1. s.run_queue[p] # << >>
      BY <1>1, <1>2, NoElements
    <3>2. QED
      BY <3>1 DEF Queues
  <2>2. QED
    BY <1>1, <1>6, <1>7, <2>1 DEF Queues
<1>12. ASSUME NEW x \in Priority
       PROVE  /\ NoRepeats(r[x])
              /\ Elements(r[x]) =
                    {u \in Thread \ {t} : s.state[u] = "READY" /\ s.priority[u] = x}
  <2>1. CASE x = p
    <3>1. r[x] = q
      BY <2>1, <1>1, <1>6
    <3>2. QED
      BY <2>1, <3>1, <1>5 DEF Queues
  <2>2. CASE x # p
    <3>1. r[x] = s.run_queue[x]
      BY <2>2, <1>1, <1>6
    <3>2. QED
      BY <2>2, <3>1, <1>3 DEF Queues
  <2>3. QED
    BY <2>1, <2>2
<1>13. Queues(v, {t})
  BY <1>10, <1>11, <1>12 DEF Queues, SameThreads
<1>14. QED
  BY <1>3, <1>10, <1>13

WithQuantum(s, f) == [s EXCEPT !.quantum = f]

\* Replacing the quanta replaces nothing else.
LEMMA SetQuantum ==
  ASSUME NEW s \in KernelState, NEW f \in [Thread -> 0 .. QUANTUM],
         NEW v, v = WithQuantum(s, f)
  PROVE  /\ v \in KernelState
         /\ SameThreads(v, s) /\ SameQueues(v, s) /\ SameCpus(v, s) /\ SameIrqs(v, s)
BY DEF KernelState, WithQuantum, SameThreads, SameQueues, SameCpus, SameIrqs

WithCurrent(s, f) == [s EXCEPT !.current = f]
WithIdleCpus(s, d) == [s EXCEPT !.idle_cpus = d]
WithRealTimeCpus(s, d) == [s EXCEPT !.realtime_cpus = d]
WithPreemptTimer(s, d) == [s EXCEPT !.preempt_timer = d]

\* Replacing the CPUs' threads and masks replaces nothing else.
LEMMA SetCurrent ==
  ASSUME NEW s \in KernelState, NEW f \in [Cpu -> Thread \union {Idle}],
         NEW d \in SUBSET Cpu, NEW e \in SUBSET Cpu,
         NEW v, v = WithRealTimeCpus(WithIdleCpus(WithCurrent(s, f), d), e)
  PROVE  /\ v \in KernelState
         /\ v.current = f /\ v.idle_cpus = d
         /\ v.realtime = s.realtime
         /\ v.preempt_timer = s.preempt_timer /\ v.panicked = s.panicked
         /\ SameThreads(v, s) /\ SameQueues(v, s) /\ SameIrqs(v, s)
<1>1. PICK x : x = WithCurrent(s, f)
  OBVIOUS
<1>2. PICK y : y = WithIdleCpus(x, d)
  OBVIOUS
<1>3. /\ x \in KernelState
      /\ x.current = f
      /\ x.realtime = s.realtime
      /\ x.preempt_timer = s.preempt_timer /\ x.panicked = s.panicked
      /\ SameThreads(x, s) /\ SameQueues(x, s) /\ SameIrqs(x, s)
  BY <1>1 DEF KernelState, WithCurrent, SameThreads, SameQueues, SameIrqs
<1>4. /\ y \in KernelState
      /\ y.current = x.current /\ y.idle_cpus = d
      /\ y.realtime = x.realtime
      /\ y.preempt_timer = x.preempt_timer /\ y.panicked = x.panicked
      /\ SameThreads(y, x) /\ SameQueues(y, x) /\ SameIrqs(y, x)
  BY <1>2, <1>3 DEF KernelState, WithIdleCpus, SameThreads, SameQueues, SameIrqs
<1>5. v = WithRealTimeCpus(y, e)
  BY <1>1, <1>2
<1>6. /\ v \in KernelState
      /\ SameCpus(v, y)
      /\ SameThreads(v, y) /\ SameQueues(v, y) /\ SameIrqs(v, y)
  <2>1. y \in KernelState
    BY <1>4
  <2>2. v \in KernelState
    BY <1>5, <2>1 DEF KernelState, WithRealTimeCpus
  <2>3. SameCpus(v, y) /\ SameIrqs(v, y)
    BY <1>5, <2>1 DEF KernelState, WithRealTimeCpus, SameIrqs, SameCpus
  <2>4. SameThreads(v, y) /\ SameQueues(v, y)
    BY <1>5, <2>1 DEF KernelState, WithRealTimeCpus, SameThreads, SameQueues
  <2>5. QED
    BY <2>2, <2>3, <2>4
<1>7. QED
  BY <1>3, <1>4, <1>6 DEF SameThreads, SameQueues, SameIrqs, SameCpus

\* Replacing the set of preemption timers replaces nothing else.
LEMMA SetPreemptTimer ==
  ASSUME NEW s \in KernelState, NEW d \in SUBSET Cpu, NEW v, v = WithPreemptTimer(s, d)
  PROVE  /\ v \in KernelState
         /\ v.preempt_timer = d
         /\ v.current = s.current /\ v.realtime = s.realtime
         /\ v.idle_cpus = s.idle_cpus /\ v.panicked = s.panicked
         /\ SameThreads(v, s) /\ SameQueues(v, s) /\ SameIrqs(v, s)
BY DEF KernelState, WithPreemptTimer, SameThreads, SameQueues, SameIrqs

\* thread_resched() starts or cancels the preemption timer as the new thread needs
\* it, and does not panic if the timer follows the old thread.
LEMMA PreemptTimerEffect ==
  ASSUME NEW s \in KernelState, NEW c \in Cpu, NEW old, NEW new,
         c \in s.preempt_timer <=> ~RealTimeOrIdle(s, old),
         NEW v, v = PreemptTimer(s, c, old, new)
  PROVE  /\ v \in KernelState
         /\ RealTimeOrIdle(s, new) => v.preempt_timer = s.preempt_timer \ {c}
         /\ ~RealTimeOrIdle(s, new) => v.preempt_timer = s.preempt_timer \union {c}
         /\ v.current = s.current /\ v.realtime = s.realtime
         /\ v.idle_cpus = s.idle_cpus /\ v.panicked = s.panicked
         /\ SameThreads(v, s) /\ SameQueues(v, s) /\ SameIrqs(v, s)
<1>1. PICK d : d = IF RealTimeOrIdle(s, new) THEN s.preempt_timer \ {c}
                                              ELSE s.preempt_timer \union {c}
  OBVIOUS
<1>2. s.preempt_timer \in SUBSET Cpu
  BY DEF KernelState
<1>3. d \in SUBSET Cpu
  BY <1>1, <1>2
<1>4. CASE v = s
  <2>1. RealTimeOrIdle(s, new) <=> RealTimeOrIdle(s, old)
    <3>1. ASSUME RealTimeOrIdle(s, new), ~RealTimeOrIdle(s, old)
          PROVE  FALSE
      <4>1. v = WithPreemptTimer(s, s.preempt_timer \ {c})
        BY <3>1, Zenon DEF PreemptTimer, WithPreemptTimer
      <4>2. v.preempt_timer = s.preempt_timer \ {c}
        BY <1>2, <4>1, SetPreemptTimer
      <4>3. QED
        BY <1>4, <3>1, <4>2
    <3>2. ASSUME ~RealTimeOrIdle(s, new), RealTimeOrIdle(s, old)
          PROVE  FALSE
      <4>1. v = WithPreemptTimer(s, s.preempt_timer \union {c})
        BY <3>2, Zenon DEF PreemptTimer, WithPreemptTimer
      <4>2. v.preempt_timer = s.preempt_timer \union {c}
        BY <1>2, <4>1, SetPreemptTimer
      <4>3. QED
        BY <1>4, <3>2, <4>2
    <3>3. QED
      BY <3>1, <3>2
  <2>2. s.preempt_timer = d
    BY <1>1, <2>1
  <2>3. QED
    BY <1>1, <1>4, <2>2 DEF SameThreads, SameQueues, SameIrqs
<1>5. CASE v # s
  <2>1. v = WithPreemptTimer(s, d)
    <3>1. CASE RealTimeOrIdle(s, new)
      BY <1>1, <1>5, <3>1, Zenon DEF PreemptTimer, WithPreemptTimer
    <3>2. CASE ~RealTimeOrIdle(s, new)
      BY <1>1, <1>5, <3>2, Zenon DEF PreemptTimer, WithPreemptTimer
    <3>3. QED
      BY <3>1, <3>2
  <2>2. QED
    BY <1>1, <1>3, <2>1, SetPreemptTimer
<1>6. QED
  BY <1>4, <1>5

\* The state v is s with CPU c switched to the thread new.
Switched(v, s, c, new) ==
    /\ new = Idle => v.state = s.state /\ v.idle_cpus = s.idle_cpus \union {c}
    /\ new # Idle => /\ v.state = [s.state EXCEPT ![new] = "RUNNING"]
                     /\ v.idle_cpus = s.idle_cpus \ {c}
    /\ v.current = [s.current EXCEPT ![c] = new]
    /\ RealTimeOrIdle(s, new) => v.preempt_timer = s.preempt_timer \ {c}
    /\ ~RealTimeOrIdle(s, new) => v.preempt_timer = s.preempt_timer \union {c}
    /\ v.priority = s.priority /\ v.waiters = s.waiters /\ v.timerCpu = s.timerCpu
    /\ v.realtime = s.realtime /\ v.panicked = s.panicked
    /\ SameQueues(v, s) /\ SameIrqs(v, s)

\* SwitchTo() switches the CPU, and does not panic.
LEMMA SwitchEffect ==
  ASSUME NEW s \in KernelState, NEW c \in Cpu, NEW new \in Thread \union {Idle},
         c \in s.preempt_timer <=> ~RealTimeOrIdle(s, s.current[c]),
         NEW v, v = SwitchTo(s, c, new)
  PROVE  v \in KernelState /\ Switched(v, s, c, new)
<1>1. PICK x : x = IF new = Idle THEN s
                   ELSE [s EXCEPT !.state[new] = "RUNNING", !.quantum[new] = Quantum(@)]
  OBVIOUS
<1>2. /\ x \in KernelState
      /\ x.state = IF new = Idle THEN s.state ELSE [s.state EXCEPT ![new] = "RUNNING"]
      /\ x.priority = s.priority /\ x.waiters = s.waiters /\ x.timerCpu = s.timerCpu
      /\ SameQueues(x, s) /\ SameCpus(x, s) /\ SameIrqs(x, s)
  <2>1. CASE new = Idle
    BY <1>1, <2>1 DEF SameQueues, SameCpus, SameIrqs
  <2>2. CASE new # Idle
    <3>1. PICK f : f = [s.state EXCEPT ![new] = "RUNNING"]
      OBVIOUS
    <3>2. PICK g : g = [s.quantum EXCEPT ![new] = Quantum(s.quantum[new])]
      OBVIOUS
    <3>3. PICK y : y = WithState(s, f)
      OBVIOUS
    <3>4. f \in [Thread -> {"SUSPENDED", "READY", "RUNNING", "BLOCKED", "SLEEPING",
                            "DEATH"}]
      BY <3>1 DEF KernelState
    <3>5. g \in [Thread -> 0 .. QUANTUM]
      BY <2>2, <3>2, SchedAssumption DEF KernelState, Quantum
    <3>6. /\ y \in KernelState /\ y.state = f
          /\ y.priority = s.priority /\ y.waiters = s.waiters /\ y.timerCpu = s.timerCpu
          /\ SameQueues(y, s) /\ SameCpus(y, s) /\ SameIrqs(y, s)
      <4>1. y \in KernelState /\ y.state = f /\ ButState(y, s)
        BY <3>3, <3>4, SetState
      <4>2. QED
        BY <4>1 DEF ButState
    <3>7. x = WithQuantum(y, g)
      BY <1>1, <2>2, <3>1, <3>2, <3>3, Zenon DEF WithState, WithQuantum
    <3>8. /\ x \in KernelState
          /\ SameThreads(x, y) /\ SameQueues(x, y) /\ SameCpus(x, y) /\ SameIrqs(x, y)
      BY <3>5, <3>6, <3>7, SetQuantum
    <3>9. QED
      BY <2>2, <3>1, <3>6, <3>8 DEF SameThreads, SameQueues, SameCpus, SameIrqs
  <2>3. QED
    BY <2>1, <2>2
<1>3. PICK f : f = [x.current EXCEPT ![c] = new]
  OBVIOUS
<1>4. PICK d : d = IF new = Idle THEN x.idle_cpus \union {c} ELSE x.idle_cpus \ {c}
  OBVIOUS
<1>5. PICK e : e = IF new # Idle /\ IsRealTime(s, new)
                   THEN x.realtime_cpus \union {c} ELSE x.realtime_cpus \ {c}
  OBVIOUS
<1>6. f \in [Cpu -> Thread \union {Idle}] /\ d \in SUBSET Cpu /\ e \in SUBSET Cpu
  <2>1. /\ x.current \in [Cpu -> Thread \union {Idle}]
        /\ x.idle_cpus \in SUBSET Cpu /\ x.realtime_cpus \in SUBSET Cpu
    BY <1>2 DEF KernelState
  <2>2. QED
    BY <1>3, <1>4, <1>5, <2>1
<1>7. PICK y : y = WithRealTimeCpus(WithIdleCpus(WithCurrent(x, f), d), e)
  OBVIOUS
<1>8. /\ y \in KernelState
      /\ y.current = f /\ y.idle_cpus = d
      /\ y.realtime = x.realtime
      /\ y.preempt_timer = x.preempt_timer /\ y.panicked = x.panicked
      /\ SameThreads(y, x) /\ SameQueues(y, x) /\ SameIrqs(y, x)
  BY <1>2, <1>6, <1>7, SetCurrent
<1>9. v = PreemptTimer(y, c, s.current[c], new)
  BY <1>1, <1>3, <1>4, <1>5, <1>7, Zenon
     DEF SwitchTo, WithRealTimeCpus, WithIdleCpus, WithCurrent
<1>10. y.preempt_timer = s.preempt_timer /\ y.realtime = s.realtime
  BY <1>2, <1>8 DEF SameCpus
<1>11. \A u : RealTimeOrIdle(y, u) <=> RealTimeOrIdle(s, u)
  BY <1>10 DEF RealTimeOrIdle
<1>12. /\ v \in KernelState
       /\ RealTimeOrIdle(y, new) => v.preempt_timer = y.preempt_timer \ {c}
       /\ ~RealTimeOrIdle(y, new) => v.preempt_timer = y.preempt_timer \union {c}
       /\ v.current = y.current /\ v.realtime = y.realtime
       /\ v.idle_cpus = y.idle_cpus /\ v.panicked = y.panicked
       /\ SameThreads(v, y) /\ SameQueues(v, y) /\ SameIrqs(v, y)
  <2>1. c \in y.preempt_timer <=> ~RealTimeOrIdle(y, s.current[c])
    BY <1>10, <1>11
  <2>2. QED
    BY <1>8, <1>9, <2>1, PreemptTimerEffect
<1>13. QED
  BY <1>2, <1>3, <1>4, <1>8, <1>10, <1>11, <1>12
     DEF SameThreads, SameQueues, SameCpus, SameIrqs, Switched

\* A READY thread that was taken off its run queue leaves the queues as they
\* should be once it is RUNNING.
LEMMA QueuesOfRunning ==
  ASSUME NEW s, NEW t, NEW v, Queues(s, {t}), s \in KernelState, t \in Thread,
         SameQueues(v, s), v.priority = s.priority,
         v.state = [s.state EXCEPT ![t] = "RUNNING"]
  PROVE  Queues(v, {})
<1>1. s.state \in [Thread -> {"SUSPENDED", "READY", "RUNNING", "BLOCKED", "SLEEPING",
                              "DEATH"}]
  BY DEF KernelState
<1>2. \A p \in Priority :
        {u \in Thread \ {} : v.state[u] = "READY" /\ v.priority[u] = p} =
        {u \in Thread \ {t} : s.state[u] = "READY" /\ s.priority[u] = p}
  BY <1>1
<1>3. QED
  BY <1>2 DEF Queues, SameQueues

\* thread_resched() gives CPU c the first thread it may run and restores the
\* invariant; it neither wakes nor blocks anybody.  If the CPU idles afterwards
\* there was nothing to run.
LEMMA Resched ==
  ASSUME NEW s, NEW c \in Cpu, Core(s, {c}), NEW v, v = thread_resched(s, c)
  PROVE  /\ Core(v, {})
         /\ v.waiters = s.waiters
         /\ \A t \in Thread : v.state[t] = "BLOCKED" <=> s.state[t] = "BLOCKED"
         /\ SameIrqs(v, s)
         /\ v.current[c] = Idle => Runnable(v, c) = {}
<1>1. /\ s \in KernelState
      /\ s.current \in [Cpu -> Thread \union {Idle}]
      /\ s.state \in [Thread -> {"SUSPENDED", "READY", "RUNNING", "BLOCKED", "SLEEPING",
                                 "DEATH"}]
      /\ s.idle_cpus \in SUBSET Cpu /\ s.preempt_timer \in SUBSET Cpu
  BY DEF Core, KernelState
<1>2. Queues(s, {}) /\ Sleeping(s) /\ Cpus(s, {c}) /\ Timers(s)
  BY DEF Core
<1>3. Idle \notin Thread
  BY SchedAssumption
<1>4. CASE Runnable(s, c) = {} /\ s.current[c] = Idle
  <2>1. v = s
    BY <1>4 DEF thread_resched
  <2>2. Cpus(s, {})
    BY <1>2, <1>3, <1>4 DEF Cpus
  <2>3. QED
    BY <1>1, <1>2, <1>4, <2>1, <2>2 DEF Core, SameIrqs
<1>5. CASE Runnable(s, c) = {} /\ s.current[c] # Idle
  <2>1. v = SwitchTo(s, c, Idle)
    BY <1>5 DEF thread_resched
  <2>2. c \in s.preempt_timer <=> ~RealTimeOrIdle(s, s.current[c])
    BY <1>2 DEF Timers
  <2>3. /\ v \in KernelState
        /\ v.state = s.state
        /\ v.current = [s.current EXCEPT ![c] = Idle]
        /\ v.idle_cpus = s.idle_cpus \union {c}
        /\ v.preempt_timer = s.preempt_timer \ {c}
        /\ v.priority = s.priority /\ v.waiters = s.waiters /\ v.timerCpu = s.timerCpu
        /\ v.realtime = s.realtime /\ v.panicked = s.panicked
        /\ SameQueues(v, s) /\ SameIrqs(v, s)
    <3>1. RealTimeOrIdle(s, Idle)
      BY DEF RealTimeOrIdle
    <3>2. v \in KernelState /\ Switched(v, s, c, Idle)
      BY <1>1, <2>1, <2>2, SwitchEffect
    <3>3. QED
      BY <3>1, <3>2 DEF Switched
  <2>4. Queues(v, {})
    BY <1>2, <2>3 DEF Queues, SameQueues
  <2>5. Sleeping(v)
    BY <1>2, <2>3 DEF Sleeping
  <2>6. v.current[c] = Idle /\ \A d \in Cpu \ {c} : v.current[d] = s.current[d]
    BY <1>1, <2>3
  <2>7. Cpus(v, {})
    BY <1>2, <1>3, <2>3, <2>6 DEF Cpus
  <2>8. Timers(v)
    BY <1>2, <2>3, <2>6 DEF Timers, RealTimeOrIdle
  <2>9. Runnable(v, c) = Runnable(s, c)
    BY <2>3 DEF Runnable, SameQueues
  <2>10. QED
    BY <1>5, <2>3, <2>4, <2>5, <2>7, <2>8, <2>9 DEF Core
<1>6. CASE Runnable(s, c) # {}
  <2>1. PICK p, i : p = TopPosition(s, c)[1] /\ i = TopPosition(s, c)[2]
    OBVIOUS
  <2>2. TopPosition(s, c) \in Runnable(s, c)
    BY <1>1, <1>2, <1>6, TopThread
  <2>3. PICK new : new = s.run_queue[p][i]
    OBVIOUS
  <2>4. /\ p \in Priority /\ i \in 1 .. Len(s.run_queue[p])
        /\ Allowed(new, c)
    <3>1. /\ s.run_queue_bitmap \in SUBSET Priority
          /\ s.run_queue \in [Priority -> Seq(Thread)]
      BY <1>1 DEF KernelState
    <3>2. /\ p \in s.run_queue_bitmap /\ i \in 1 .. Cardinality(Thread)
          /\ i <= Len(s.run_queue[p]) /\ Allowed(s.run_queue[p][i], c)
      BY <2>1, <2>2 DEF Runnable
    <3>3. Cardinality(Thread) \in Nat /\ Len(s.run_queue[p]) \in Nat
      BY <3>1, <3>2, SchedAssumption, FS_CardinalityType
    <3>4. QED
      BY <2>3, <3>1, <3>2, <3>3
  <2>5. PICK y : y = DequeueAt(s, p, i)
    OBVIOUS
  <2>6. /\ new \in Thread /\ s.state[new] = "READY"
        /\ y \in KernelState
        /\ Queues(y, {new})
        /\ SameThreads(y, s) /\ SameCpus(y, s) /\ SameIrqs(y, s)
    BY <1>1, <1>2, <2>3, <2>4, <2>5, Dequeue
  <2>7. \A d \in Cpu \ {c} : s.current[d] # new
    BY <1>2, <2>6 DEF Cpus
  <2>8. CASE new = s.current[c]
    <3>1. PICK f : f = [y.state EXCEPT ![new] = "RUNNING"]
      OBVIOUS
    <3>2. v = WithState(y, f)
      BY <1>6, <2>1, <2>3, <2>5, <2>8, <3>1, Zenon DEF thread_resched, WithState
    <3>3. f \in [Thread -> {"SUSPENDED", "READY", "RUNNING", "BLOCKED", "SLEEPING",
                            "DEATH"}]
      BY <2>6, <3>1 DEF KernelState
    <3>4. /\ v \in KernelState
          /\ v.state = f
          /\ v.priority = y.priority /\ v.waiters = y.waiters /\ v.timerCpu = y.timerCpu
          /\ SameQueues(v, y) /\ SameCpus(v, y) /\ SameIrqs(v, y)
      <4>1. v \in KernelState /\ v.state = f /\ ButState(v, y)
        BY <2>6, <3>2, <3>3, SetState
      <4>2. QED
        BY <4>1 DEF ButState
    <3>5. v.state[new] = "RUNNING" /\ \A t \in Thread \ {new} : v.state[t] = s.state[t]
      BY <1>1, <2>6, <3>1, <3>4 DEF SameThreads
    <3>6. Queues(v, {})
      BY <2>6, <3>1, <3>4, QueuesOfRunning
    <3>7. Sleeping(v)
      BY <1>2, <2>6, <3>4, <3>5 DEF Sleeping, SameThreads
    <3>8. SameCpus(v, s)
      BY <2>6, <3>4 DEF SameCpus
    <3>9. Cpus(v, {})
      BY <1>2, <2>4, <2>7, <2>8, <3>5, <3>8 DEF Cpus, SameCpus
    <3>10. Timers(v)
      BY <1>2, <3>8 DEF Timers, SameCpus, RealTimeOrIdle
    <3>11. v.current[c] # Idle
      BY <1>3, <2>6, <2>8, <3>8 DEF SameCpus
    <3>12. QED
      BY <2>6, <3>4, <3>5, <3>6, <3>7, <3>9, <3>10, <3>11
         DEF Core, SameIrqs, SameThreads
  <2>9. CASE new # s.current[c]
    <3>1. v = SwitchTo(y, c, new)
      BY <1>6, <2>1, <2>3, <2>5, <2>9, Zenon DEF thread_resched
    <3>2. c \in y.preempt_timer <=> ~RealTimeOrIdle(y, y.current[c])
      BY <1>2, <2>6 DEF Timers, RealTimeOrIdle, SameCpus
    <3>3. /\ v \in KernelState
          /\ v.state = [y.state EXCEPT ![new] = "RUNNING"]
          /\ v.current = [y.current EXCEPT ![c] = new]
          /\ v.idle_cpus = y.idle_cpus \ {c}
          /\ RealTimeOrIdle(y, new) => v.preempt_timer = y.preempt_timer \ {c}
          /\ ~RealTimeOrIdle(y, new) => v.preempt_timer = y.preempt_timer \union {c}
          /\ v.priority = y.priority /\ v.waiters = y.waiters /\ v.timerCpu = y.timerCpu
          /\ v.realtime = y.realtime /\ v.panicked = y.panicked
          /\ SameQueues(v, y) /\ SameIrqs(v, y)
      <4>1. v \in KernelState /\ Switched(v, y, c, new)
        BY <2>6, <3>1, <3>2, SwitchEffect
      <4>2. QED
        BY <1>3, <2>6, <4>1 DEF Switched
    <3>4. v.state[new] = "RUNNING" /\ \A t \in Thread \ {new} : v.state[t] = s.state[t]
      BY <1>1, <2>6, <3>3 DEF SameThreads
    <3>5. v.current[c] = new /\ \A d \in Cpu \ {c} : v.current[d] = s.current[d]
      BY <1>1, <2>6, <3>3 DEF SameCpus
    <3>6. Queues(v, {})
      BY <2>6, <3>3, QueuesOfRunning
    <3>7. Sleeping(v)
      BY <1>2, <2>6, <3>3, <3>4 DEF Sleeping, SameThreads
    <3>8. Cpus(v, {})
      <4>1. v.idle_cpus = {d \in Cpu : v.current[d] = Idle}
        <5>1. s.idle_cpus = {d \in Cpu : s.current[d] = Idle}
          BY <1>2 DEF Cpus
        <5>2. v.idle_cpus = s.idle_cpus \ {c}
          BY <2>6, <3>3 DEF SameCpus
        <5>3. new # Idle
          BY <2>6, SchedAssumption
        <5>4. QED
          BY <3>5, <5>1, <5>2, <5>3
      <4>2. \A t \in Thread :
              v.state[t] = "RUNNING" <=> \E d \in Cpu : v.current[d] = t
        BY <1>2, <2>6, <2>7, <3>4, <3>5 DEF Cpus
      <4>3. QED
        BY <1>2, <2>4, <2>7, <3>5, <4>1, <4>2 DEF Cpus
    <3>9. Timers(v)
      BY <1>2, <1>3, <2>6, <3>3, <3>5 DEF Timers, SameCpus, RealTimeOrIdle
    <3>10. v.current[c] # Idle
      BY <1>3, <2>6, <3>5
    <3>11. QED
      BY <2>6, <3>3, <3>4, <3>6, <3>7, <3>8, <3>9, <3>10
         DEF Core, SameIrqs, SameThreads
  <2>10. QED
    BY <2>8, <2>9
<1>7. QED
  BY <1>4, <1>5, <1>6

-----------------------------------------------------------------------------
\* The wakes.

\* The wait queue, the quanta, the IPIs and the like are no part of Core.
LEMMA SameCore ==
  ASSUME NEW s, NEW off, Core(s, off), NEW v \in KernelState,
         v.state = s.state, v.priority = s.priority, v.timerCpu = s.timerCpu,
         SameQueues(v, s), SameCpus(v, s)
  PROVE  Core(v, off)
<1>1. Queues(v, {})
  BY DEF Core, Queues, SameQueues
<1>2. Sleeping(v)
  BY DEF Core, Sleeping
<1>3. Cpus(v, off)
  BY DEF Core, Cpus, SameCpus
<1>4. Timers(v)
  BY DEF Core, Timers, SameCpus, RealTimeOrIdle
<1>5. QED
  BY <1>1, <1>2, <1>3, <1>4 DEF Core

\* mp_reschedule() only sends IPIs.
LEMMA MpReschedule ==
  ASSUME NEW s \in KernelState, NEW c \in Cpu, NEW v, v = mp_reschedule(s, c)
  PROVE  /\ v \in KernelState
         /\ SameThreads(v, s) /\ SameQueues(v, s) /\ SameCpus(v, s) /\ SameIrqs(v, s)
<1>1. PICK d : d = s.ipi \union (Cpu \ ({c} \union s.realtime_cpus))
  OBVIOUS
<1>2. d \in SUBSET Cpu
  BY <1>1 DEF KernelState
<1>3. v = [s EXCEPT !.ipi = d]
  BY <1>1, Zenon DEF mp_reschedule
<1>4. QED
  BY <1>2, <1>3 DEF KernelState, SameThreads, SameQueues, SameCpus, SameIrqs

\* v blocks the threads that s blocks, and runs the threads that s runs.
SameBlocked(v, s) ==
    /\ \A t \in Thread : v.state[t] = "BLOCKED" <=> s.state[t] = "BLOCKED"
    /\ v.waiters = s.waiters
    /\ SameCpus(v, s) /\ SameIrqs(v, s)

\* A waker that is to reschedule goes to the head of its run queue; it is not
\* one of those it wakes.
LEMMA Waker ==
  ASSUME NEW s, Core(s, {}), NEW c \in Cpu, s.current[c] # Idle,
         NEW v, v = WakerReady(s, c, TRUE)
  PROVE  Core(v, {c}) /\ SameBlocked(v, s)
<1>1. PICK me : me = s.current[c]
  OBVIOUS
<1>2. me \in Thread /\ s.state[me] = "RUNNING"
  BY <1>1, CurrentThread
<1>3. PICK f : f = [s.state EXCEPT ![me] = "READY"]
  OBVIOUS
<1>4. PICK y : y = WithState(s, f)
  OBVIOUS
<1>5. v = insert_in_run_queue_head(y, me)
  BY <1>1, <1>3, <1>4, Zenon DEF WakerReady, WithState
<1>6. /\ s \in KernelState
      /\ s.state \in [Thread -> {"SUSPENDED", "READY", "RUNNING", "BLOCKED", "SLEEPING",
                                 "DEATH"}]
  BY DEF Core, KernelState
<1>7. f \in [Thread -> {"SUSPENDED", "READY", "RUNNING", "BLOCKED", "SLEEPING", "DEATH"}]
  BY <1>3, <1>6
<1>8. /\ y \in KernelState
      /\ y.state = f
      /\ y.priority = s.priority /\ y.waiters = s.waiters /\ y.timerCpu = s.timerCpu
      /\ SameQueues(y, s) /\ SameCpus(y, s) /\ SameIrqs(y, s)
  <2>1. y \in KernelState /\ y.state = f /\ ButState(y, s)
    BY <1>4, <1>6, <1>7, SetState
  <2>2. QED
    BY <2>1 DEF ButState
<1>9. /\ Core(v, {c})
      /\ v.state = y.state /\ v.waiters = y.waiters
      /\ SameCpus(v, s) /\ SameIrqs(v, y)
  <2>1. s.current[c] = me /\ y \in KernelState
    BY <1>1, <1>8
  <2>2. MadeReady(y, s, me)
    BY <1>3, <1>8 DEF MadeReady
  <2>3. Inserted(v, y, me)
    BY <1>5 DEF Inserted
  <2>4. Requeued(v, y, s, c)
    BY <1>2, <2>1, <2>2, <2>3, Requeue
  <2>5. QED
    BY <2>4 DEF Requeued
<1>10. \A t \in Thread : v.state[t] = "BLOCKED" <=> s.state[t] = "BLOCKED"
  BY <1>2, <1>3, <1>6, <1>8, <1>9
<1>11. QED
  BY <1>8, <1>9, <1>10 DEF SameIrqs, SameBlocked

\* The end of a wake: the IPIs are sent and the caller reschedules if it is to.
LEMMA WakeEnd ==
  ASSUME NEW s, NEW off, NEW c \in Cpu, NEW reschedule \in BOOLEAN,
         reschedule => Core(s, {c}) /\ off = {}, ~reschedule => Core(s, off),
         Waiting(s),
         NEW v, v = IF reschedule THEN thread_resched(mp_reschedule(s, c), c)
                                  ELSE mp_reschedule(s, c)
  PROVE  /\ Consistent(v, off) /\ SameIrqs(v, s)
         /\ reschedule => (v.current[c] = Idle => Runnable(v, c) = {})
         /\ ~reschedule => SameCpus(v, s)
<1>1. PICK y : y = mp_reschedule(s, c)
  OBVIOUS
<1>2. s \in KernelState
  BY DEF Core
<1>3. /\ y \in KernelState
      /\ SameThreads(y, s) /\ SameQueues(y, s) /\ SameCpus(y, s) /\ SameIrqs(y, s)
  BY <1>1, <1>2, MpReschedule
<1>4. Waiting(y)
  BY <1>3 DEF Waiting, SameThreads
<1>5. CASE ~reschedule
  <2>1. Core(y, off)
    BY <1>3, <1>5, SameCore DEF SameThreads
  <2>2. QED
    BY <1>1, <1>3, <1>4, <1>5, <2>1 DEF Consistent
<1>6. CASE reschedule
  <2>1. Core(y, {c})
    BY <1>3, <1>6, SameCore DEF SameThreads
  <2>2. v = thread_resched(y, c)
    BY <1>1, <1>6
  <2>3. /\ Core(v, {})
        /\ v.waiters = y.waiters
        /\ \A t \in Thread : v.state[t] = "BLOCKED" <=> y.state[t] = "BLOCKED"
        /\ SameIrqs(v, y)
        /\ v.current[c] = Idle => Runnable(v, c) = {}
    BY <2>1, <2>2, Resched
  <2>4. Waiting(v)
    BY <1>4, <2>3 DEF Waiting
  <2>5. QED
    BY <1>3, <1>6, <2>3, <2>4 DEF Consistent, SameIrqs
<1>7. QED
  BY <1>5, <1>6

\* wait_queue_wake_one() keeps the invariant.
LEMMA WakeOne ==
  ASSUME NEW s, NEW off, Consistent(s, off), NEW c \in Cpu, NEW reschedule \in BOOLEAN,
         reschedule => off = {} /\ s.current[c] # Idle, s.waiters # << >>,
         NEW v, v = wait_queue_wake_one(s, c, reschedule)
  PROVE  /\ Consistent(v, off) /\ SameIrqs(v, s)
         /\ reschedule => (v.current[c] = Idle => Runnable(v, c) = {})
         /\ ~reschedule => SameCpus(v, s)
<1>1. Core(s, off) /\ Waiting(s) /\ s \in KernelState /\ s.waiters \in Seq(Thread)
  BY DEF Consistent, Core, KernelState
<1>2. PICK t, q : t = Head(s.waiters) /\ q = Tail(s.waiters)
  OBVIOUS
<1>3. /\ t \in Elements(s.waiters) /\ q \in Seq(Thread) /\ NoRepeats(q)
      /\ Elements(q) = Elements(s.waiters) \ {t}
  BY <1>1, <1>2, RemoveHead DEF Waiting
<1>4. t \in Thread /\ s.state[t] = "BLOCKED"
  BY <1>1, <1>3 DEF Waiting
<1>5. PICK w : w = WithWaiters(s, q)
  OBVIOUS
<1>6. /\ w \in KernelState
      /\ w.waiters = q
      /\ w.state = s.state /\ w.priority = s.priority /\ w.timerCpu = s.timerCpu
      /\ SameQueues(w, s) /\ SameCpus(w, s) /\ SameIrqs(w, s)
  <2>1. w \in KernelState /\ w.waiters = q /\ ButWaiters(w, s)
    BY <1>1, <1>3, <1>5, SetWaiters
  <2>2. QED
    BY <2>1 DEF ButWaiters
<1>7. Core(w, off)
  BY <1>1, <1>6, SameCore
<1>8. PICK x : x = WakerReady(w, c, reschedule)
  OBVIOUS
<1>9. /\ reschedule => Core(x, {c})
      /\ ~reschedule => Core(x, off)
      /\ \A u \in Thread : x.state[u] = "BLOCKED" <=> w.state[u] = "BLOCKED"
      /\ x.waiters = w.waiters
      /\ SameCpus(x, w) /\ SameIrqs(x, w)
  <2>1. CASE reschedule = TRUE
    <3>1. Core(w, {}) /\ w.current[c] # Idle
      BY <1>6, <1>7, <2>1 DEF SameCpus
    <3>2. x = WakerReady(w, c, TRUE)
      BY <1>8, <2>1
    <3>3. Core(x, {c}) /\ SameBlocked(x, w)
      BY <3>1, <3>2, Waker
    <3>4. QED
      BY <2>1, <3>3 DEF SameBlocked
  <2>2. CASE reschedule = FALSE
    BY <1>7, <1>8, <2>2 DEF WakerReady, SameCpus, SameIrqs
  <2>3. QED
    BY <2>1, <2>2
<1>10. PICK y : y = ReadyAtHead(x, t)
  OBVIOUS
<1>11. PICK d : Core(x, d) /\ (reschedule => d = {c}) /\ (~reschedule => d = off)
  BY <1>9
<1>12. /\ Core(y, d)
       /\ y.state = [x.state EXCEPT ![t] = "READY"]
       /\ y.waiters = x.waiters
       /\ SameCpus(y, x) /\ SameIrqs(y, x)
  <2>1. x.state[t] # "READY" /\ x.state[t] # "RUNNING"
    BY <1>4, <1>6, <1>9
  <2>2. QED
    BY <1>4, <1>10, <1>11, <2>1, Wake
<1>13. Waiting(y)
  <2>1. x.state \in [Thread -> {"SUSPENDED", "READY", "RUNNING", "BLOCKED", "SLEEPING",
                                "DEATH"}]
    BY <1>11 DEF Core, KernelState
  <2>2. \A u \in Thread : y.state[u] = "BLOCKED" <=> s.state[u] = "BLOCKED" /\ u # t
    BY <1>4, <1>6, <1>9, <1>12, <2>1
  <2>3. y.waiters = q
    BY <1>6, <1>9, <1>12
  <2>4. QED
    BY <1>1, <1>3, <2>2, <2>3 DEF Waiting
<1>14. v = IF reschedule THEN thread_resched(mp_reschedule(y, c), c)
                         ELSE mp_reschedule(y, c)
  BY <1>2, <1>5, <1>8, <1>10, Zenon DEF wait_queue_wake_one, WithWaiters
<1>15. /\ Consistent(v, off) /\ SameIrqs(v, y)
       /\ reschedule => (v.current[c] = Idle => Runnable(v, c) = {})
       /\ ~reschedule => SameCpus(v, y)
  BY <1>11, <1>12, <1>13, <1>14, WakeEnd
<1>16. QED
  <2>1. SameIrqs(v, s)
    BY <1>6, <1>9, <1>12, <1>15 DEF SameIrqs
  <2>2. SameCpus(y, s)
    BY <1>6, <1>9, <1>12 DEF SameCpus
  <2>3. ~reschedule => SameCpus(v, s)
    BY <1>15, <2>2 DEF SameCpus
  <2>4. QED
    BY <1>15, <2>1, <2>3

\* Among finitely many numbers there is a least one.
LEMMA LeastNumber ==
  ASSUME NEW n \in Nat, NEW T \in SUBSET (0 .. n), T # {}
  PROVE  \E m \in T : \A i \in T : m <= i
<1>1. PICK R : R = {p \in Nat \X Nat : p[1] < p[2]}
  OBVIOUS
<1>2. IsWellFoundedOn(R, Nat)
  BY <1>1, NatLessThanWellFounded DEF OpToRel
<1>3. T \subseteq Nat
  OBVIOUS
<1>4. PICK m \in T : \A i \in T : <<i, m>> \notin R
  BY <1>2, <1>3, WFMin
<1>5. ASSUME NEW i \in T
      PROVE  m <= i
  <2>1. i \in Nat /\ m \in Nat /\ <<i, m>> \notin R
    BY <1>3, <1>4
  <2>2. ~(i < m)
    BY <1>1, <2>1
  <2>3. QED
    BY <2>1, <2>2
<1>6. QED
  BY <1>5

\* The states f[0], f[1], ... that n rounds of the loop of wait_queue_wake_all()
\* go through.
Rounds(f, s, q, n) ==
    f = [i \in 0 .. n |-> IF i = 0 THEN s ELSE ReadyAtHead(f[i - 1], q[i])]

\* There are such states for any number of rounds.
LEMMA RoundsExist ==
  ASSUME NEW s, NEW q, NEW n \in Nat
  PROVE  \E f : Rounds(f, s, q, n)
<1> DEFINE T == {j \in 0 .. n : ~\E f : Rounds(f, s, q, j)}
<1>1. SUFFICES ASSUME T # {}
               PROVE  FALSE
  <2>1. n \in 0 .. n
    OBVIOUS
  <2>2. QED
    BY <1>1, <2>1
<1>2. PICK m \in T : \A i \in T : m <= i
  BY <1>1, LeastNumber
<1>3. CASE m = 0
  <2>1. Rounds([i \in 0 .. 0 |-> s], s, q, 0)
    BY DEF Rounds
  <2>2. QED
    BY <1>3, <2>1
<1>4. CASE m # 0
  <2>1. m - 1 \in 0 .. n /\ m - 1 \notin T
    BY <1>2, <1>4
  <2>2. PICK f : Rounds(f, s, q, m - 1)
    BY <2>1
  <2>3. PICK g : g = [i \in 0 .. m |-> IF i = m THEN ReadyAtHead(f[m - 1], q[m]) ELSE f[i]]
    OBVIOUS
  <2>4. ASSUME NEW i \in 0 .. m
        PROVE  g[i] = IF i = 0 THEN s ELSE ReadyAtHead(g[i - 1], q[i])
    <3>1. CASE i = 0
      BY <1>4, <2>1, <2>2, <2>3, <3>1 DEF Rounds
    <3>2. CASE i # 0
      <4>1. i - 1 \in 0 .. m - 1 /\ g[i - 1] = f[i - 1]
        BY <2>3, <3>2
      <4>2. CASE i = m
        BY <1>4, <2>3, <4>1, <4>2
      <4>3. CASE i # m
        <5>1. i \in 0 .. m - 1 /\ g[i] = f[i]
          BY <2>3, <4>3
        <5>2. f[i] = ReadyAtHead(f[i - 1], q[i])
          BY <2>2, <3>2, <5>1 DEF Rounds
        <5>3. QED
          BY <3>2, <4>1, <5>1, <5>2
      <4>4. QED
        BY <4>2, <4>3
    <3>3. QED
      BY <3>1, <3>2
  <2>5. Rounds(g, s, q, m)
    BY <2>3, <2>4 DEF Rounds
  <2>6. QED
    BY <2>5
<1>5. QED
  BY <1>3, <1>4

\* After j rounds of the loop of wait_queue_wake_all() over q the state is v.
AfterRounds(v, s, q, j, off) ==
    /\ Core(v, off)
    /\ \A t \in Thread : v.state[t] = "BLOCKED" <=>
                           s.state[t] = "BLOCKED" /\ \A i \in 1 .. j : q[i] # t
    /\ v.waiters = s.waiters
    /\ SameCpus(v, s) /\ SameIrqs(v, s)

\* The loop of wait_queue_wake_all() makes all the waiters READY and keeps the rest.
LEMMA AllReady ==
  ASSUME NEW s, NEW off, Core(s, off), NEW q \in Seq(Thread), NoRepeats(q),
         \A i \in 1 .. Len(q) : s.state[q[i]] = "BLOCKED",
         NEW v, v = AllReadyAtHead(s, q)
  PROVE  AfterRounds(v, s, q, Len(q), off)
<1>1. PICK n \in Nat : n = Len(q)
  OBVIOUS
<1>2. PICK f : Rounds(f, s, q, n) /\ v = f[n]
  <2>1. v = (CHOOSE f : Rounds(f, s, q, Len(q)))[Len(q)]
    BY DEF AllReadyAtHead, Rounds
  <2>2. \E f : Rounds(f, s, q, n)
    BY RoundsExist
  <2>3. Rounds(CHOOSE f : Rounds(f, s, q, n), s, q, n)
    BY <2>2
  <2>4. QED
    BY <1>1, <2>1, <2>3
<1>3. f[0] = s /\ \A i \in 1 .. n : f[i] = ReadyAtHead(f[i - 1], q[i])
  BY <1>2 DEF Rounds
<1>4. \A i \in 1 .. n : q[i] \in Thread /\ s.state[q[i]] = "BLOCKED"
  BY <1>1
<1>5. PICK T : T = {j \in 0 .. n : ~AfterRounds(f[j], s, q, j, off)}
  OBVIOUS
<1>6. ASSUME T # {}
      PROVE  FALSE
  <2>1. PICK m \in T : \A i \in T : m <= i
    BY <1>5, <1>6, LeastNumber
  <2>2. m \in 0 .. n /\ ~AfterRounds(f[m], s, q, m, off)
    BY <1>5
  <2>3. CASE m = 0
    BY <1>3, <2>2, <2>3 DEF AfterRounds, SameCpus, SameIrqs
  <2>4. CASE m # 0
    <3>1. PICK l \in 0 .. n : l = m - 1
      BY <2>2, <2>4
    <3>2. m \in 1 .. n /\ l + 1 = m
      BY <2>2, <2>4, <3>1
    <3>3. AfterRounds(f[l], s, q, l, off)
      BY <1>5, <2>1, <2>2, <3>1
    <3>4. PICK t \in Thread : t = q[m]
      BY <1>4, <3>2
    <3>5. f[m] = ReadyAtHead(f[l], t)
      BY <1>3, <3>1, <3>2, <3>4
    <3>6. \A i \in 1 .. l : q[i] # t
      BY <1>1, <3>1, <3>2, <3>4 DEF NoRepeats
    <3>7. f[l].state[t] = "BLOCKED"
      BY <1>4, <3>2, <3>3, <3>4, <3>6 DEF AfterRounds
    <3>8. /\ Core(f[m], off)
          /\ f[m].state = [f[l].state EXCEPT ![t] = "READY"]
          /\ f[m].waiters = f[l].waiters
          /\ SameCpus(f[m], f[l]) /\ SameIrqs(f[m], f[l])
      <4>1. Core(f[l], off)
        BY <3>3 DEF AfterRounds
      <4>2. QED
        BY <3>5, <3>7, <4>1, Wake
    <3>9. \A u \in Thread : f[m].state[u] = "BLOCKED" <=>
                              s.state[u] = "BLOCKED" /\ \A i \in 1 .. m : q[i] # u
      <4>1. f[l].state \in [Thread -> {"SUSPENDED", "READY", "RUNNING", "BLOCKED",
                                       "SLEEPING", "DEATH"}]
        BY <3>3 DEF AfterRounds, Core, KernelState
      <4>2. \A u \in Thread : f[m].state[u] = "BLOCKED" <=>
                                f[l].state[u] = "BLOCKED" /\ u # t
        BY <3>8, <4>1
      <4>3. \A u \in Thread : (\A i \in 1 .. m : q[i] # u) <=>
                                (\A i \in 1 .. l : q[i] # u) /\ u # t
        BY <3>1, <3>2, <3>4
      <4>4. QED
        BY <3>3, <4>2, <4>3 DEF AfterRounds
    <3>10. AfterRounds(f[m], s, q, m, off)
      BY <3>3, <3>8, <3>9 DEF AfterRounds, SameCpus, SameIrqs
    <3>11. QED
      BY <2>2, <3>10
  <2>5. QED
    BY <2>3, <2>4
<1>7. QED
  BY <1>1, <1>2, <1>5, <1>6

\* wait_queue_wake_all() keeps the invariant.
LEMMA WakeAll ==
  ASSUME NEW s, NEW off, Consistent(s, off), NEW c \in Cpu, NEW reschedule \in BOOLEAN,
         reschedule => off = {} /\ s.current[c] # Idle,
         NEW v, v = wait_queue_wake_all(s, c, reschedule)
  PROVE  /\ Consistent(v, off) /\ SameIrqs(v, s)
         /\ reschedule => s.waiters = << >> \/ (v.current[c] = Idle => Runnable(v, c) = {})
         /\ ~reschedule => SameCpus(v, s)
<1>1. /\ Core(s, off) /\ Waiting(s) /\ s \in KernelState
      /\ s.waiters \in Seq(Thread) /\ NoRepeats(s.waiters)
  BY DEF Consistent, Core, KernelState, Waiting
<1>2. CASE s.waiters = << >>
  BY <1>2 DEF wait_queue_wake_all, SameIrqs, SameCpus
<1>3. CASE s.waiters # << >>
  <2>1. PICK q \in Seq(Thread) : q = s.waiters
    BY <1>1
  <2>2. PICK w : w = WithWaiters(s, << >>)
    OBVIOUS
  <2>3. /\ w \in KernelState
        /\ w.waiters = << >>
        /\ w.state = s.state /\ w.priority = s.priority /\ w.timerCpu = s.timerCpu
        /\ SameQueues(w, s) /\ SameCpus(w, s) /\ SameIrqs(w, s)
    <3>1. PICK e : e = << >>
      OBVIOUS
    <3>2. e \in Seq(Thread) /\ w = WithWaiters(s, e)
      BY <2>2, <3>1
    <3>3. /\ w \in KernelState
          /\ w.waiters = e
          /\ w.state = s.state /\ w.priority = s.priority /\ w.timerCpu = s.timerCpu
          /\ SameQueues(w, s) /\ SameCpus(w, s) /\ SameIrqs(w, s)
      <4>1. w \in KernelState /\ w.waiters = e /\ ButWaiters(w, s)
        BY <1>1, <3>2, SetWaiters
      <4>2. QED
        BY <4>1 DEF ButWaiters
    <3>4. QED
      BY <3>1, <3>3
  <2>4. Core(w, off)
    BY <1>1, <2>3, SameCore
  <2>5. PICK x : x = WakerReady(w, c, reschedule)
    OBVIOUS
  <2>6. /\ reschedule => Core(x, {c})
        /\ ~reschedule => Core(x, off)
        /\ \A u \in Thread : x.state[u] = "BLOCKED" <=> w.state[u] = "BLOCKED"
        /\ x.waiters = w.waiters
        /\ SameCpus(x, w) /\ SameIrqs(x, w)
    <3>1. CASE reschedule = TRUE
      <4>1. Core(w, {}) /\ w.current[c] # Idle
        BY <2>3, <2>4, <3>1 DEF SameCpus
      <4>2. x = WakerReady(w, c, TRUE)
        BY <2>5, <3>1
      <4>3. Core(x, {c}) /\ SameBlocked(x, w)
        BY <4>1, <4>2, Waker
      <4>4. QED
        BY <3>1, <4>3 DEF SameBlocked
    <3>2. CASE reschedule = FALSE
      BY <2>4, <2>5, <3>2 DEF WakerReady, SameCpus, SameIrqs
    <3>3. QED
      BY <3>1, <3>2
  <2>7. PICK d : Core(x, d) /\ (reschedule => d = {c}) /\ (~reschedule => d = off)
    BY <2>6
  <2>8. PICK y : y = AllReadyAtHead(x, q)
    OBVIOUS
  <2>9. AfterRounds(y, x, q, Len(q), d)
    <3>1. \A i \in 1 .. Len(q) : x.state[q[i]] = "BLOCKED"
      BY <1>1, <2>1, <2>3, <2>6 DEF Waiting, Elements
    <3>2. NoRepeats(q)
      BY <1>1, <2>1
    <3>3. QED
      BY <2>7, <2>8, <3>1, <3>2, AllReady
  <2>10. Waiting(y)
    <3>1. y.waiters = << >> /\ \A u \in Thread : y.state[u] # "BLOCKED"
      <4>1. /\ y.waiters = x.waiters
            /\ \A u \in Thread : y.state[u] = "BLOCKED" =>
                 x.state[u] = "BLOCKED" /\ \A i \in 1 .. Len(q) : q[i] # u
        BY <2>9 DEF AfterRounds
      <4>2. \A u \in Thread : s.state[u] = "BLOCKED" => \E i \in 1 .. Len(q) : q[i] = u
        BY <1>1, <2>1 DEF Waiting, Elements
      <4>3. \A u \in Thread : x.state[u] = "BLOCKED" => s.state[u] = "BLOCKED"
        BY <2>3, <2>6
      <4>4. QED
        BY <2>3, <2>6, <4>1, <4>2, <4>3
    <3>2. QED
      BY <3>1 DEF Waiting, NoRepeats, Elements
  <2>11. v = IF reschedule THEN thread_resched(mp_reschedule(y, c), c)
                           ELSE mp_reschedule(y, c)
    BY <1>3, <2>1, <2>2, <2>5, <2>8, Zenon DEF wait_queue_wake_all, WithWaiters
  <2>12. /\ Consistent(v, off) /\ SameIrqs(v, y)
         /\ reschedule => (v.current[c] = Idle => Runnable(v, c) = {})
         /\ ~reschedule => SameCpus(v, y)
    <3>1. Core(y, d)
      BY <2>9 DEF AfterRounds
    <3>2. QED
      BY <2>7, <2>10, <2>11, <3>1, WakeEnd
  <2>13. QED
    <3>1. SameIrqs(y, x) /\ SameCpus(y, x)
      BY <2>9 DEF AfterRounds
    <3>2. SameIrqs(v, s)
      BY <2>3, <2>6, <2>12, <3>1 DEF SameIrqs
    <3>3. SameCpus(y, s)
      BY <2>3, <2>6, <3>1 DEF SameCpus
    <3>4. ~reschedule => SameCpus(v, s)
      BY <2>12, <3>3 DEF SameCpus
    <3>5. QED
      BY <2>12, <3>2, <3>4
<1>4. QED
  BY <1>2, <1>3

-----------------------------------------------------------------------------
\* The actions.

\* CPU c idles only if it has nothing to do, or is about to reschedule.
Settled(s, c) == s.current[c] = Idle /\ c \notin s.resched => Runnable(s, c) = {}

WithYielding(s, d) == [s EXCEPT !.yielding = d]
WithPriority(s, f) == [s EXCEPT !.priority = f]
WithResched(s, d) == [s EXCEPT !.resched = d]
WithRealTime(s, d) == [s EXCEPT !.realtime = d]

\* Replacing the set of those that still have to yield replaces nothing else.
LEMMA SetYielding ==
  ASSUME NEW s \in KernelState, NEW d \in SUBSET Thread, NEW v, v = WithYielding(s, d)
  PROVE  /\ v \in KernelState
         /\ SameThreads(v, s) /\ SameQueues(v, s) /\ SameCpus(v, s) /\ SameIrqs(v, s)
BY DEF KernelState, WithYielding, SameThreads, SameQueues, SameCpus, SameIrqs

\* v and s differ at most in the priorities.
ButPriority(v, s) ==
    /\ v.state = s.state /\ v.waiters = s.waiters /\ v.timerCpu = s.timerCpu
    /\ SameQueues(v, s) /\ SameCpus(v, s) /\ SameIrqs(v, s)

\* Replacing the priorities replaces nothing else.
LEMMA SetPriority ==
  ASSUME NEW s \in KernelState, NEW f \in [Thread -> Priority], NEW v, v = WithPriority(s, f)
  PROVE  /\ v \in KernelState
         /\ v.priority = f
         /\ ButPriority(v, s)
BY DEF ButPriority, KernelState, WithPriority, SameQueues, SameCpus, SameIrqs

\* Replacing the set of CPUs that are to reschedule replaces nothing else.
LEMMA SetResched ==
  ASSUME NEW s \in KernelState, NEW d \in SUBSET Cpu, NEW v, v = WithResched(s, d)
  PROVE  /\ v \in KernelState
         /\ v.resched = d
         /\ SameThreads(v, s) /\ SameQueues(v, s) /\ SameCpus(v, s)
BY DEF KernelState, WithResched, SameThreads, SameQueues, SameCpus

\* v and s differ at most in the real-time threads.
ButRealTime(v, s) ==
    /\ v.current = s.current /\ v.idle_cpus = s.idle_cpus
    /\ v.preempt_timer = s.preempt_timer /\ v.panicked = s.panicked
    /\ SameThreads(v, s) /\ SameQueues(v, s) /\ SameIrqs(v, s)

\* Replacing the set of real time threads replaces nothing else.
LEMMA SetRealTime ==
  ASSUME NEW s \in KernelState, NEW d \in SUBSET Thread, NEW v, v = WithRealTime(s, d)
  PROVE  /\ v \in KernelState
         /\ v.realtime = d
         /\ ButRealTime(v, s)
BY DEF ButRealTime, KernelState, WithRealTime, SameThreads, SameQueues, SameIrqs

\* What is no part of the invariant may change.
LEMMA SameConsistent ==
  ASSUME NEW s, NEW off, Consistent(s, off), NEW v \in KernelState,
         SameThreads(v, s), SameQueues(v, s), SameCpus(v, s)
  PROVE  Consistent(v, off)
<1>1. Core(v, off)
  BY SameCore DEF Consistent, SameThreads
<1>2. Waiting(v)
  BY DEF Consistent, Waiting, SameThreads
<1>3. QED
  BY <1>1, <1>2 DEF Consistent

\* An action that ends in thread_resched() restores the invariant.
LEMMA ReschedEnd ==
  ASSUME NEW s, NEW c \in Cpu, Consistent(s, {c}), NEW v, v = thread_resched(s, c)
  PROVE  Consistent(v, {}) /\ Settled(v, c)
<1>1. /\ Core(v, {})
      /\ v.waiters = s.waiters
      /\ \A t \in Thread : v.state[t] = "BLOCKED" <=> s.state[t] = "BLOCKED"
      /\ v.current[c] = Idle => Runnable(v, c) = {}
  BY Resched DEF Consistent
<1>2. Waiting(v)
  BY <1>1 DEF Waiting, Consistent
<1>3. QED
  BY <1>1, <1>2 DEF Consistent, Settled

\* The thread of CPU c goes back to the run queues and reschedules.
LEMMA RequeueEnd ==
  ASSUME NEW s, Consistent(s, {}), NEW c \in Cpu,
         NEW t \in Thread, s.current[c] = t,
         NEW y \in KernelState, MadeReady(y, s, t), y.waiters = s.waiters,
         NEW z, Inserted(z, y, t),
         NEW v, v = thread_resched(z, c)
  PROVE  Consistent(v, {}) /\ Settled(v, c)
<1>1. Core(s, {}) /\ Waiting(s)
  BY DEF Consistent
<1>2. Core(z, {c}) /\ z.state = y.state /\ z.waiters = y.waiters
  <2>1. Requeued(z, y, s, c)
    BY <1>1, Requeue
  <2>2. QED
    BY <2>1 DEF Requeued
<1>3. Waiting(z)
  <2>1. /\ s.current[c] # Idle
        /\ s.state \in [Thread -> {"SUSPENDED", "READY", "RUNNING", "BLOCKED",
                                   "SLEEPING", "DEATH"}]
    BY <1>1, SchedAssumption DEF Core, KernelState
  <2>2. s.state[t] = "RUNNING"
    BY <1>1 DEF Core, Cpus
  <2>3. \A u \in Thread : z.state[u] = "BLOCKED" <=> s.state[u] = "BLOCKED"
    <3>1. z.state = [s.state EXCEPT ![t] = "READY"]
      BY <1>2 DEF MadeReady
    <3>2. QED
      BY <2>1, <2>2, <3>1
  <2>4. z.waiters = s.waiters
    BY <1>2
  <2>5. QED
    BY <1>1, <2>3, <2>4 DEF Waiting
<1>4. Consistent(z, {c})
  BY <1>2, <1>3 DEF Consistent
<1>5. QED
  BY <1>4, ReschedEnd

\* thread_yield() keeps the invariant.
LEMMA YieldStep ==
  ASSUME IInv, NEW c \in Cpu, thread_yield(c)
  PROVE  IInv' /\ Settled(k', c)
<1>1. k \in KernelState /\ Core(k, {})
  BY DEF IInv, Consistent, Core
<1>2. PICK t : t = k.current[c]
  OBVIOUS
<1>3. t \in Thread
  BY <1>1, <1>2, CurrentThread DEF thread_yield, Running
<1>4. PICK f : f = [k.state EXCEPT ![t] = "READY"]
  OBVIOUS
<1>5. PICK g : g = [k.quantum EXCEPT ![t] = 0]
  OBVIOUS
<1>6. PICK d : d = k.yielding \ {t}
  OBVIOUS
<1>7. /\ f \in [Thread -> {"SUSPENDED", "READY", "RUNNING", "BLOCKED", "SLEEPING", "DEATH"}]
      /\ g \in [Thread -> 0 .. QUANTUM]
      /\ d \in SUBSET Thread
  <2>1. /\ k.state \in [Thread -> {"SUSPENDED", "READY", "RUNNING", "BLOCKED", "SLEEPING",
                                   "DEATH"}]
        /\ k.quantum \in [Thread -> 0 .. QUANTUM]
        /\ k.yielding \in SUBSET Thread
    BY <1>1 DEF KernelState
  <2>2. 0 \in 0 .. QUANTUM
    BY SchedAssumption
  <2>3. QED
    BY <1>4, <1>5, <1>6, <2>1, <2>2
<1>8. PICK x : x = WithState(k, f)
  OBVIOUS
<1>9. PICK w : w = WithQuantum(x, g)
  OBVIOUS
<1>10. PICK y : y = WithYielding(w, d)
  OBVIOUS
<1>11. /\ x \in KernelState /\ x.state = f
       /\ x.priority = k.priority /\ x.waiters = k.waiters /\ x.timerCpu = k.timerCpu
       /\ SameQueues(x, k) /\ SameCpus(x, k) /\ SameIrqs(x, k)
  <2>1. x \in KernelState /\ x.state = f /\ ButState(x, k)
    BY <1>1, <1>7, <1>8, SetState
  <2>2. QED
    BY <2>1 DEF ButState
<1>12. /\ w \in KernelState
       /\ SameThreads(w, x) /\ SameQueues(w, x) /\ SameCpus(w, x) /\ SameIrqs(w, x)
  BY <1>7, <1>9, <1>11, SetQuantum
<1>13. /\ y \in KernelState
       /\ SameThreads(y, w) /\ SameQueues(y, w) /\ SameCpus(y, w) /\ SameIrqs(y, w)
  BY <1>7, <1>10, <1>12, SetYielding
<1>14. PICK z : z = insert_in_run_queue_tail(y, t)
  OBVIOUS
<1>15. k' = thread_resched(z, c)
  BY <1>2, <1>4, <1>5, <1>6, <1>8, <1>9, <1>10, <1>14, Zenon
     DEF thread_yield, WithState, WithQuantum, WithYielding
<1>16. MadeReady(y, k, t) /\ y.waiters = k.waiters
  <2>1. /\ SameQueues(y, k) /\ SameCpus(y, k)
        /\ y.state = [k.state EXCEPT ![t] = "READY"]
        /\ y.timerCpu = k.timerCpu /\ y.waiters = k.waiters
        /\ \A u \in Thread \ {t} : y.priority[u] = k.priority[u]
    BY <1>4, <1>11, <1>12, <1>13 DEF SameThreads, SameQueues, SameCpus
  <2>2. QED
    BY <2>1 DEF MadeReady
<1>17. k.current[c] = t /\ Consistent(k, {})
  BY <1>2 DEF IInv
<1>18. PICK v : v = k'
  OBVIOUS
<1>19. Consistent(v, {}) /\ Settled(v, c)
  <2>1. v = thread_resched(z, c)
    BY <1>15, <1>18
  <2>2. QED
    <3>1. Inserted(z, y, t)
      BY <1>14 DEF Inserted
    <3>2. QED
      BY <1>3, <1>13, <1>16, <1>17, <2>1, <3>1, RequeueEnd
<1>20. QED
  BY <1>18, <1>19 DEF IInv

\* thread_set_priority() keeps the invariant: the caller is queued under its new
\* priority.
LEMMA SetPriorityStep ==
  ASSUME IInv, NEW c \in Cpu, NEW p \in Priority, thread_set_priority(c, p)
  PROVE  IInv' /\ Settled(k', c)
<1>1. k \in KernelState /\ Core(k, {})
  BY DEF IInv, Consistent, Core
<1>2. PICK t : t = k.current[c]
  OBVIOUS
<1>3. t \in Thread
  BY <1>1, <1>2, CurrentThread DEF thread_set_priority, Free, Running
<1>4. PICK f : f = [k.state EXCEPT ![t] = "READY"]
  OBVIOUS
<1>5. PICK g : g = [k.priority EXCEPT ![t] = p]
  OBVIOUS
<1>6. /\ f \in [Thread -> {"SUSPENDED", "READY", "RUNNING", "BLOCKED", "SLEEPING", "DEATH"}]
      /\ g \in [Thread -> Priority]
      /\ \A u \in Thread \ {t} : g[u] = k.priority[u]
  <2>1. /\ k.state \in [Thread -> {"SUSPENDED", "READY", "RUNNING", "BLOCKED", "SLEEPING",
                                   "DEATH"}]
        /\ k.priority \in [Thread -> Priority]
    BY <1>1 DEF KernelState
  <2>2. QED
    BY <1>4, <1>5, <2>1
<1>7. PICK x : x = WithState(k, f)
  OBVIOUS
<1>8. PICK y : y = WithPriority(x, g)
  OBVIOUS
<1>9. /\ x \in KernelState /\ x.state = f
      /\ x.priority = k.priority /\ x.waiters = k.waiters /\ x.timerCpu = k.timerCpu
      /\ SameQueues(x, k) /\ SameCpus(x, k) /\ SameIrqs(x, k)
  <2>1. x \in KernelState /\ x.state = f /\ ButState(x, k)
    BY <1>1, <1>6, <1>7, SetState
  <2>2. QED
    BY <2>1 DEF ButState
<1>10. /\ y \in KernelState /\ y.priority = g
       /\ y.state = x.state /\ y.waiters = x.waiters /\ y.timerCpu = x.timerCpu
       /\ SameQueues(y, x) /\ SameCpus(y, x) /\ SameIrqs(y, x)
  <2>1. y \in KernelState /\ y.priority = g /\ ButPriority(y, x)
    BY <1>6, <1>8, <1>9, SetPriority
  <2>2. QED
    BY <2>1 DEF ButPriority
<1>11. PICK z : z = insert_in_run_queue_head(y, t)
  OBVIOUS
<1>12. k' = thread_resched(z, c)
  BY <1>2, <1>4, <1>5, <1>7, <1>8, <1>11, Zenon
     DEF thread_set_priority, WithState, WithPriority
<1>13. MadeReady(y, k, t) /\ y.waiters = k.waiters
  <2>1. /\ SameQueues(y, k) /\ SameCpus(y, k)
        /\ y.state = [k.state EXCEPT ![t] = "READY"]
        /\ y.timerCpu = k.timerCpu /\ y.waiters = k.waiters
        /\ \A u \in Thread \ {t} : y.priority[u] = k.priority[u]
    BY <1>4, <1>6, <1>9, <1>10 DEF SameQueues, SameCpus
  <2>2. QED
    BY <2>1 DEF MadeReady
<1>14. k.current[c] = t /\ Consistent(k, {})
  BY <1>2 DEF IInv
<1>15. PICK v : v = k'
  OBVIOUS
<1>16. Consistent(v, {}) /\ Settled(v, c)
  <2>1. v = thread_resched(z, c)
    BY <1>12, <1>15
  <2>2. QED
    <3>1. Inserted(z, y, t)
      BY <1>11 DEF Inserted
    <3>2. QED
      BY <1>3, <1>10, <1>13, <1>14, <2>1, <3>1, RequeueEnd
<1>17. QED
  BY <1>15, <1>16 DEF IInv

\* thread_preempt() keeps the invariant.
LEMMA PreemptStep ==
  ASSUME IInv, NEW c \in Cpu, thread_preempt(c)
  PROVE  IInv' /\ Settled(k', c)
<1>1. k \in KernelState /\ Core(k, {}) /\ Consistent(k, {})
  BY DEF IInv, Consistent, Core
<1>2. PICK t : t = k.current[c]
  OBVIOUS
<1>3. PICK d : d = k.resched \ {c}
  OBVIOUS
<1>4. d \in SUBSET Cpu
  BY <1>1, <1>3 DEF KernelState
<1>5. PICK s : s = WithResched(k, d)
  OBVIOUS
<1>6. /\ s \in KernelState
      /\ SameThreads(s, k) /\ SameQueues(s, k) /\ SameCpus(s, k)
  BY <1>1, <1>4, <1>5, SetResched
<1>7. Consistent(s, {}) /\ Core(s, {})
  BY <1>1, <1>6, SameConsistent DEF Consistent
<1>8. s.current[c] = t
  BY <1>2, <1>6 DEF SameCpus
<1>9. PICK v : v = k'
  OBVIOUS
<1>10. CASE t = Idle
  <2>1. v = thread_resched(s, c)
    BY <1>2, <1>3, <1>5, <1>9, <1>10, Zenon DEF thread_preempt, WithResched
  <2>2. Consistent(s, {c})
    <3>1. Cpus(s, {c})
      <4>1. Cpus(s, {})
        BY <1>7 DEF Core
      <4>2. s.current[c] = Idle
        BY <1>8, <1>10
      <4>3. QED
        BY <4>1, <4>2, IdleCpuOff
    <3>2. QED
      BY <1>7, <3>1 DEF Consistent, Core
  <2>3. Consistent(v, {}) /\ Settled(v, c)
    BY <2>1, <2>2, ReschedEnd
  <2>4. QED
    BY <1>9, <2>3 DEF IInv
<1>11. CASE t # Idle
  <2>1. t \in Thread
    BY <1>7, <1>8, <1>11, CurrentThread
  <2>2. PICK f : f = [s.state EXCEPT ![t] = "READY"]
    OBVIOUS
  <2>3. f \in [Thread -> {"SUSPENDED", "READY", "RUNNING", "BLOCKED", "SLEEPING", "DEATH"}]
    BY <1>6, <2>2 DEF KernelState
  <2>4. PICK y : y = WithState(s, f)
    OBVIOUS
  <2>5. /\ y \in KernelState /\ y.state = f
        /\ y.priority = s.priority /\ y.waiters = s.waiters /\ y.timerCpu = s.timerCpu
        /\ SameQueues(y, s) /\ SameCpus(y, s) /\ SameIrqs(y, s)
    <3>1. y \in KernelState /\ y.state = f /\ ButState(y, s)
      BY <1>6, <2>3, <2>4, SetState
    <3>2. QED
      BY <3>1 DEF ButState
  <2>6. PICK z : /\ z = insert_in_run_queue_head(y, t) \/ z = insert_in_run_queue_tail(y, t)
                 /\ v = thread_resched(z, c)
    BY <1>2, <1>3, <1>5, <1>9, <1>11, <2>2, <2>4, Zenon
       DEF thread_preempt, WithResched, WithState
  <2>7. MadeReady(y, s, t) /\ y.waiters = s.waiters /\ y \in KernelState
    BY <2>2, <2>5 DEF MadeReady
  <2>8. Consistent(v, {}) /\ Settled(v, c)
    <3>1. Inserted(z, y, t)
      BY <2>6 DEF Inserted
    <3>2. QED
      BY <1>7, <1>8, <2>1, <2>6, <2>7, <3>1, RequeueEnd
  <2>9. QED
    BY <1>9, <2>8 DEF IInv
<1>12. QED
  BY <1>10, <1>11

\* wait_queue_block() keeps the invariant.
LEMMA BlockStep ==
  ASSUME IInv, NEW c \in Cpu, NEW timed \in BOOLEAN, wait_queue_block(c, timed)
  PROVE  IInv' /\ Settled(k', c)
<1>1. k \in KernelState /\ Core(k, {}) /\ Waiting(k)
  BY DEF IInv, Consistent, Core
<1>2. PICK t : t = k.current[c]
  OBVIOUS
<1>3. t \in Thread /\ k.state[t] = "RUNNING"
  BY <1>1, <1>2, CurrentThread DEF wait_queue_block, Free, Running
<1>4. /\ k.state \in [Thread -> {"SUSPENDED", "READY", "RUNNING", "BLOCKED", "SLEEPING",
                                 "DEATH"}]
      /\ k.timerCpu \in [Thread -> Cpu \union {NoCpu}]
      /\ k.waiters \in Seq(Thread)
  BY <1>1 DEF KernelState
<1>5. PICK f : f = [k.state EXCEPT ![t] = "BLOCKED"]
  OBVIOUS
<1>6. PICK q : q = Append(k.waiters, t)
  OBVIOUS
<1>7. PICK g : g = [k.timerCpu EXCEPT ![t] = IF timed THEN c ELSE NoCpu]
  OBVIOUS
<1>8. /\ f \in [Thread -> {"SUSPENDED", "READY", "RUNNING", "BLOCKED", "SLEEPING", "DEATH"}]
      /\ g \in [Thread -> Cpu \union {NoCpu}]
      /\ \A u \in Thread \ {t} : g[u] = k.timerCpu[u]
  BY <1>4, <1>5, <1>7
<1>9. /\ q \in Seq(Thread) /\ NoRepeats(q)
      /\ Elements(q) = Elements(k.waiters) \union {t}
  <2>1. NoRepeats(k.waiters) /\ t \notin Elements(k.waiters)
    BY <1>1, <1>3 DEF Waiting
  <2>2. QED
    BY <1>3, <1>4, <1>6, <2>1, AddTail
<1>10. PICK x : x = WithState(k, f)
  OBVIOUS
<1>11. PICK w : w = WithWaiters(x, q)
  OBVIOUS
<1>12. PICK y : y = WithTimerCpu(w, g)
  OBVIOUS
<1>13. /\ x \in KernelState /\ x.state = f
       /\ x.priority = k.priority /\ x.waiters = k.waiters /\ x.timerCpu = k.timerCpu
       /\ SameQueues(x, k) /\ SameCpus(x, k) /\ SameIrqs(x, k)
  <2>1. x \in KernelState /\ x.state = f /\ ButState(x, k)
    BY <1>1, <1>8, <1>10, SetState
  <2>2. QED
    BY <2>1 DEF ButState
<1>14. /\ w \in KernelState /\ w.waiters = q
       /\ w.state = x.state /\ w.priority = x.priority /\ w.timerCpu = x.timerCpu
       /\ SameQueues(w, x) /\ SameCpus(w, x) /\ SameIrqs(w, x)
  <2>1. w \in KernelState /\ w.waiters = q /\ ButWaiters(w, x)
    BY <1>9, <1>11, <1>13, SetWaiters
  <2>2. QED
    BY <2>1 DEF ButWaiters
<1>15. /\ y \in KernelState /\ y.timerCpu = g
       /\ y.state = w.state /\ y.priority = w.priority /\ y.waiters = w.waiters
       /\ SameQueues(y, w) /\ SameCpus(y, w) /\ SameIrqs(y, w)
  <2>1. y \in KernelState /\ y.timerCpu = g /\ ButTimerCpu(y, w)
    BY <1>8, <1>12, <1>14, SetTimerCpu
  <2>2. QED
    BY <2>1 DEF ButTimerCpu
<1>16. /\ SameQueues(y, k) /\ SameCpus(y, k) /\ y.priority = k.priority
       /\ y.state = [k.state EXCEPT ![t] = "BLOCKED"]
       /\ \A u \in Thread \ {t} : y.timerCpu[u] = k.timerCpu[u]
  BY <1>5, <1>8, <1>13, <1>14, <1>15 DEF SameQueues, SameCpus
<1>17. Core(y, {c})
  <2>1. /\ k.current[c] = t /\ y.state[t] = "BLOCKED"
        /\ SameQueues(y, k) /\ SameCpus(y, k) /\ y.priority = k.priority
        /\ \A u \in Thread \ {t} :
             y.state[u] = k.state[u] /\ y.timerCpu[u] = k.timerCpu[u]
    BY <1>2, <1>3, <1>4, <1>16
  <2>2. QED
    BY <1>1, <1>3, <1>15, <2>1, Leave
<1>18. Waiting(y)
  <2>1. \A u \in Thread : y.state[u] = "BLOCKED" <=> k.state[u] = "BLOCKED" \/ u = t
    BY <1>4, <1>16
  <2>2. y.waiters = q
    BY <1>14, <1>15
  <2>3. QED
    BY <1>1, <1>3, <1>9, <2>1, <2>2 DEF Waiting
<1>19. PICK v : v = k'
  OBVIOUS
<1>20. v = thread_resched(y, c)
  BY <1>2, <1>5, <1>6, <1>7, <1>10, <1>11, <1>12, <1>19, Zenon
     DEF wait_queue_block, WithState, WithWaiters, WithTimerCpu
<1>21. Consistent(v, {}) /\ Settled(v, c)
  BY <1>17, <1>18, <1>20, ReschedEnd DEF Consistent
<1>22. QED
  BY <1>19, <1>21 DEF IInv

\* thread_sleep() keeps the invariant.
LEMMA SleepStep ==
  ASSUME IInv, NEW c \in Cpu, thread_sleep(c)
  PROVE  IInv' /\ Settled(k', c)
<1>1. k \in KernelState /\ Core(k, {}) /\ Waiting(k)
  BY DEF IInv, Consistent, Core
<1>2. PICK t : t = k.current[c]
  OBVIOUS
<1>3. t \in Thread /\ k.state[t] = "RUNNING"
  BY <1>1, <1>2, CurrentThread DEF thread_sleep, Free, Running
<1>4. /\ k.state \in [Thread -> {"SUSPENDED", "READY", "RUNNING", "BLOCKED", "SLEEPING",
                                 "DEATH"}]
      /\ k.timerCpu \in [Thread -> Cpu \union {NoCpu}]
  BY <1>1 DEF KernelState
<1>5. PICK f : f = [k.state EXCEPT ![t] = "SLEEPING"]
  OBVIOUS
<1>6. PICK g : g = [k.timerCpu EXCEPT ![t] = c]
  OBVIOUS
<1>7. /\ f \in [Thread -> {"SUSPENDED", "READY", "RUNNING", "BLOCKED", "SLEEPING", "DEATH"}]
      /\ f[t] = "SLEEPING" /\ \A u \in Thread \ {t} : f[u] = k.state[u]
  BY <1>3, <1>4, <1>5
<1>8. /\ g \in [Thread -> Cpu \union {NoCpu}]
      /\ g[t] = c /\ \A u \in Thread \ {t} : g[u] = k.timerCpu[u]
  BY <1>3, <1>4, <1>6
<1>9. PICK x : x = WithState(k, f)
  OBVIOUS
<1>10. PICK y : y = WithTimerCpu(x, g)
  OBVIOUS
<1>11. /\ x \in KernelState /\ x.state = f
       /\ x.priority = k.priority /\ x.waiters = k.waiters /\ x.timerCpu = k.timerCpu
       /\ SameQueues(x, k) /\ SameCpus(x, k) /\ SameIrqs(x, k)
  <2>1. x \in KernelState /\ x.state = f /\ ButState(x, k)
    BY <1>1, <1>7, <1>9, SetState
  <2>2. QED
    BY <2>1 DEF ButState
<1>12. /\ y \in KernelState /\ y.timerCpu = g
       /\ y.state = x.state /\ y.priority = x.priority /\ y.waiters = x.waiters
       /\ SameQueues(y, x) /\ SameCpus(y, x) /\ SameIrqs(y, x)
  <2>1. y \in KernelState /\ y.timerCpu = g /\ ButTimerCpu(y, x)
    BY <1>8, <1>10, <1>11, SetTimerCpu
  <2>2. QED
    BY <2>1 DEF ButTimerCpu
<1>13. /\ SameQueues(y, k) /\ SameCpus(y, k)
       /\ y.priority = k.priority /\ y.waiters = k.waiters
       /\ y.state[t] = "SLEEPING" /\ y.timerCpu[t] \in Cpu
       /\ \A u \in Thread \ {t} :
            y.state[u] = k.state[u] /\ y.timerCpu[u] = k.timerCpu[u]
  BY <1>7, <1>8, <1>11, <1>12 DEF SameQueues, SameCpus
<1>14. Core(y, {c})
  <2>1. k.current[c] = t
    BY <1>2
  <2>2. QED
    BY <1>1, <1>3, <1>12, <1>13, <2>1, Leave
<1>15. Waiting(y)
  <2>1. \A u \in Thread : y.state[u] = "BLOCKED" <=> k.state[u] = "BLOCKED"
    BY <1>3, <1>13
  <2>2. QED
    BY <1>1, <1>13, <2>1 DEF Waiting
<1>16. PICK v : v = k'
  OBVIOUS
<1>17. v = thread_resched(y, c)
  BY <1>2, <1>5, <1>6, <1>9, <1>10, <1>16, Zenon DEF thread_sleep, WithState, WithTimerCpu
<1>18. Consistent(v, {}) /\ Settled(v, c)
  BY <1>14, <1>15, <1>17, ReschedEnd DEF Consistent
<1>19. QED
  BY <1>16, <1>18 DEF IInv

\* thread_exit() keeps the invariant.
LEMMA ExitStep ==
  ASSUME IInv, NEW c \in Cpu, NEW detached \in BOOLEAN, thread_exit(c, detached)
  PROVE  IInv' /\ Settled(k', c)
<1>1. k \in KernelState /\ Core(k, {}) /\ Waiting(k)
  BY DEF IInv, Consistent, Core
<1>2. PICK t : t = k.current[c]
  OBVIOUS
<1>3. t \in Thread /\ k.state[t] = "RUNNING"
  BY <1>1, <1>2, CurrentThread DEF thread_exit, Free, Running
<1>4. PICK f : f = [k.state EXCEPT ![t] = "DEATH"]
  OBVIOUS
<1>5. /\ f \in [Thread -> {"SUSPENDED", "READY", "RUNNING", "BLOCKED", "SLEEPING", "DEATH"}]
      /\ f[t] = "DEATH" /\ \A u \in Thread \ {t} : f[u] = k.state[u]
  BY <1>1, <1>3, <1>4 DEF KernelState
<1>6. PICK y : y = WithState(k, f)
  OBVIOUS
<1>7. /\ y \in KernelState /\ y.state = f
      /\ y.priority = k.priority /\ y.waiters = k.waiters /\ y.timerCpu = k.timerCpu
      /\ SameQueues(y, k) /\ SameCpus(y, k) /\ SameIrqs(y, k)
  <2>1. y \in KernelState /\ y.state = f /\ ButState(y, k)
    BY <1>1, <1>5, <1>6, SetState
  <2>2. QED
    BY <2>1 DEF ButState
<1>8. Core(y, {c})
  <2>1. /\ k.current[c] = t
        /\ y.state[t] = "DEATH"
        /\ \A u \in Thread \ {t} :
             y.state[u] = k.state[u] /\ y.timerCpu[u] = k.timerCpu[u]
    BY <1>2, <1>5, <1>7
  <2>2. QED
    BY <1>1, <1>3, <1>7, <2>1, Leave
<1>9. Waiting(y)
  <2>1. \A u \in Thread : y.state[u] = "BLOCKED" <=> k.state[u] = "BLOCKED"
    BY <1>3, <1>5, <1>7
  <2>2. QED
    BY <1>1, <1>7, <2>1 DEF Waiting
<1>10. PICK z : z = IF detached THEN y ELSE wait_queue_wake_all(y, c, FALSE)
  OBVIOUS
<1>11. Consistent(z, {c})
  <2>1. Consistent(y, {c})
    BY <1>8, <1>9 DEF Consistent
  <2>2. CASE detached
    BY <1>10, <2>1, <2>2
  <2>3. CASE ~detached
    <3>1. PICK r \in BOOLEAN : r = FALSE
      OBVIOUS
    <3>2. z = wait_queue_wake_all(y, c, r)
      BY <1>10, <2>3, <3>1
    <3>3. QED
      BY <2>1, <3>1, <3>2, WakeAll
  <2>4. QED
    BY <2>2, <2>3
<1>12. PICK v : v = k'
  OBVIOUS
<1>13. v = thread_resched(z, c)
  BY <1>2, <1>4, <1>6, <1>10, <1>12, Zenon DEF thread_exit, WithState
<1>14. Consistent(v, {}) /\ Settled(v, c)
  BY <1>11, <1>13, ReschedEnd
<1>15. QED
  BY <1>12, <1>14 DEF IInv

\* thread_resume() keeps the invariant.
LEMMA ResumeStep ==
  ASSUME IInv, NEW c \in Cpu, NEW t \in Thread, thread_resume(c, t)
  PROVE  IInv' /\ Settled(k', c)
<1>1. k \in KernelState /\ Core(k, {}) /\ Waiting(k)
  BY DEF IInv, Consistent, Core
<1>2. k.state[t] = "SUSPENDED" /\ k.current[c] # Idle
  BY DEF thread_resume, Free, Running
<1>3. PICK x : x = ReadyAtHead(k, t)
  OBVIOUS
<1>4. /\ Core(x, {})
      /\ x.state = [k.state EXCEPT ![t] = "READY"]
      /\ x.waiters = k.waiters
      /\ SameCpus(x, k) /\ SameIrqs(x, k)
  <2>1. k.state[t] # "READY" /\ k.state[t] # "RUNNING"
    BY <1>2
  <2>2. QED
    BY <1>1, <1>3, <2>1, Wake
<1>5. Waiting(x)
  <2>1. k.state \in [Thread -> {"SUSPENDED", "READY", "RUNNING", "BLOCKED", "SLEEPING",
                                "DEATH"}]
    BY <1>1 DEF KernelState
  <2>2. \A u \in Thread : x.state[u] = "BLOCKED" <=> k.state[u] = "BLOCKED"
    BY <1>2, <1>4, <2>1
  <2>3. QED
    BY <1>1, <1>4, <2>2 DEF Waiting
<1>6. PICK y : y = mp_reschedule(x, c)
  OBVIOUS
<1>7. /\ y \in KernelState
      /\ SameThreads(y, x) /\ SameQueues(y, x) /\ SameCpus(y, x) /\ SameIrqs(y, x)
  BY <1>4, <1>6, MpReschedule DEF Core
<1>8. PICK d : d = y.yielding \union {k.current[c]}
  OBVIOUS
<1>9. d \in SUBSET Thread
  <2>1. y.yielding \in SUBSET Thread /\ k.current \in [Cpu -> Thread \union {Idle}]
    BY <1>1, <1>7 DEF KernelState
  <2>2. QED
    BY <1>2, <1>8, <2>1
<1>10. PICK v : v = k'
  OBVIOUS
<1>11. v = WithYielding(y, d)
  BY <1>3, <1>6, <1>8, <1>10, Zenon DEF thread_resume, WithYielding
<1>12. /\ v \in KernelState
       /\ SameThreads(v, y) /\ SameQueues(v, y) /\ SameCpus(v, y) /\ SameIrqs(v, y)
  BY <1>7, <1>9, <1>11, SetYielding
<1>13. Consistent(v, {})
  <2>1. Consistent(x, {})
    BY <1>4, <1>5 DEF Consistent
  <2>2. SameThreads(v, x) /\ SameQueues(v, x) /\ SameCpus(v, x)
    BY <1>7, <1>12 DEF SameThreads, SameQueues, SameCpus
  <2>3. QED
    BY <1>12, <2>1, <2>2, SameConsistent
<1>14. Settled(v, c)
  BY <1>2, <1>4, <1>7, <1>12 DEF Settled, SameCpus
<1>15. QED
  BY <1>10, <1>13, <1>14 DEF IInv

\* A wake by a thread keeps the invariant.
LEMMA WakesStep ==
  ASSUME IInv, NEW c \in Cpu, NEW reschedule \in BOOLEAN, Wakes(c, reschedule)
  PROVE  IInv' /\ Settled(k', c)
<1>1. Consistent(k, {}) /\ k.current[c] # Idle /\ k.waiters # << >>
  BY DEF IInv, Wakes, Free, Running
<1>2. PICK v : v = k'
  OBVIOUS
<1>3. \/ v = wait_queue_wake_one(k, c, reschedule)
      \/ v = wait_queue_wake_all(k, c, reschedule)
  BY <1>2 DEF Wakes
<1>4. /\ Consistent(v, {})
      /\ reschedule => (v.current[c] = Idle => Runnable(v, c) = {})
      /\ ~reschedule => SameCpus(v, k)
  BY <1>1, <1>3, WakeOne, WakeAll
<1>5. Settled(v, c)
  BY <1>1, <1>4 DEF Settled, SameCpus
<1>6. QED
  BY <1>2, <1>4, <1>5 DEF IInv

\* A wake by an interrupt handler keeps the invariant.
LEMMA IrqWakesStep ==
  ASSUME IInv, NEW c \in Cpu, IrqWakes(c)
  PROVE  IInv' /\ Settled(k', c)
<1>1. Consistent(k, {}) /\ k.waiters # << >>
  BY DEF IInv, IrqWakes
<1>2. PICK r \in BOOLEAN : r = FALSE
  OBVIOUS
<1>3. PICK w : /\ w = wait_queue_wake_one(k, c, r) \/ w = wait_queue_wake_all(k, c, r)
               /\ k' = [w EXCEPT !.resched = w.resched \union {c}]
  BY <1>2, Zenon DEF IrqWakes
<1>4. Consistent(w, {})
  BY <1>1, <1>2, <1>3, WakeOne, WakeAll
<1>5. PICK d : d = w.resched \union {c}
  OBVIOUS
<1>6. w \in KernelState /\ d \in SUBSET Cpu
  BY <1>4, <1>5 DEF Consistent, Core, KernelState
<1>7. PICK v : v = k'
  OBVIOUS
<1>8. v = WithResched(w, d)
  BY <1>3, <1>5, <1>7, Zenon DEF WithResched
<1>9. /\ v \in KernelState /\ v.resched = d
      /\ SameThreads(v, w) /\ SameQueues(v, w) /\ SameCpus(v, w)
  BY <1>6, <1>8, SetResched
<1>10. Consistent(v, {})
  BY <1>4, <1>9, SameConsistent
<1>11. Settled(v, c)
  BY <1>5, <1>9 DEF Settled
<1>12. QED
  BY <1>7, <1>10, <1>11 DEF IInv

\* A thread that the timer of CPU c wakes becomes READY, and c is to reschedule.
LEMMA TimerWake ==
  ASSUME NEW s, Core(s, {}), NEW t \in Thread, NEW c \in Cpu,
         s.state[t] = "SLEEPING" \/ s.state[t] = "BLOCKED",
         NoRepeats(s.waiters), Elements(s.waiters) =
            {u \in Thread : s.state[u] = "BLOCKED" /\ u # t},
         NEW w, w = ReadyAtHead(s, t) \/ w = mp_reschedule(ReadyAtHead(s, t), c),
         NEW v, v = [w EXCEPT !.resched = w.resched \union {c}]
  PROVE  Consistent(v, {}) /\ Settled(v, c)
<1>1. PICK x : x = ReadyAtHead(s, t)
  OBVIOUS
<1>2. /\ Core(x, {})
      /\ x.state = [s.state EXCEPT ![t] = "READY"]
      /\ x.waiters = s.waiters
  <2>1. s.state[t] # "READY" /\ s.state[t] # "RUNNING"
    OBVIOUS
  <2>2. QED
    BY <1>1, <2>1, Wake
<1>3. Waiting(x)
  <2>1. s.state \in [Thread -> {"SUSPENDED", "READY", "RUNNING", "BLOCKED", "SLEEPING",
                                "DEATH"}]
    BY DEF Core, KernelState
  <2>2. \A u \in Thread : x.state[u] = "BLOCKED" <=> s.state[u] = "BLOCKED" /\ u # t
    BY <1>2, <2>1
  <2>3. QED
    BY <1>2, <2>2 DEF Waiting
<1>4. Consistent(x, {}) /\ x \in KernelState
  BY <1>2, <1>3 DEF Consistent, Core
<1>5. w = x \/ w = mp_reschedule(x, c)
  BY <1>1
<1>6. w \in KernelState /\ SameThreads(w, x) /\ SameQueues(w, x) /\ SameCpus(w, x)
  <2>1. CASE w = x
    BY <1>4, <2>1 DEF SameThreads, SameQueues, SameCpus
  <2>2. CASE w = mp_reschedule(x, c)
    BY <1>4, <2>2, MpReschedule
  <2>3. QED
    BY <1>5, <2>1, <2>2
<1>7. Consistent(w, {})
  BY <1>4, <1>6, SameConsistent
<1>8. PICK d : d = w.resched \union {c}
  OBVIOUS
<1>9. d \in SUBSET Cpu
  BY <1>6, <1>8 DEF KernelState
<1>10. v = WithResched(w, d)
  BY <1>8, Zenon DEF WithResched
<1>11. /\ v \in KernelState /\ v.resched = d
       /\ SameThreads(v, w) /\ SameQueues(v, w) /\ SameCpus(v, w)
  BY <1>6, <1>9, <1>10, SetResched
<1>12. Consistent(v, {})
  BY <1>7, <1>11, SameConsistent
<1>13. Settled(v, c)
  BY <1>8, <1>11 DEF Settled
<1>14. QED
  BY <1>12, <1>13

\* thread_sleep_handler() keeps the invariant.
LEMMA SleepHandlerStep ==
  ASSUME IInv, NEW t \in Thread, thread_sleep_handler(t)
  PROVE  IInv' /\ \E c \in Cpu : Settled(k', c)
<1>1. Core(k, {}) /\ Waiting(k) /\ k.state[t] = "SLEEPING"
  BY DEF IInv, Consistent, thread_sleep_handler
<1>2. PICK c \in Cpu : c = k.timerCpu[t]
  BY <1>1 DEF Core, Sleeping
<1>3. PICK w : w = ReadyAtHead(k, t)
  OBVIOUS
<1>4. PICK v : v = k'
  OBVIOUS
<1>5. v = [w EXCEPT !.resched = w.resched \union {c}]
  BY <1>2, <1>3, <1>4, Zenon DEF thread_sleep_handler
<1>6. NoRepeats(k.waiters) /\ Elements(k.waiters) =
        {u \in Thread : k.state[u] = "BLOCKED" /\ u # t}
  BY <1>1 DEF Waiting
<1>7. Consistent(v, {}) /\ Settled(v, c)
  BY <1>1, <1>3, <1>5, <1>6, TimerWake, Zenon
<1>8. QED
  BY <1>4, <1>7 DEF IInv

\* wait_queue_timeout_handler() keeps the invariant: the thread it takes off the
\* wait queue is there.
LEMMA TimeoutHandlerStep ==
  ASSUME IInv, NEW t \in Thread, wait_queue_timeout_handler(t)
  PROVE  IInv' /\ \E c \in Cpu : Settled(k', c)
<1>1. /\ k \in KernelState /\ Core(k, {}) /\ Waiting(k)
      /\ k.state[t] = "BLOCKED" /\ k.timerCpu[t] # NoCpu
  BY DEF IInv, Consistent, Core, wait_queue_timeout_handler
<1>2. /\ k.timerCpu \in [Thread -> Cpu \union {NoCpu}] /\ k.waiters \in Seq(Thread)
  BY <1>1 DEF KernelState
<1>3. PICK c \in Cpu : c = k.timerCpu[t]
  BY <1>1, <1>2
<1>4. PICK i : i = PositionOf(t)
  OBVIOUS
<1>5. i \in 1 .. Len(k.waiters) /\ k.waiters[i] = t
  <2>1. \E j \in 1 .. Len(k.waiters) : k.waiters[j] = t
    BY <1>1 DEF Waiting, Elements
  <2>2. QED
    BY <1>4, <2>1 DEF PositionOf
<1>6. PICK q : q = Without(k.waiters, i)
  OBVIOUS
<1>7. q \in Seq(Thread) /\ NoRepeats(q) /\ Elements(q) = Elements(k.waiters) \ {t}
  BY <1>1, <1>2, <1>5, <1>6, Delete DEF Waiting
<1>8. PICK s : s = WithWaiters(k, q)
  OBVIOUS
<1>9. /\ s \in KernelState
      /\ s.waiters = q
      /\ s.state = k.state /\ s.priority = k.priority /\ s.timerCpu = k.timerCpu
      /\ SameQueues(s, k) /\ SameCpus(s, k) /\ SameIrqs(s, k)
  <2>1. s \in KernelState /\ s.waiters = q /\ ButWaiters(s, k)
    BY <1>1, <1>7, <1>8, SetWaiters
  <2>2. QED
    BY <2>1 DEF ButWaiters
<1>10. Core(s, {})
  BY <1>1, <1>9, SameCore
<1>11. NoRepeats(s.waiters) /\ Elements(s.waiters) =
         {u \in Thread : s.state[u] = "BLOCKED" /\ u # t}
  BY <1>1, <1>7, <1>9 DEF Waiting
<1>12. PICK w : w = mp_reschedule(ReadyAtHead(s, t), c)
  OBVIOUS
<1>13. PICK v : v = k'
  OBVIOUS
<1>14. v = [w EXCEPT !.resched = w.resched \union {c}]
  BY <1>3, <1>4, <1>6, <1>8, <1>12, <1>13, Zenon
     DEF wait_queue_timeout_handler, WithWaiters
<1>15. Consistent(v, {}) /\ Settled(v, c)
  <2>1. s.state[t] = "BLOCKED"
    BY <1>1, <1>9
  <2>2. QED
    BY <1>10, <1>11, <1>12, <1>14, <2>1, TimerWake, Zenon
<1>16. QED
  BY <1>13, <1>15 DEF IInv

\* thread_create_etc() keeps the invariant: a dead thread is on no queue and no CPU.
LEMMA CreateStep ==
  ASSUME IInv, NEW c \in Cpu, NEW t \in Thread, NEW p \in Priority, thread_create(c, t, p)
  PROVE  IInv' /\ Settled(k', c)
<1>1. /\ k \in KernelState /\ Core(k, {}) /\ Waiting(k)
      /\ k.state[t] = "DEATH" /\ k.current[c] # Idle
  BY DEF IInv, Consistent, Core, thread_create, Free, Running
<1>2. PICK f : f = [k.state EXCEPT ![t] = "SUSPENDED"]
  OBVIOUS
<1>3. PICK g : g = [k.priority EXCEPT ![t] = p]
  OBVIOUS
<1>4. PICK h : h = [k.quantum EXCEPT ![t] = 0]
  OBVIOUS
<1>5. PICK d : d = k.realtime \ {t}
  OBVIOUS
<1>6. /\ f \in [Thread -> {"SUSPENDED", "READY", "RUNNING", "BLOCKED", "SLEEPING", "DEATH"}]
      /\ f[t] = "SUSPENDED" /\ \A u \in Thread \ {t} : f[u] = k.state[u]
  BY <1>1, <1>2 DEF KernelState
<1>7. /\ g \in [Thread -> Priority]
      /\ \A u \in Thread \ {t} : g[u] = k.priority[u]
  BY <1>1, <1>3 DEF KernelState
<1>8. h \in [Thread -> 0 .. QUANTUM]
  <2>1. k.quantum \in [Thread -> 0 .. QUANTUM]
    BY <1>1 DEF KernelState
  <2>2. 0 \in 0 .. QUANTUM
    BY SchedAssumption
  <2>3. QED
    BY <1>4, <2>1, <2>2
<1>9. d \in SUBSET Thread
  BY <1>1, <1>5 DEF KernelState
<1>10. PICK x : x = WithState(k, f)
  OBVIOUS
<1>11. PICK w : w = WithPriority(x, g)
  OBVIOUS
<1>12. PICK y : y = WithQuantum(w, h)
  OBVIOUS
<1>13. PICK v : v = k'
  OBVIOUS
<1>14. v = WithRealTime(y, d)
  BY <1>2, <1>3, <1>4, <1>5, <1>10, <1>11, <1>12, <1>13, Zenon
     DEF thread_create, WithState, WithPriority, WithQuantum, WithRealTime
<1>15. /\ x \in KernelState /\ x.state = f
       /\ x.priority = k.priority /\ x.waiters = k.waiters /\ x.timerCpu = k.timerCpu
       /\ SameQueues(x, k) /\ SameCpus(x, k) /\ SameIrqs(x, k)
  <2>1. x \in KernelState /\ x.state = f /\ ButState(x, k)
    BY <1>1, <1>6, <1>10, SetState
  <2>2. QED
    BY <2>1 DEF ButState
<1>16. /\ w \in KernelState /\ w.priority = g
       /\ w.state = x.state /\ w.waiters = x.waiters /\ w.timerCpu = x.timerCpu
       /\ SameQueues(w, x) /\ SameCpus(w, x) /\ SameIrqs(w, x)
  <2>1. w \in KernelState /\ w.priority = g /\ ButPriority(w, x)
    BY <1>7, <1>11, <1>15, SetPriority
  <2>2. QED
    BY <2>1 DEF ButPriority
<1>17. /\ y \in KernelState
       /\ SameThreads(y, w) /\ SameQueues(y, w) /\ SameCpus(y, w) /\ SameIrqs(y, w)
  BY <1>8, <1>12, <1>16, SetQuantum
<1>18. /\ v \in KernelState
       /\ v.realtime = d
       /\ v.current = y.current /\ v.idle_cpus = y.idle_cpus
       /\ v.preempt_timer = y.preempt_timer /\ v.panicked = y.panicked
       /\ SameThreads(v, y) /\ SameQueues(v, y) /\ SameIrqs(v, y)
  <2>1. v \in KernelState /\ v.realtime = d /\ ButRealTime(v, y)
    BY <1>9, <1>14, <1>17, SetRealTime
  <2>2. QED
    BY <2>1 DEF ButRealTime
<1>19. /\ v.state = f /\ v.priority = g
       /\ v.waiters = k.waiters /\ v.timerCpu = k.timerCpu
       /\ v.current = k.current /\ v.idle_cpus = k.idle_cpus
       /\ v.preempt_timer = k.preempt_timer /\ v.panicked = k.panicked
       /\ SameQueues(v, k)
  BY <1>15, <1>16, <1>17, <1>18 DEF SameThreads, SameQueues, SameCpus
<1>20. Queues(v, {})
  <2>1. /\ \A u \in Thread : f[u] = "READY" <=> k.state[u] = "READY"
        /\ \A u \in Thread : f[u] = "READY" => g[u] = k.priority[u]
    BY <1>1, <1>6, <1>7
  <2>2. /\ \A u \in Thread : v.state[u] = "READY" <=> k.state[u] = "READY"
        /\ \A u \in Thread : v.state[u] = "READY" => v.priority[u] = k.priority[u]
    BY <1>19, <2>1
  <2>3. Queues(k, {}) /\ SameQueues(v, k)
    BY <1>1, <1>19 DEF Core
  <2>4. QED
    BY <2>2, <2>3, QueuesKept
<1>21. Sleeping(v)
  BY <1>1, <1>6, <1>19 DEF Core, Sleeping
<1>22. Waiting(v)
  <2>1. \A u \in Thread : f[u] = "BLOCKED" <=> k.state[u] = "BLOCKED"
    BY <1>1, <1>6
  <2>2. QED
    BY <1>1, <1>19, <2>1 DEF Waiting
<1>23. Cpus(v, {})
  <2>1. \A u \in Thread : f[u] = "RUNNING" <=> k.state[u] = "RUNNING"
    BY <1>1, <1>6
  <2>2. QED
    <3>1. Cpus(k, {})
      BY <1>1 DEF Core
    <3>2. /\ \A u \in Thread : v.state[u] = "RUNNING" <=> k.state[u] = "RUNNING"
          /\ v.current = k.current /\ v.idle_cpus = k.idle_cpus
      BY <1>19, <2>1
    <3>3. QED
      BY <3>1, <3>2, CpusKept
<1>24. Timers(v)
  <2>1. \A b \in Cpu : k.current[b] # t
    BY <1>1 DEF Core, Cpus
  <2>2. QED
    <3>1. Timers(k)
      BY <1>1 DEF Core
    <3>2. v.realtime = k.realtime \/ v.realtime = k.realtime \ {t}
      BY <1>5, <1>18
    <3>3. QED
      BY <1>19, <2>1, <3>1, <3>2 DEF Timers, RealTimeOrIdle
<1>25. Consistent(v, {}) /\ Settled(v, c)
  BY <1>1, <1>18, <1>19, <1>20, <1>21, <1>22, <1>23, <1>24 DEF Consistent, Core, Settled
<1>26. QED
  BY <1>13, <1>25 DEF IInv

\* thread_set_real_time() keeps the invariant: it cancels the timer of the one CPU
\* that runs the thread.
LEMMA SetRealTimeStep ==
  ASSUME IInv, NEW c \in Cpu, NEW t \in Thread, thread_set_real_time(c, t)
  PROVE  IInv' /\ Settled(k', c)
<1>1. /\ k \in KernelState /\ Core(k, {}) /\ Waiting(k)
      /\ k.current[c] # Idle /\ (t = k.current[c] \/ k.state[t] # "RUNNING")
  BY DEF IInv, Consistent, Core, thread_set_real_time, Free, Running
<1>2. PICK d : d = k.realtime \union {t}
  OBVIOUS
<1>3. PICK e : e = IF t = k.current[c] THEN k.preempt_timer \ {c} ELSE k.preempt_timer
  OBVIOUS
<1>4. d \in SUBSET Thread /\ e \in SUBSET Cpu
  <2>1. k.realtime \in SUBSET Thread /\ k.preempt_timer \in SUBSET Cpu
    BY <1>1 DEF KernelState
  <2>2. QED
    BY <1>2, <1>3, <2>1
<1>5. PICK y : y = WithRealTime(k, d)
  OBVIOUS
<1>6. PICK v : v = k'
  OBVIOUS
<1>7. v = WithPreemptTimer(y, e)
  BY <1>2, <1>3, <1>5, <1>6, Zenon DEF thread_set_real_time, WithRealTime, WithPreemptTimer
<1>8. /\ y \in KernelState
      /\ y.realtime = d
      /\ y.current = k.current /\ y.idle_cpus = k.idle_cpus
      /\ y.preempt_timer = k.preempt_timer /\ y.panicked = k.panicked
      /\ SameThreads(y, k) /\ SameQueues(y, k) /\ SameIrqs(y, k)
  <2>1. y \in KernelState /\ y.realtime = d /\ ButRealTime(y, k)
    BY <1>1, <1>4, <1>5, SetRealTime
  <2>2. QED
    BY <2>1 DEF ButRealTime
<1>9. /\ v \in KernelState
      /\ v.preempt_timer = e
      /\ v.current = y.current /\ v.realtime = y.realtime
      /\ v.idle_cpus = y.idle_cpus /\ v.panicked = y.panicked
      /\ SameThreads(v, y) /\ SameQueues(v, y) /\ SameIrqs(v, y)
  BY <1>4, <1>7, <1>8, SetPreemptTimer
<1>10. SameThreads(v, k) /\ SameQueues(v, k) /\ v.current = k.current /\
         v.idle_cpus = k.idle_cpus
  BY <1>8, <1>9 DEF SameThreads, SameQueues
<1>11. Queues(v, {}) /\ Sleeping(v) /\ Waiting(v) /\ Cpus(v, {})
  <2>1. Queues(k, {}) /\ Sleeping(k) /\ Waiting(k) /\ Cpus(k, {})
    BY <1>1 DEF Core
  <2>2. Queues(v, {})
    <3>1. v.state = k.state /\ v.priority = k.priority
      BY <1>10 DEF SameThreads
    <3>2. QED
      BY <1>10, <2>1, <3>1, QueuesKept
  <2>3. Sleeping(v) /\ Waiting(v)
    BY <1>10, <2>1 DEF Sleeping, Waiting, SameThreads
  <2>4. Cpus(v, {})
    <3>1. v.state = k.state /\ v.current = k.current /\ v.idle_cpus = k.idle_cpus
      BY <1>10 DEF SameThreads
    <3>2. QED
      BY <2>1, <3>1, CpusKept
  <2>5. QED
    BY <2>2, <2>3, <2>4
<1>12. Timers(v)
  <2>1. \A b \in Cpu : k.current[b] = t => b = c
    BY <1>1 DEF Core, Cpus
  <2>2. \A b \in Cpu : b \in e <=> ~(k.current[b] = Idle \/ k.current[b] \in d)
    BY <1>1, <1>2, <1>3, <2>1 DEF Core, Timers, RealTimeOrIdle
  <2>3. QED
    BY <1>1, <1>4, <1>8, <1>9, <2>2 DEF Core, Timers, RealTimeOrIdle
<1>13. Consistent(v, {}) /\ Settled(v, c)
  BY <1>1, <1>9, <1>10, <1>11, <1>12 DEF Consistent, Core, Settled
<1>14. QED
  BY <1>6, <1>13 DEF IInv

\* thread_timer_tick() keeps the invariant.
LEMMA TickStep ==
  ASSUME IInv, NEW c \in Cpu, thread_timer_tick(c)
  PROVE  IInv' /\ Settled(k', c)
<1>1. /\ k \in KernelState /\ Consistent(k, {}) /\ Core(k, {})
      /\ k.current[c] # Idle
  BY DEF IInv, Consistent, Core, thread_timer_tick, RealTimeOrIdle
<1>2. PICK t : t = k.current[c]
  OBVIOUS
<1>3. t \in Thread
  BY <1>1, <1>2, CurrentThread
<1>4. PICK g : g = [k.quantum EXCEPT ![t] = IF k.quantum[t] > 0 THEN k.quantum[t] - 1 ELSE 0]
  OBVIOUS
<1>5. PICK d : d = IF k.quantum[t] - 1 <= 0 THEN k.resched \union {c} ELSE k.resched
  OBVIOUS
<1>6. g \in [Thread -> 0 .. QUANTUM] /\ d \in SUBSET Cpu
  <2>1. k.quantum \in [Thread -> 0 .. QUANTUM] /\ k.resched \in SUBSET Cpu
    BY <1>1 DEF KernelState
  <2>2. PICK n \in 0 .. QUANTUM : n = k.quantum[t]
    BY <1>3, <2>1
  <2>3. (IF n > 0 THEN n - 1 ELSE 0) \in 0 .. QUANTUM
    BY SchedAssumption
  <2>4. QED
    BY <1>4, <1>5, <2>1, <2>2, <2>3
<1>7. PICK y : y = WithQuantum(k, g)
  OBVIOUS
<1>8. PICK v : v = k'
  OBVIOUS
<1>9. v = WithResched(y, d)
  BY <1>2, <1>4, <1>5, <1>7, <1>8, Zenon DEF thread_timer_tick, WithQuantum, WithResched
<1>10. /\ y \in KernelState
       /\ SameThreads(y, k) /\ SameQueues(y, k) /\ SameCpus(y, k) /\ SameIrqs(y, k)
  BY <1>1, <1>6, <1>7, SetQuantum
<1>11. /\ v \in KernelState
       /\ SameThreads(v, y) /\ SameQueues(v, y) /\ SameCpus(v, y)
  BY <1>6, <1>9, <1>10, SetResched
<1>12. SameThreads(v, k) /\ SameQueues(v, k) /\ SameCpus(v, k)
  BY <1>10, <1>11 DEF SameThreads, SameQueues, SameCpus
<1>13. Consistent(v, {})
  BY <1>1, <1>11, <1>12, SameConsistent
<1>14. Settled(v, c)
  BY <1>1, <1>12 DEF Settled, SameCpus
<1>15. QED
  BY <1>8, <1>13, <1>14 DEF IInv

\* mp_mbx_reschedule_irq() keeps the invariant.
LEMMA IpiStep ==
  ASSUME IInv, NEW c \in Cpu, mp_mbx_reschedule_irq(c)
  PROVE  IInv' /\ Settled(k', c)
<1>1. k \in KernelState /\ Consistent(k, {})
  BY DEF IInv, Consistent, Core
<1>2. PICK d : d = k.ipi \ {c}
  OBVIOUS
<1>3. PICK e : e = k.resched \union {c}
  OBVIOUS
<1>4. d \in SUBSET Cpu /\ e \in SUBSET Cpu
  BY <1>1, <1>2, <1>3 DEF KernelState
<1>5. PICK y : y = [k EXCEPT !.ipi = d]
  OBVIOUS
<1>6. PICK v : v = k'
  OBVIOUS
<1>7. v = WithResched(y, e)
  BY <1>2, <1>3, <1>5, <1>6, Zenon DEF mp_mbx_reschedule_irq, WithResched
<1>8. /\ y \in KernelState
      /\ SameThreads(y, k) /\ SameQueues(y, k) /\ SameCpus(y, k)
  BY <1>1, <1>4, <1>5 DEF KernelState, SameThreads, SameQueues, SameCpus
<1>9. /\ v \in KernelState /\ v.resched = e
      /\ SameThreads(v, y) /\ SameQueues(v, y) /\ SameCpus(v, y)
  BY <1>4, <1>7, <1>8, SetResched
<1>10. SameThreads(v, k) /\ SameQueues(v, k) /\ SameCpus(v, k)
  BY <1>8, <1>9 DEF SameThreads, SameQueues, SameCpus
<1>11. Consistent(v, {})
  BY <1>1, <1>9, <1>10, SameConsistent
<1>12. Settled(v, c)
  BY <1>3, <1>9 DEF Settled
<1>13. QED
  BY <1>6, <1>11, <1>12 DEF IInv

-----------------------------------------------------------------------------
\* The theorems.

\* After boot the invariant holds, and the CPUs idle as nobody is READY.
LEMMA Initially == Init => IInv /\ \A c \in Cpu : Settled(k, c)
<1>1. SUFFICES ASSUME Init
               PROVE  IInv /\ \A c \in Cpu : Settled(k, c)
  OBVIOUS
<1>2. PICK first \in Thread, priority \in [Thread -> Priority], c \in Cpu :
        /\ Pinned[first] \in {c, NoCpu}
        /\ k = [run_queue |-> [p \in Priority |-> << >>],
                run_queue_bitmap |-> {},
                current  |-> [x \in Cpu |-> IF x = c THEN first ELSE Idle],
                state    |-> [t \in Thread |-> IF t = first THEN "RUNNING" ELSE "SUSPENDED"],
                priority |-> priority,
                quantum  |-> [t \in Thread |-> IF t = first THEN QUANTUM ELSE 0],
                realtime |-> {},
                waiters  |-> << >>,
                timerCpu |-> [t \in Thread |-> NoCpu],
                yielding |-> {},
                preempt_timer |-> {c},
                idle_cpus |-> Cpu \ {c},
                realtime_cpus |-> {},
                ipi      |-> {},
                resched  |-> {},
                panicked |-> {}]
  BY <1>1 DEF Init
<1>3. /\ k.run_queue = [p \in Priority |-> << >>]
      /\ k.run_queue_bitmap = {}
      /\ k.current = [x \in Cpu |-> IF x = c THEN first ELSE Idle]
      /\ k.state = [t \in Thread |-> IF t = first THEN "RUNNING" ELSE "SUSPENDED"]
      /\ k.priority = priority
      /\ k.realtime = {}
      /\ k.waiters = << >>
      /\ k.preempt_timer = {c}
      /\ k.idle_cpus = Cpu \ {c}
      /\ k.panicked = {}
  BY <1>2
<1>4. Idle \notin Thread
  BY SchedAssumption
<1>5. k \in KernelState
  <2>1. /\ [p \in Priority |-> << >>] \in [Priority -> Seq(Thread)]
        /\ << >> \in Seq(Thread)
    OBVIOUS
  <2>2. [t \in Thread |-> IF t = first THEN QUANTUM ELSE 0] \in [Thread -> 0 .. QUANTUM]
    BY SchedAssumption
  <2>3. QED
    BY <1>2, <2>1, <2>2 DEF KernelState
<1>6. Queues(k, {})
  BY <1>3 DEF Queues, NoRepeats, Elements
<1>7. Sleeping(k)
  BY <1>3 DEF Sleeping
<1>8. Cpus(k, {})
  BY <1>2, <1>3, <1>4 DEF Cpus, Allowed
<1>9. Timers(k)
  BY <1>3, <1>4 DEF Timers, RealTimeOrIdle
<1>10. Waiting(k)
  BY <1>3 DEF Waiting, NoRepeats, Elements
<1>11. \A x \in Cpu : Settled(k, x)
  BY <1>3 DEF Settled, Runnable
<1>12. QED
  BY <1>5, <1>6, <1>7, <1>8, <1>9, <1>10, <1>11 DEF IInv, Consistent, Core

\* Every step keeps the invariant, and leaves some CPU settled: the one it ran on.
LEMMA NextStep ==
  ASSUME IInv, Next
  PROVE  IInv' /\ \E c \in Cpu : Settled(k', c)
<1>1. ASSUME NEW c \in Cpu, thread_yield(c)
      PROVE  IInv' /\ Settled(k', c)
  BY <1>1, YieldStep
<1>2. ASSUME NEW c \in Cpu, thread_sleep(c)
      PROVE  IInv' /\ Settled(k', c)
  BY <1>2, SleepStep
<1>3. ASSUME NEW c \in Cpu, NEW detached \in BOOLEAN, thread_exit(c, detached)
      PROVE  IInv' /\ Settled(k', c)
  BY <1>3, ExitStep
<1>4. ASSUME NEW c \in Cpu, NEW timed \in BOOLEAN, wait_queue_block(c, timed)
      PROVE  IInv' /\ Settled(k', c)
  BY <1>4, BlockStep
<1>5. ASSUME NEW c \in Cpu, NEW reschedule \in BOOLEAN, Wakes(c, reschedule)
      PROVE  IInv' /\ Settled(k', c)
  BY <1>5, WakesStep
<1>6. ASSUME NEW c \in Cpu, IrqWakes(c)
      PROVE  IInv' /\ Settled(k', c)
  BY <1>6, IrqWakesStep
<1>7. ASSUME NEW c \in Cpu, thread_timer_tick(c)
      PROVE  IInv' /\ Settled(k', c)
  BY <1>7, TickStep
<1>8. ASSUME NEW c \in Cpu, mp_mbx_reschedule_irq(c)
      PROVE  IInv' /\ Settled(k', c)
  BY <1>8, IpiStep
<1>9. ASSUME NEW c \in Cpu, thread_preempt(c)
      PROVE  IInv' /\ Settled(k', c)
  BY <1>9, PreemptStep
<1>10. ASSUME NEW c \in Cpu, NEW p \in Priority, thread_set_priority(c, p)
       PROVE  IInv' /\ Settled(k', c)
  BY <1>10, SetPriorityStep
<1>11. ASSUME NEW c \in Cpu, NEW t \in Thread, thread_resume(c, t)
       PROVE  IInv' /\ Settled(k', c)
  BY <1>11, ResumeStep
<1>12. ASSUME NEW c \in Cpu, NEW t \in Thread, thread_set_real_time(c, t)
       PROVE  IInv' /\ Settled(k', c)
  BY <1>12, SetRealTimeStep
<1>13. ASSUME NEW c \in Cpu, NEW t \in Thread, NEW p \in Priority, thread_create(c, t, p)
       PROVE  IInv' /\ Settled(k', c)
  BY <1>13, CreateStep
<1>14. ASSUME NEW t \in Thread, thread_sleep_handler(t)
       PROVE  IInv' /\ \E c \in Cpu : Settled(k', c)
  BY <1>14, SleepHandlerStep
<1>15. ASSUME NEW t \in Thread, wait_queue_timeout_handler(t)
       PROVE  IInv' /\ \E c \in Cpu : Settled(k', c)
  BY <1>15, TimeoutHandlerStep
<1>16. QED
  BY <1>1, <1>2, <1>3, <1>4, <1>5, <1>6, <1>7, <1>8, <1>9, <1>10, <1>11, <1>12, <1>13,
     <1>14, <1>15 DEF Next

\* The invariant is inductive.
THEOREM SchedInvariant == Spec => []IInv
<1>1. Init => IInv
  BY Initially
<1>2. IInv /\ [Next]_vars => IInv'
  <2>1. ASSUME IInv, Next
        PROVE  IInv'
    BY <2>1, NextStep
  <2>2. ASSUME IInv, UNCHANGED vars
        PROVE  IInv'
    BY <2>2 DEF IInv, vars
  <2>3. QED
    BY <2>1, <2>2
<1>3. QED
  BY <1>1, <1>2, PTL DEF Spec

\* However the CPUs, the timers and the interrupts interleave, a READY thread is on
\* the run queue of its priority once and nobody else is on one, and the bitmap that
\* get_top_thread() searches marks exactly the queues with a thread (thread.c:
\* insert_in_run_queue_head(), insert_in_run_queue_tail(), get_top_thread()).
THEOREM RunQueuesAreConsistent == Spec => []RunQueuesConsistent
<1>1. IInv => RunQueuesConsistent
  <2>1. SUFFICES ASSUME IInv
                 PROVE  RunQueuesConsistent
    OBVIOUS
  <2>2. Queues(k, {})
    BY <2>1 DEF IInv, Consistent, Core
  <2>3. ASSUME NEW t \in Thread, NEW p \in Priority
        PROVE  Cardinality({i \in 1 .. Len(k.run_queue[p]) : k.run_queue[p][i] = t})
                  = IF k.state[t] = "READY" /\ k.priority[t] = p THEN 1 ELSE 0
    <3>1. PICK I : I = {i \in 1 .. Len(k.run_queue[p]) : k.run_queue[p][i] = t}
      OBVIOUS
    <3>2. CASE k.state[t] = "READY" /\ k.priority[t] = p
      <4>1. PICK i : I = {i}
        <5>1. t \in Elements(k.run_queue[p]) /\ NoRepeats(k.run_queue[p])
          BY <2>2, <3>2 DEF Queues
        <5>2. PICK i \in 1 .. Len(k.run_queue[p]) : k.run_queue[p][i] = t
          BY <5>1 DEF Elements
        <5>3. I = {i}
          BY <3>1, <5>1, <5>2 DEF NoRepeats
        <5>4. QED
          BY <5>3
      <4>2. Cardinality(I) = 1
        BY <4>1, FS_Singleton
      <4>3. QED
        BY <3>1, <3>2, <4>2
    <3>3. CASE ~(k.state[t] = "READY" /\ k.priority[t] = p)
      <4>1. I = {}
        BY <2>2, <3>1, <3>3 DEF Queues, Elements
      <4>2. Cardinality(I) = 0
        BY <4>1, FS_EmptySet
      <4>3. QED
        BY <3>1, <3>3, <4>2
    <3>4. QED
      BY <3>2, <3>3
  <2>4. QED
    BY <2>2, <2>3 DEF RunQueuesConsistent, Queues
<1>2. QED
  BY <1>1, SchedInvariant, PTL

\* A thread is RUNNING exactly when a CPU runs it, no two CPUs run one thread, and
\* a pinned thread runs on its own CPU only (thread_resched(), get_top_thread()).
THEOREM ThreadsHaveOneCpu == Spec => []OneCpuPerThread
<1>1. IInv => OneCpuPerThread
  <2>1. SUFFICES ASSUME IInv
                 PROVE  OneCpuPerThread
    OBVIOUS
  <2>2. Cpus(k, {})
    BY <2>1 DEF IInv, Consistent, Core
  <2>3. \A t \in Thread : t # Idle
    BY SchedAssumption
  <2>4. QED
    BY <2>2, <2>3 DEF Cpus, Allowed, OneCpuPerThread
<1>2. QED
  BY <1>1, SchedInvariant, PTL

\* A CPU's preemption timer is queued exactly while the CPU runs a thread that is
\* neither idle nor real time (thread_resched(), thread_set_real_time()).
THEOREM PreemptTimerFollowsThread == Spec => []PreemptTimerMatchesThread
<1>1. IInv => PreemptTimerMatchesThread
  BY DEF IInv, Consistent, Core, Timers, PreemptTimerMatchesThread
<1>2. QED
  BY <1>1, SchedInvariant, PTL

\* thread_resched() never sets a preemption timer that is queued already, so
\* timer_set() does not panic (timer.c).
THEOREM TimerSetNeverPanics == Spec => []NoPanic
<1>1. IInv => NoPanic
  BY DEF IInv, Consistent, Core, Timers, NoPanic
<1>2. QED
  BY <1>1, SchedInvariant, PTL

\* On a uniprocessor the idle thread runs only when there is nothing else to run,
\* unless a reschedule is on its way (thread.c: idle_thread_routine()).  With several
\* CPUs this fails: thread_yield() and thread_preempt() send no IPI for the thread they
\* put back, nor does thread_sleep_handler() for the thread it wakes.
THEOREM IdleWhenNothingToDo ==
  ASSUME NEW c, Cpu = {c}
  PROVE  Spec => []IdleMeansNothingToDo
<1> DEFINE Inv == IInv /\ Settled(k, c)
<1>1. Init => Inv
  BY Initially
<1>2. Inv /\ [Next]_vars => Inv'
  <2>1. ASSUME Inv, Next
        PROVE  Inv'
    BY <2>1, NextStep
  <2>2. ASSUME Inv, UNCHANGED vars
        PROVE  Inv'
    BY <2>2 DEF IInv, vars, Settled
  <2>3. QED
    BY <2>1, <2>2
<1>3. Inv => IdleMeansNothingToDo
  BY DEF IInv, Consistent, Core, Cpus, Settled, IdleMeansNothingToDo
<1>4. QED
  BY <1>1, <1>2, <1>3, PTL DEF Spec
=============================================================================
