----------------------------- MODULE TimerProofs -----------------------------
(***************************************************************************)
(* Proofs about Timer: for any timers and CPUs, for times that wrap at any *)
(* even number and delays below half of it, the hardware of each CPU is    *)
(* set early enough for every timer of its queue and no timer fires before *)
(* it is due; and a timer is queued as long as its owner is owed a call,   *)
(* if nobody sets or cancels a timer that another CPU is firing.           *)
(*                                                                         *)
(* The code compares residues.  The proofs relate them to due, the time a  *)
(* timer truly has left: as long as the true times are less than half a    *)
(* round apart TIME_LT() orders the residues like the true times, so the   *)
(* queues are in the order of the true times and their heads come first.   *)
(***************************************************************************)
EXTENDS Timer, WellFoundedInduction, TLAPS

NoRepeats(q) == \A i, j \in 1 .. Len(q) : q[i] = q[j] => i = j

\* The queue is in the order of the true times d.
Ordered(q, d) == \A i, j \in 1 .. Len(q) : i < j => d[q[i]] <= d[q[j]]

\* A timer is in one list, once, and the lists are ordered.
QueuesOK ==
    /\ \A c \in Cpu : NoRepeats(queue[c]) /\ Ordered(queue[c], due)
    /\ \A c, d \in Cpu : Elements(queue[c]) \intersect Elements(queue[d]) # {} => c = d

\* The scheduled time of a queued timer is the residue of the time it is due at.
TimesOK == \A t \in Queued : scheduled_time[t] = (now + due[t]) % TIMES

\* timer_tick() has a timer from its removal from the queue to the callback's return.
TickOK == \A c \in Cpu : tick[c].timer = None <=> tick[c].phase \in {"none", "loop"}

IInv == TypeOK /\ QueuesOK /\ TimesOK /\ TickOK /\ HardwareCoversQueue

\* A timer that timer_tick() holds is held by one CPU, which alone may queue it
\* again, and a timer whose owner is owed a call has a callback.
HeldOK ==
    /\ \A c, d \in Cpu : tick[c].timer # None /\ tick[c].timer = tick[d].timer => c = d
    /\ \A c, d \in Cpu : tick[c].timer \in Elements(queue[d]) =>
                            c = d /\ tick[c].phase = "calling"
    /\ wanted \subseteq callback
    /\ crashed = {}

\* The invariant where callers keep off the timers that other CPUs fire.
SerializedInv == IInv /\ HeldOK /\ OwedTimersAreQueued

-----------------------------------------------------------------------------
\* Arithmetic of the times.

\* How far from now a time may be.
DueRange == -MaxLate .. MaxDelay

\* A residue is at most one round away from a number less than a round off.
LEMMA Mod ==
  ASSUME NEW a \in Int
  PROVE  /\ 0 <= a /\ a < TIMES => a % TIMES = a
         /\ TIMES <= a /\ a < 2 * TIMES => a % TIMES = a - TIMES
         /\ -TIMES <= a /\ a < 0 => a % TIMES = a + TIMES
BY TimerAssumption

\* Half a round is more than any two times of the range are apart.
LEMMA Half ==
  /\ TIMES \in Nat \ {0} /\ MaxDelay \in Nat /\ MaxLate \in Nat
  /\ TIMES \div 2 \in Nat /\ 2 * (TIMES \div 2) = TIMES
  /\ MaxDelay + MaxLate < TIMES \div 2
BY TimerAssumption

\* The residue of a time in the range.
LEMMA Residue ==
  ASSUME NEW n \in 0 .. TIMES - 1, NEW d \in DueRange
  PROVE  /\ (n + d) % TIMES \in 0 .. TIMES - 1
         /\ (n + d) % TIMES \in {n + d, n + d - TIMES, n + d + TIMES}
<1>1. /\ n \in Int /\ 0 <= n /\ n < TIMES
      /\ d \in Int /\ -TIMES < d /\ d < TIMES
  BY Half DEF DueRange
<1>2. PICK a : a = n + d
  OBVIOUS
<1>3. a \in Int /\ -TIMES <= a /\ a < 2 * TIMES
  BY <1>1, <1>2, Half
<1>4. a % TIMES \in {a, a - TIMES, a + TIMES} /\ a % TIMES \in 0 .. TIMES - 1
  BY <1>3, Mod, Half
<1>5. QED
  BY <1>1, <1>2, <1>4, Half

\* TIME_LT() orders residues like the times in the range they stand for.
LEMMA Compare ==
  ASSUME NEW n \in 0 .. TIMES - 1, NEW d \in DueRange, NEW e \in DueRange
  PROVE  TIME_LT((n + d) % TIMES, (n + e) % TIMES) <=> d < e
<1>1. PICK a, b : a = (n + d) % TIMES /\ b = (n + e) % TIMES
  OBVIOUS
<1>2. /\ a \in 0 .. TIMES - 1 /\ a \in {n + d, n + d - TIMES, n + d + TIMES}
      /\ b \in 0 .. TIMES - 1 /\ b \in {n + e, n + e - TIMES, n + e + TIMES}
  BY <1>1, Residue
<1>3. PICK H : H = TIMES \div 2
  OBVIOUS
<1>4. H \in Nat /\ TIMES = 2 * H /\ MaxDelay + MaxLate < H /\ TIMES \in Nat
  BY <1>3, Half
<1>5. d \in Int /\ e \in Int /\ d - e < H /\ e - d < H /\ n \in Int
  BY <1>4, Half DEF DueRange
<1>6. PICK x : x = a - b
  OBVIOUS
<1>7. x \in Int /\ -TIMES <= x /\ x < TIMES
  BY <1>2, <1>4, <1>6
<1>8. x \in {d - e, d - e - TIMES, d - e + TIMES}
  BY <1>2, <1>4, <1>5, <1>6
<1>9. /\ 0 <= x => x % TIMES = x
      /\ x < 0 => x % TIMES = x + TIMES
  BY <1>7, Mod
<1>10. x % TIMES >= H <=> d < e
  BY <1>4, <1>5, <1>7, <1>8, <1>9
<1>11. QED
  BY <1>1, <1>3, <1>6, <1>10 DEF TIME_LT

\* What the code finds comparing and subtracting a scheduled time and now.
LEMMA CompareNow ==
  ASSUME NEW n \in 0 .. TIMES - 1, NEW d \in DueRange
  PROVE  /\ TIME_LT(n, (n + d) % TIMES) <=> 0 < d
         /\ TIME_LT((n + d) % TIMES, n) <=> d < 0
         /\ 0 <= d => (((n + d) % TIMES) - n) % TIMES = d
<1>1. 0 \in DueRange /\ (n + 0) % TIMES = n
  BY Mod, Half DEF DueRange
<1>2. TIME_LT(n, (n + d) % TIMES) <=> 0 < d
  BY <1>1, Compare
<1>3. TIME_LT((n + d) % TIMES, n) <=> d < 0
  BY <1>1, Compare
<1>4. ASSUME 0 <= d
      PROVE  (((n + d) % TIMES) - n) % TIMES = d
  <2>1. PICK a : a = (n + d) % TIMES
    OBVIOUS
  <2>2. a \in 0 .. TIMES - 1 /\ a \in {n + d, n + d - TIMES, n + d + TIMES}
    BY <2>1, Residue
  <2>3. d \in Int /\ d < TIMES /\ TIMES \in Nat
    BY Half DEF DueRange
  <2>4. a - n \in {d, d - TIMES} /\ a - n \in Int
    BY <1>4, <2>2, <2>3
  <2>5. (a - n) % TIMES = d
    <3>1. CASE a - n = d
      BY <1>4, <2>3, <3>1, Mod
    <3>2. CASE a - n = d - TIMES
      <4>1. PICK y : y = a - n
        OBVIOUS
      <4>2. y \in Int /\ -TIMES <= y /\ y < 0 /\ y + TIMES = d
        BY <1>4, <2>3, <3>2, <4>1
      <4>3. QED
        BY <4>1, <4>2, Mod
    <3>3. QED
      BY <2>4, <3>1, <3>2
  <2>6. QED
    BY <2>1, <2>5
<1>5. QED
  BY <1>2, <1>3, <1>4

\* A millisecond later the same scheduled time is a millisecond nearer.
LEMMA Later ==
  ASSUME NEW n \in 0 .. TIMES - 1, NEW d \in DueRange
  PROVE  /\ (n + 1) % TIMES \in 0 .. TIMES - 1
         /\ (((n + 1) % TIMES) + (d - 1)) % TIMES = (n + d) % TIMES
<1>1. /\ n \in Int /\ 0 <= n /\ n < TIMES /\ TIMES \in Nat
      /\ d \in Int /\ -TIMES < d /\ d < TIMES /\ 1 < TIMES
  BY Half, TimerAssumption DEF DueRange
<1>2. PICK m : m = (n + 1) % TIMES
  OBVIOUS
<1>3. m \in {n + 1, n + 1 - TIMES} /\ m \in 0 .. TIMES - 1
  BY <1>1, <1>2, Mod
<1>4. PICK x, y : x = m + (d - 1) /\ y = n + d
  OBVIOUS
<1>5. /\ x \in Int /\ y \in Int /\ x \in {y, y - TIMES}
      /\ -TIMES <= x /\ x < 2 * TIMES /\ -TIMES <= y /\ y < 2 * TIMES
  BY <1>1, <1>3, <1>4
<1>6. x % TIMES = y % TIMES
  <2>1. CASE x = y
    BY <2>1
  <2>2. CASE x = y - TIMES
    BY <1>1, <1>5, <2>2, Mod
  <2>3. QED
    BY <1>5, <2>1, <2>2
<1>7. QED
  BY <1>2, <1>3, <1>4, <1>6

-----------------------------------------------------------------------------
\* The timer queues.

\* A search through a list ends at the first of the positions it looks for.
LEMMA First ==
  ASSUME NEW n \in Nat, NEW T \in SUBSET (1 .. n), T # {}
  PROVE  \E m \in T : \A i \in T : m <= i
<1>1. PICK R : R = {p \in Nat \X Nat : p[1] < p[2]}
  OBVIOUS
<1>2. IsWellFoundedOn(R, Nat)
  BY <1>1, NatLessThanWellFounded DEF OpToRel
<1>3. T \subseteq Nat
  OBVIOUS
<1>4. PICK m \in T : \A i \in T : <<i, m>> \notin R
  BY <1>2, <1>3, WFMin
<1>5. ASSUME NEW i \in T
      PROVE  m <= i
  <2>1. i \in Nat /\ m \in Nat /\ <<i, m>> \notin R
    BY <1>3, <1>4
  <2>2. ~(i < m)
    BY <1>1, <2>1
  <2>3. QED
    BY <2>1, <2>2
<1>6. QED
  BY <1>5

\* insert_timer_in_queue() finds a place: behind all that are not later.
LEMMA Place ==
  ASSUME NEW q \in Seq(Timer), NEW s
  PROVE  /\ InsertedAt(q, s) \in 1 .. Len(q) + 1
         /\ InsertedAt(q, s) <= Len(q) => TIME_LT(s, scheduled_time[q[InsertedAt(q, s)]])
         /\ \A j \in 1 .. InsertedAt(q, s) - 1 : ~TIME_LT(s, scheduled_time[q[j]])
<1> DEFINE IsLater(i) == TIME_LT(s, scheduled_time[q[i]])
           T == {i \in 1 .. Len(q) + 1 : i <= Len(q) => IsLater(i)}
<1> HIDE DEF IsLater
<1>1. Len(q) + 1 \in T /\ T \in SUBSET (1 .. Len(q) + 1) /\ Len(q) + 1 \in Nat
  OBVIOUS
<1>2. PICK m \in T : \A i \in T : m <= i
  BY <1>1, First
<1>3. \A j \in 1 .. m - 1 : ~IsLater(j)
  <2>1. SUFFICES ASSUME NEW j \in 1 .. m - 1, IsLater(j)
                 PROVE  FALSE
    OBVIOUS
  <2>2. j \in T
    BY <2>1
  <2>3. QED
    BY <1>2, <2>2
<1>4. \E i \in 1 .. Len(q) + 1 : (i <= Len(q) => IsLater(i)) /\ \A j \in 1 .. i - 1 : ~IsLater(j)
  BY <1>2, <1>3
<1>5. QED
  BY <1>4 DEF InsertedAt, IsLater

\* A list with an element put in at position i.
Spliced(r, q, t, i) ==
    /\ r \in Seq(Timer) /\ Len(r) = Len(q) + 1
    /\ r[i] = t
    /\ \A j \in 1 .. Len(q) : j < i => r[j] = q[j]
    /\ \A j \in 1 .. Len(q) : i <= j => r[j + 1] = q[j]

\* Two lists of timers one after the other are one.
LEMMA Joined ==
  ASSUME NEW a \in Seq(Timer), NEW b \in Seq(Timer)
  PROVE  a \o b \in Seq(Timer) /\ Len(a \o b) = Len(a) + Len(b)
OBVIOUS

\* What insert_timer_in_queue() makes of the list.
LEMMA Splice ==
  ASSUME NEW q \in Seq(Timer), NEW t \in Timer, NEW i \in 1 .. Len(q) + 1
  PROVE  Spliced(SubSeq(q, 1, i - 1) \o <<t>> \o SubSeq(q, i, Len(q)), q, t, i)
<1>0. PICK r : r = SubSeq(q, 1, i - 1) \o <<t>> \o SubSeq(q, i, Len(q))
  OBVIOUS
<1>1. PICK a : a = SubSeq(q, 1, i - 1)
  OBVIOUS
<1>2. PICK b : b = SubSeq(q, i, Len(q))
  OBVIOUS
<1>3. /\ a \in Seq(Timer) /\ Len(a) = i - 1
      /\ \A j \in 1 .. i - 1 : a[j] = q[j]
  BY <1>1
<1>4. /\ b \in Seq(Timer) /\ Len(b) = Len(q) - i + 1
      /\ \A j \in 1 .. Len(q) - i + 1 : b[j] = q[i + j - 1]
  BY <1>2
<1>5. PICK x : x = a \o <<t>>
  OBVIOUS
<1>6. /\ x \in Seq(Timer) /\ Len(x) = i /\ x[i] = t
      /\ \A j \in 1 .. i - 1 : x[j] = q[j]
  BY <1>3, <1>5
<1>7. r = x \o b
  BY <1>0, <1>1, <1>2, <1>5
<1>8. r \in Seq(Timer) /\ Len(r) = Len(q) + 1
  <2>1. r \in Seq(Timer) /\ Len(r) = Len(x) + Len(b)
    BY <1>4, <1>6, <1>7, Joined
  <2>2. QED
    BY <1>4, <1>6, <2>1
<1>9. r[i] = t /\ \A j \in 1 .. Len(q) : j < i => r[j] = q[j]
  BY <1>4, <1>6, <1>7
<1>10. ASSUME NEW j \in 1 .. Len(q), i <= j
       PROVE  r[j + 1] = q[j]
  <2>1. r[j + 1] = b[j + 1 - i] /\ j + 1 - i \in 1 .. Len(q) - i + 1
    BY <1>4, <1>6, <1>7, <1>10
  <2>2. b[j + 1 - i] = q[i + (j + 1 - i) - 1] /\ i + (j + 1 - i) - 1 = j
    BY <1>4, <2>1
  <2>3. QED
    BY <2>1, <2>2
<1>11. QED
  BY <1>0, <1>8, <1>9, <1>10 DEF Spliced

\* Position n other than i of the new list was position u.
Comes(i, n, u) == (n < i /\ u = n) \/ (i < n /\ u = n - 1)

\* Positions keep their order, among themselves and to the new element.
LEMMA ComesOrder ==
  ASSUME NEW i \in Nat, NEW m \in Nat, NEW n \in Nat, NEW u \in Nat, NEW v \in Nat, m < n
  PROVE  Comes(i, m, u) /\ Comes(i, n, v) => u < v
BY DEF Comes

LEMMA ComesBefore ==
  ASSUME NEW i \in Nat, NEW m \in Nat, NEW u \in Nat, m < i, Comes(i, m, u)
  PROVE  u < i
BY DEF Comes

LEMMA ComesAfter ==
  ASSUME NEW i \in Nat, NEW n \in Nat, NEW v \in Nat, i < n, Comes(i, n, v)
  PROVE  i <= v
BY DEF Comes

\* Every position of the new list is the new element's or comes from the old list.
LEMMA SplicedAt ==
  ASSUME NEW q \in Seq(Timer), NEW t, NEW i \in 1 .. Len(q) + 1, NEW r, Spliced(r, q, t, i),
         NEW n \in 1 .. Len(r), n # i
  PROVE  \E u \in 1 .. Len(q) : r[n] = q[u] /\ Comes(i, n, u)
<1>1. Len(q) \in Nat /\ i \in Nat /\ n \in Nat /\ 1 <= i /\ i <= Len(q) + 1
  OBVIOUS
<1>2. Len(r) = Len(q) + 1
  BY DEF Spliced
<1>4. CASE n < i
  <2>1. n \in 1 .. Len(q)
    BY <1>1, <1>2, <1>4
  <2>2. r[n] = q[n]
    BY <1>4, <2>1 DEF Spliced
  <2>3. Comes(i, n, n)
    BY <1>4 DEF Comes
  <2>4. QED
    BY <2>1, <2>2, <2>3
<1>5. CASE i < n
  <2>1. n - 1 \in 1 .. Len(q) /\ i <= n - 1 /\ (n - 1) + 1 = n
    BY <1>1, <1>2, <1>5
  <2>2. r[(n - 1) + 1] = q[n - 1]
    BY <2>1 DEF Spliced
  <2>3. Comes(i, n, n - 1)
    BY <1>5 DEF Comes
  <2>4. QED
    BY <2>1, <2>2, <2>3
<1>6. QED
  BY <1>1, <1>4, <1>5

\* The new list holds the elements of the old one and t, each once.
LEMMA SplicedElements ==
  ASSUME NEW q \in Seq(Timer), NEW t, NEW i \in 1 .. Len(q) + 1, NEW r, Spliced(r, q, t, i),
         NoRepeats(q), t \notin Elements(q)
  PROVE  /\ NoRepeats(r)
         /\ Elements(r) = Elements(q) \union {t}
<1>1. \A n \in 1 .. Len(r) : n # i => \E u \in 1 .. Len(q) : r[n] = q[u] /\ Comes(i, n, u)
  BY SplicedAt
<1>2. \A n \in 1 .. Len(q) : q[n] # t
  BY DEF Elements
<1>3. Len(q) \in Nat /\ i \in 1 .. Len(q) + 1 /\ Len(r) = Len(q) + 1
  BY DEF Spliced
<1>4. NoRepeats(r)
  <2>1. SUFFICES ASSUME NEW m \in 1 .. Len(r), NEW n \in 1 .. Len(r), r[m] = r[n]
                 PROVE  m = n
    BY DEF NoRepeats
  <2>2. \A u, v \in 1 .. Len(q) : q[u] = q[v] => u = v
    BY DEF NoRepeats
  <2>3. m = i <=> n = i
    <3>1. r[i] = t
      BY DEF Spliced
    <3>2. \A j \in 1 .. Len(r) : j # i => r[j] # t
      BY <1>1, <1>2
    <3>3. QED
      BY <2>1, <3>1, <3>2
  <2>4. CASE m # i /\ n # i
    <3>1. PICK u \in 1 .. Len(q) : r[m] = q[u] /\ Comes(i, m, u)
      BY <1>1, <2>4
    <3>2. PICK v \in 1 .. Len(q) : r[n] = q[v] /\ Comes(i, n, v)
      BY <1>1, <2>4
    <3>3. u = v
      BY <2>1, <2>2, <3>1, <3>2
    <3>4. QED
      BY <1>3, <3>1, <3>2, <3>3 DEF Comes
  <2>5. QED
    BY <2>3, <2>4
<1>5. Elements(r) = Elements(q) \union {t}
  <2>1. ASSUME NEW y \in Elements(r)
        PROVE  y \in Elements(q) \union {t}
    <3>1. PICK n \in 1 .. Len(r) : y = r[n]
      BY DEF Elements
    <3>2. CASE n = i
      BY <3>1, <3>2 DEF Spliced
    <3>3. CASE n # i
      <4>1. PICK u \in 1 .. Len(q) : r[n] = q[u]
        BY <1>1, <3>3
      <4>2. QED
        BY <3>1, <4>1 DEF Elements
    <3>4. QED
      BY <3>2, <3>3
  <2>2. ASSUME NEW y \in Elements(q)
        PROVE  y \in Elements(r)
    <3>1. PICK n \in 1 .. Len(q) : y = q[n]
      BY DEF Elements
    <3>2. n \in 1 .. Len(r) /\ n + 1 \in 1 .. Len(r) /\ (n < i \/ i <= n)
      BY <1>3
    <3>3. y = r[n] \/ y = r[n + 1]
      BY <3>1, <3>2 DEF Spliced
    <3>4. QED
      BY <3>2, <3>3 DEF Elements
  <2>3. t \in Elements(r)
    <3>1. i \in 1 .. Len(r) /\ r[i] = t
      BY <1>3 DEF Spliced
    <3>2. QED
      BY <3>1 DEF Elements
  <2>4. QED
    BY <2>1, <2>2, <2>3
<1>6. QED
  BY <1>4, <1>5

\* The time d of t is now e[t], and nothing else has changed.
OnlyOf(d, e, t) == \A u \in Timer \ {t} : e[u] = d[u]

\* The time x belongs at position i of the list.
Fits(q, i, d, x) ==
    /\ \A j \in 1 .. Len(q) : j < i => d[q[j]] <= x
    /\ i \in 1 .. Len(q) => x <= d[q[i]]

\* The new list is in the order of the true times.
LEMMA SplicedOrder ==
  ASSUME NEW q \in Seq(Timer), NEW t \in Timer, NEW i \in 1 .. Len(q) + 1, NEW r,
         Spliced(r, q, t, i), t \notin Elements(q),
         NEW d \in [Timer -> Int], NEW e \in [Timer -> Int], OnlyOf(d, e, t),
         Ordered(q, d), Fits(q, i, d, e[t])
  PROVE  Ordered(r, e)
<1>1. PICK x \in Int : x = e[t]
  OBVIOUS
<1>2. Len(q) \in Nat /\ i \in Nat
  OBVIOUS
<1>3. \A n \in 1 .. Len(q) : d[q[n]] \in Int /\ e[q[n]] = d[q[n]]
  <2>1. SUFFICES ASSUME NEW n \in 1 .. Len(q)
                 PROVE  d[q[n]] \in Int /\ e[q[n]] = d[q[n]]
    OBVIOUS
  <2>2. q[n] \in Timer /\ q[n] # t
    BY DEF Elements
  <2>3. QED
    BY <2>2 DEF OnlyOf
<1>4. \A u, v \in 1 .. Len(q) : u < v => d[q[u]] <= d[q[v]]
  BY DEF Ordered
<1>5. ASSUME NEW u \in 1 .. Len(q), i <= u
      PROVE  x <= d[q[u]]
  <2>1. i \in 1 .. Len(q)
    BY <1>2, <1>5
  <2>2. x <= d[q[i]]
    BY <1>1, <2>1 DEF Fits
  <2>3. CASE u = i
    BY <2>2, <2>3
  <2>4. CASE i < u
    <3>1. d[q[i]] <= d[q[u]]
      BY <1>4, <2>1, <2>4
    <3>2. d[q[i]] \in Int /\ d[q[u]] \in Int
      BY <1>3, <2>1
    <3>3. QED
      BY <2>2, <3>1, <3>2
  <2>5. QED
    BY <1>2, <1>5, <2>3, <2>4
<1>6. ASSUME NEW u \in 1 .. Len(q), u < i
      PROVE  d[q[u]] <= x
  BY <1>1, <1>6 DEF Fits
<1>9. \A n \in 1 .. Len(r) : n # i => \E u \in 1 .. Len(q) : r[n] = q[u] /\ Comes(i, n, u)
  BY SplicedAt
<1>10. r[i] = t
  BY DEF Spliced
<1>7. ASSUME NEW m \in 1 .. Len(r), NEW n \in 1 .. Len(r), m < n
      PROVE  e[r[m]] <= e[r[n]]
  <2>1. CASE m = i
    <3>1. r[m] = t /\ n # i
      BY <1>2, <1>7, <1>10, <2>1
    <3>2. PICK v \in 1 .. Len(q) : r[n] = q[v] /\ Comes(i, n, v)
      BY <1>9, <3>1
    <3>3. n \in Nat /\ v \in Nat /\ i < n
      BY <1>2, <1>7, <2>1
    <3>4. i <= v
      BY <1>2, <3>2, <3>3, ComesAfter
    <3>5. QED
      BY <1>1, <1>3, <1>5, <3>1, <3>2, <3>4
  <2>2. CASE n = i
    <3>1. r[n] = t /\ m # i
      BY <1>2, <1>7, <1>10, <2>2
    <3>2. PICK u \in 1 .. Len(q) : r[m] = q[u] /\ Comes(i, m, u)
      BY <1>9, <3>1
    <3>3. m \in Nat /\ u \in Nat /\ m < i
      BY <1>2, <1>7, <2>2
    <3>4. u < i
      BY <1>2, <3>2, <3>3, ComesBefore
    <3>5. QED
      BY <1>1, <1>3, <1>6, <3>1, <3>2, <3>4
  <2>3. CASE m # i /\ n # i
    <3>1. PICK u \in 1 .. Len(q) : r[m] = q[u] /\ Comes(i, m, u)
      BY <1>9, <2>3
    <3>2. PICK v \in 1 .. Len(q) : r[n] = q[v] /\ Comes(i, n, v)
      BY <1>9, <2>3
    <3>3. u < v
      <4>1. m \in Nat /\ n \in Nat /\ u \in Nat /\ v \in Nat /\ m < n
        BY <1>7
      <4>2. Comes(i, m, u) /\ Comes(i, n, v)
        BY <3>1, <3>2
      <4>3. QED
        BY <1>2, <4>1, <4>2, ComesOrder
    <3>4. QED
      BY <1>3, <1>4, <3>1, <3>2, <3>3
  <2>4. QED
    BY <2>1, <2>2, <2>3
<1>8. QED
  BY <1>7 DEF Ordered

\* The list has a head, the new element or the old head.
LEMMA SplicedHead ==
  ASSUME NEW q \in Seq(Timer), NEW t, NEW i \in 1 .. Len(q) + 1, NEW r, Spliced(r, q, t, i)
  PROVE  /\ r # << >>
         /\ Head(r) = r[1]
         /\ Head(r) = t \/ (1 \in 1 .. Len(q) /\ Head(r) = q[1])
<1>1. r \in Seq(Timer) /\ Len(r) = Len(q) + 1 /\ Len(q) \in Nat
  BY DEF Spliced
<1>2. r # << >> /\ Head(r) = r[1] /\ 1 \in 1 .. Len(r)
  BY <1>1
<1>3. i = 1 \/ \E u \in 1 .. Len(q) : r[1] = q[u] /\ Comes(i, 1, u)
  BY <1>2, SplicedAt
<1>4. QED
  BY <1>2, <1>3 DEF Comes, Spliced

\* Without position i, position j of the list was position n.
Came(i, j, n) == (j < i /\ n = j) \/ (i <= j /\ n = j + 1)

\* list_delete() takes t off the list, leaves the others in their order, and leaves
\* the list as it is if t is not in it.
LEMMA Deleted ==
  ASSUME NEW q \in Seq(Timer), NEW t, NoRepeats(q), NEW d, Ordered(q, d)
  PROVE  /\ Without(q, t) \in Seq(Timer)
         /\ NoRepeats(Without(q, t))
         /\ Ordered(Without(q, t), d)
         /\ Elements(Without(q, t)) = Elements(q) \ {t}
<1>1. CASE t \notin Elements(q)
  BY <1>1 DEF Without
<1>2. CASE t \in Elements(q)
  <2>1. PICK i : i = CHOOSE k \in 1 .. Len(q) : q[k] = t
    OBVIOUS
  <2>2. i \in 1 .. Len(q) /\ q[i] = t
    BY <1>2, <2>1 DEF Elements
  <2>3. PICK a, b, r : /\ a = SubSeq(q, 1, i - 1)
                       /\ b = SubSeq(q, i + 1, Len(q))
                       /\ r = a \o b
    OBVIOUS
  <2>4. Without(q, t) = r
    BY <1>2, <2>1, <2>3 DEF Without
  <2>5. /\ a \in Seq(Timer) /\ Len(a) = i - 1
        /\ \A j \in 1 .. i - 1 : a[j] = q[j]
    BY <2>2, <2>3
  <2>6. /\ b \in Seq(Timer) /\ Len(b) = Len(q) - i
        /\ \A j \in 1 .. Len(q) - i : b[j] = q[i + j]
    BY <2>2, <2>3
  <2>7. r \in Seq(Timer) /\ Len(r) = Len(q) - 1 /\ r = a \o b
    <3>1. r \in Seq(Timer) /\ Len(r) = Len(a) + Len(b) /\ r = a \o b
      BY <2>3, <2>5, <2>6
    <3>2. QED
      BY <2>2, <2>5, <2>6, <3>1
  <2>8. ASSUME NEW j \in 1 .. Len(r)
        PROVE  \E n \in 1 .. Len(q) : r[j] = q[n] /\ Came(i, j, n)
    <3>1. CASE j < i
      <4>1. j \in 1 .. Len(q) /\ r[j] = q[j]
        BY <2>2, <2>5, <2>6, <2>7, <3>1
      <4>2. Came(i, j, j)
        BY <3>1 DEF Came
      <4>3. QED
        BY <4>1, <4>2
    <3>2. CASE i <= j
      <4>1. j - Len(a) \in 1 .. Len(b) /\ r[j] = b[j - Len(a)]
        BY <2>2, <2>5, <2>6, <2>7, <3>2
      <4>2. b[j - Len(a)] = q[i + (j - (i - 1))] /\ i + (j - (i - 1)) = j + 1
        BY <2>2, <2>5, <2>6, <4>1
      <4>3. j + 1 \in 1 .. Len(q)
        BY <2>2, <2>7, <3>2
      <4>4. Came(i, j, j + 1)
        BY <3>2 DEF Came
      <4>5. QED
        BY <4>1, <4>2, <4>3, <4>4
    <3>3. QED
      BY <2>2, <3>1, <3>2
  <2>9. NoRepeats(r) /\ Ordered(r, d)
    <3>1. SUFFICES ASSUME NEW j \in 1 .. Len(r), NEW k \in 1 .. Len(r)
                   PROVE  /\ r[j] = r[k] => j = k
                          /\ j < k => d[r[j]] <= d[r[k]]
      BY DEF NoRepeats, Ordered
    <3>2. PICK m \in 1 .. Len(q) : r[j] = q[m] /\ Came(i, j, m)
      BY <2>8
    <3>3. PICK n \in 1 .. Len(q) : r[k] = q[n] /\ Came(i, k, n)
      BY <2>8
    <3>4. (m = n => j = k) /\ (j < k => m < n)
      BY <2>2, <3>2, <3>3 DEF Came
    <3>5. (q[m] = q[n] => m = n) /\ (m < n => d[q[m]] <= d[q[n]])
      BY DEF NoRepeats, Ordered
    <3>6. QED
      BY <3>2, <3>3, <3>4, <3>5
  <2>10. Elements(r) = Elements(q) \ {t}
    <3>1. ASSUME NEW y \in Elements(r)
          PROVE  y \in Elements(q) \ {t}
      <4>1. PICK j \in 1 .. Len(r) : y = r[j]
        BY DEF Elements
      <4>2. PICK n \in 1 .. Len(q) : r[j] = q[n] /\ Came(i, j, n)
        BY <2>8
      <4>3. n # i
        BY <2>2, <4>2 DEF Came
      <4>4. q[n] # t
        BY <2>2, <4>3 DEF NoRepeats
      <4>5. QED
        BY <4>1, <4>2, <4>4 DEF Elements
    <3>2. ASSUME NEW y \in Elements(q) \ {t}
          PROVE  y \in Elements(r)
      <4>1. PICK n \in 1 .. Len(q) : y = q[n]
        BY DEF Elements
      <4>2. n # i
        BY <2>2, <4>1
      <4>3. CASE n < i
        <5>1. n \in 1 .. Len(r)
          BY <2>2, <2>7, <4>3
        <5>2. r[n] = q[n]
          BY <2>2, <2>8, <4>3, <5>1 DEF Came
        <5>3. QED
          BY <4>1, <5>1, <5>2 DEF Elements
      <4>4. CASE i < n
        <5>1. PICK j : j = n - 1
          OBVIOUS
        <5>2. j \in 1 .. Len(r) /\ i <= j /\ j + 1 = n
          BY <2>2, <2>7, <4>4, <5>1
        <5>3. r[j] = q[n]
          BY <2>2, <2>8, <5>2 DEF Came
        <5>4. QED
          BY <4>1, <5>2, <5>3 DEF Elements
      <4>5. QED
        BY <2>2, <4>2, <4>3, <4>4
    <3>3. QED
      BY <3>1, <3>2
  <2>11. QED
    BY <2>4, <2>7, <2>9, <2>10
<1>3. QED
  BY <1>1, <1>2

\* The first timer of a list is in it.
LEMMA HeadElement ==
  ASSUME NEW q \in Seq(Timer), q # << >>
  PROVE  Head(q) \in Elements(q)
<1>1. Head(q) = q[1] /\ 1 \in 1 .. Len(q)
  OBVIOUS
<1>2. QED
  BY <1>1 DEF Elements

\* timer_tick() takes the first timer off the list.
LEMMA Popped ==
  ASSUME NEW q \in Seq(Timer), q # << >>, NoRepeats(q), NEW d, Ordered(q, d)
  PROVE  /\ Head(q) = q[1] /\ 1 \in 1 .. Len(q)
         /\ Tail(q) \in Seq(Timer)
         /\ NoRepeats(Tail(q))
         /\ Ordered(Tail(q), d)
         /\ Elements(Tail(q)) = Elements(q) \ {Head(q)}
<1>1. PICK r : r = Tail(q)
  OBVIOUS
<1>2. Len(q) > 0 /\ Head(q) = q[1] /\ 1 \in 1 .. Len(q)
  OBVIOUS
<1>3. /\ r \in Seq(Timer) /\ Len(r) = Len(q) - 1
      /\ \A i \in 1 .. Len(r) : i + 1 \in 1 .. Len(q) /\ r[i] = q[i + 1]
  BY <1>1, <1>2
<1>4. NoRepeats(r)
  BY <1>2, <1>3 DEF NoRepeats
<1>5. Ordered(r, d)
  <2>1. \A i, j \in 1 .. Len(q) : i < j => d[q[i]] <= d[q[j]]
    BY DEF Ordered
  <2>2. ASSUME NEW i \in 1 .. Len(r), NEW j \in 1 .. Len(r), i < j
        PROVE  d[r[i]] <= d[r[j]]
    <3>1. r[i] = q[i + 1] /\ r[j] = q[j + 1] /\ i + 1 \in 1 .. Len(q) /\ j + 1 \in 1 .. Len(q)
      BY <1>3
    <3>2. i + 1 < j + 1
      BY <1>2, <1>3, <2>2
    <3>3. QED
      BY <2>1, <3>1, <3>2
  <2>3. QED
    BY <2>2 DEF Ordered
<1>6. Elements(r) = Elements(q) \ {q[1]}
  <2>1. ASSUME NEW x \in Elements(r)
        PROVE  x \in Elements(q) \ {q[1]}
    <3>1. PICK i \in 1 .. Len(r) : x = r[i]
      BY DEF Elements
    <3>2. x = q[i + 1] /\ i + 1 \in 1 .. Len(q) /\ i + 1 # 1
      BY <1>3, <3>1
    <3>3. QED
      BY <1>2, <3>2 DEF Elements, NoRepeats
  <2>2. ASSUME NEW x \in Elements(q) \ {q[1]}
        PROVE  x \in Elements(r)
    <3>1. PICK i \in 1 .. Len(q) : x = q[i] /\ i # 1
      BY DEF Elements
    <3>2. i - 1 \in 1 .. Len(r) /\ r[i - 1] = x
      BY <1>3, <3>1
    <3>3. QED
      BY <3>2 DEF Elements
  <2>3. QED
    BY <2>1, <2>2
<1>7. QED
  BY <1>1, <1>2, <1>3, <1>4, <1>5, <1>6

-----------------------------------------------------------------------------
\* What the invariant says of one queue.

\* The hardware is set to h ms, in time for all the timers of S.
Covered(h, S, d) == \A t \in S : h # Off /\ (h = 0 \/ h <= d[t])

LEMMA Covering ==
  HardwareCoversQueue <=>
    \A c \in Cpu : tick[c].phase = "none" => Covered(hw[c], Elements(queue[c]), due)
BY DEF HardwareCoversQueue, Covered, Elements

LEMMA CoveringNext ==
  HardwareCoversQueue' <=>
    \A c \in Cpu : tick'[c].phase = "none" => Covered(hw'[c], Elements(queue'[c]), due')
BY DEF HardwareCoversQueue, Covered, Elements

\* What is in time for the head of an ordered queue is in time for all of it.
LEMMA CoveredByHead ==
  ASSUME NEW q \in Seq(Timer), NEW d \in [Timer -> Int], Ordered(q, d), q # << >>,
         NEW h \in Nat, h = 0 \/ h <= d[Head(q)]
  PROVE  Covered(h, Elements(q), d)
<1>1. Head(q) = q[1] /\ 1 \in 1 .. Len(q) /\ Len(q) \in Nat
  OBVIOUS
<1>2. ASSUME NEW t \in Elements(q), h # 0
      PROVE  h <= d[t]
  <2>1. PICK i \in 1 .. Len(q) : t = q[i]
    BY DEF Elements
  <2>2. d[q[1]] \in Int /\ d[q[i]] \in Int
    BY <1>1
  <2>3. i = 1 \/ d[q[1]] <= d[q[i]]
    BY <1>1 DEF Ordered
  <2>4. QED
    BY <1>1, <1>2, <2>1, <2>2, <2>3
<1>3. h # Off
  BY DEF Off
<1>4. QED
  BY <1>2, <1>3 DEF Covered

\* The types of what the invariant is about.
LEMMA Types ==
  ASSUME TypeOK
  PROVE  /\ now \in 0 .. TIMES - 1
         /\ \A c \in Cpu : queue[c] \in Seq(Timer) /\ Elements(queue[c]) \subseteq Timer
         /\ \A c \in Cpu : hw[c] \in Off .. MaxDelay /\ hw[c] \in Int
         /\ due \in [Timer -> DueRange] /\ due \in [Timer -> Int]
         /\ \A t \in Timer : due[t] \in DueRange /\ due[t] \in Int
         /\ Queued \subseteq Timer
<1>1. due \in [Timer -> DueRange]
  BY DEF TypeOK, DueRange
<1>2. \A t \in Timer : due[t] \in DueRange /\ due[t] \in Int
  BY <1>1, Half DEF DueRange
<1>3. due \in [Timer -> Int]
  BY <1>1, <1>2
<1>4. \A c \in Cpu : queue[c] \in Seq(Timer) /\ Elements(queue[c]) \subseteq Timer
  BY DEF TypeOK, Elements
<1>5. Queued \subseteq Timer
  BY <1>4 DEF Queued
<1>6. \A c \in Cpu : hw[c] \in Off .. MaxDelay /\ hw[c] \in Int
  BY Half DEF TypeOK, Off
<1>7. QED
  BY <1>1, <1>2, <1>3, <1>4, <1>5, <1>6 DEF TypeOK

\* The scheduled time of a timer of the queue.
LEMMA Scheduled ==
  ASSUME TimesOK, NEW c \in Cpu, NEW t \in Elements(queue[c])
  PROVE  t \in Queued /\ scheduled_time[t] = (now + due[t]) % TIMES
BY DEF TimesOK, Queued

\* insert_timer_in_queue() finds the place that fits the true time.
LEMMA FittingPlace ==
  ASSUME TypeOK, TimesOK, NEW c \in Cpu, NEW x \in 0 .. MaxDelay
  PROVE  /\ InsertedAt(queue[c], (now + x) % TIMES) \in 1 .. Len(queue[c]) + 1
         /\ Fits(queue[c], InsertedAt(queue[c], (now + x) % TIMES), due, x)
<1>1. PICK q, s, i : /\ q = queue[c] /\ s = (now + x) % TIMES
                     /\ i = InsertedAt(queue[c], (now + x) % TIMES)
  OBVIOUS
<1>2. q \in Seq(Timer)
  BY <1>1, Types
<1>3. /\ i \in 1 .. Len(q) + 1
      /\ i <= Len(q) => TIME_LT(s, scheduled_time[q[i]])
      /\ \A j \in 1 .. i - 1 : ~TIME_LT(s, scheduled_time[q[j]])
  BY <1>1, <1>2, Place
<1>4. ASSUME NEW j \in 1 .. Len(q)
      PROVE  /\ TIME_LT(s, scheduled_time[q[j]]) <=> x < due[q[j]]
             /\ due[q[j]] \in Int
  <2>1. q[j] \in Elements(queue[c])
    BY <1>1 DEF Elements
  <2>2. q[j] \in Timer /\ scheduled_time[q[j]] = (now + due[q[j]]) % TIMES
    BY <1>2, <2>1, Scheduled
  <2>3. x \in DueRange /\ due[q[j]] \in DueRange /\ due[q[j]] \in Int /\ now \in 0 .. TIMES - 1
    BY <2>2, Types, Half DEF DueRange
  <2>4. QED
    BY <1>1, <2>2, <2>3, Compare
<1>5. ASSUME NEW j \in 1 .. Len(q), j < i
      PROVE  due[q[j]] <= x
  <2>1. j \in 1 .. i - 1
    BY <1>3, <1>5
  <2>2. QED
    BY <1>3, <1>4, <2>1
<1>6. ASSUME i \in 1 .. Len(q)
      PROVE  x <= due[q[i]]
  BY <1>3, <1>4, <1>6
<1>7. Fits(q, i, due, x)
  BY <1>5, <1>6 DEF Fits
<1>8. QED
  BY <1>1, <1>3, <1>7

\* insert_timer_in_queue() of a timer that is in no list, with a delay of x.
LEMMA Enqueued ==
  ASSUME TypeOK, QueuesOK, TimesOK, NEW c \in Cpu, NEW t \in Timer, t \notin Queued,
         NEW x \in 0 .. MaxDelay, NEW q,
         q = insert_timer_in_queue(queue[c], t, (now + x) % TIMES),
         now' = now,
         queue' = [queue EXCEPT ![c] = q],
         scheduled_time' = [scheduled_time EXCEPT ![t] = (now + x) % TIMES],
         due' = [due EXCEPT ![t] = x]
  PROVE  /\ queue' \in [Cpu -> Seq(Timer)]
         /\ scheduled_time' \in [Timer -> 0 .. TIMES - 1]
         /\ due' \in [Timer -> DueRange]
         /\ QueuesOK'
         /\ TimesOK'
         /\ q \in Seq(Timer) /\ q # << >> /\ Ordered(q, due')
         /\ Elements(q) = Elements(queue[c]) \union {t}
         /\ Head(q) = t \/ Head(q) \in Elements(queue[c])
         /\ Queued' = Queued \union {t}
<1>1. PICK i : i = InsertedAt(queue[c], (now + x) % TIMES)
  OBVIOUS
<1>2. i \in 1 .. Len(queue[c]) + 1 /\ Fits(queue[c], i, due, x)
  BY <1>1, FittingPlace
<1>3. queue[c] \in Seq(Timer) /\ due \in [Timer -> Int] /\ due \in [Timer -> DueRange]
  BY Types
<1>4. Spliced(q, queue[c], t, i)
  BY <1>1, <1>2, <1>3, Splice DEF insert_timer_in_queue
<1>5. t \notin Elements(queue[c]) /\ NoRepeats(queue[c]) /\ Ordered(queue[c], due)
  BY DEF QueuesOK, Queued
<1>6. /\ due' \in [Timer -> DueRange] /\ due' \in [Timer -> Int]
      /\ due'[t] = x /\ OnlyOf(due, due', t)
  BY <1>3, Half DEF DueRange, OnlyOf
<1>7. NoRepeats(q) /\ Elements(q) = Elements(queue[c]) \union {t}
  BY <1>2, <1>3, <1>4, <1>5, SplicedElements
<1>8. Ordered(q, due')
  <2>1. PICK e : e = due'
    OBVIOUS
  <2>2. Fits(queue[c], i, due, e[t]) /\ e \in [Timer -> Int] /\ OnlyOf(due, e, t)
    BY <1>2, <1>6, <2>1
  <2>3. Ordered(q, e)
    BY <1>2, <1>3, <1>4, <1>5, <2>2, SplicedOrder
  <2>4. QED
    BY <2>1, <2>3
<1>9. q # << >> /\ (Head(q) = t \/ Head(q) \in Elements(queue[c]))
  <2>1. PICK p : p = queue[c]
    OBVIOUS
  <2>2. p \in Seq(Timer) /\ i \in 1 .. Len(p) + 1 /\ Spliced(q, p, t, i)
    BY <1>2, <1>3, <1>4, <2>1
  <2>3. q # << >> /\ (Head(q) = t \/ (1 \in 1 .. Len(p) /\ Head(q) = p[1]))
    BY <2>2, SplicedHead
  <2>4. QED
    BY <2>1, <2>3 DEF Elements
<1>10. q \in Seq(Timer)
  BY <1>4 DEF Spliced
<1>11. /\ queue' \in [Cpu -> Seq(Timer)] /\ queue'[c] = q
       /\ \A d \in Cpu \ {c} : queue'[d] = queue[d]
  BY <1>10 DEF TypeOK
<1>12. QueuesOK'
  <2>1. ASSUME NEW d \in Cpu
        PROVE  NoRepeats(queue'[d]) /\ Ordered(queue'[d], due')
    <3>1. CASE d = c
      BY <1>7, <1>8, <1>11, <3>1
    <3>2. CASE d # c
      <4>1. /\ queue'[d] = queue[d] /\ queue[d] \in Seq(Timer)
            /\ NoRepeats(queue[d]) /\ Ordered(queue[d], due)
        BY <1>11, <3>2, Types DEF QueuesOK
      <4>2. \A j \in 1 .. Len(queue[d]) : due'[queue[d][j]] = due[queue[d][j]]
        <5>1. SUFFICES ASSUME NEW j \in 1 .. Len(queue[d])
                       PROVE  due'[queue[d][j]] = due[queue[d][j]]
          OBVIOUS
        <5>2. queue[d][j] \in Timer /\ queue[d][j] # t
          BY <4>1 DEF Queued, Elements
        <5>3. QED
          BY <1>6, <5>2 DEF OnlyOf
      <4>3. Ordered(queue[d], due')
        BY <4>1, <4>2 DEF Ordered
      <4>4. QED
        BY <4>1, <4>3
    <3>3. QED
      BY <3>1, <3>2
  <2>2. ASSUME NEW d \in Cpu, NEW f \in Cpu, NEW u,
               u \in Elements(queue'[d]), u \in Elements(queue'[f])
        PROVE  d = f
    <3>1. CASE u = t
      <4>1. \A g \in Cpu : t \notin Elements(queue[g])
        BY DEF Queued
      <4>2. QED
        BY <1>11, <2>2, <3>1, <4>1
    <3>2. CASE u # t
      <4>1. u \in Elements(queue[d]) /\ u \in Elements(queue[f])
        BY <1>7, <1>11, <2>2, <3>2
      <4>2. QED
        BY <4>1 DEF QueuesOK
    <3>3. QED
      BY <3>1, <3>2
  <2>3. QED
    BY <2>1, <2>2 DEF QueuesOK
<1>13. Queued' = Queued \union {t}
  <2>1. ASSUME NEW u
        PROVE  u \in Queued' <=> u \in Queued \/ u = t
    <3>1. u \in Queued' <=> \E d \in Cpu : u \in Elements(queue'[d])
      BY DEF Queued
    <3>2. u \in Queued <=> \E d \in Cpu : u \in Elements(queue[d])
      BY DEF Queued
    <3>3. \A d \in Cpu : u \in Elements(queue'[d]) <=> u \in Elements(queue[d]) \/ (d = c /\ u = t)
      BY <1>7, <1>11
    <3>4. QED
      BY <3>1, <3>2, <3>3
  <2>2. QED
    BY <2>1
<1>14. (now + x) % TIMES \in 0 .. TIMES - 1
  <2>1. x \in DueRange /\ now \in 0 .. TIMES - 1
    BY Types, Half DEF DueRange
  <2>2. QED
    BY <2>1, Residue
<1>15. scheduled_time' \in [Timer -> 0 .. TIMES - 1]
  BY <1>14 DEF TypeOK
<1>16. TimesOK'
  <2>1. SUFFICES ASSUME NEW u \in Queued'
                 PROVE  scheduled_time'[u] = (now' + due'[u]) % TIMES
    BY DEF TimesOK
  <2>2. scheduled_time \in [Timer -> 0 .. TIMES - 1]
    BY DEF TypeOK
  <2>3. CASE u = t
    BY <1>6, <2>2, <2>3
  <2>4. CASE u # t
    <3>1. u \in Queued /\ u \in Timer
      BY <1>13, <2>4, Types
    <3>2. scheduled_time[u] = (now + due[u]) % TIMES
      BY <3>1 DEF TimesOK
    <3>3. due'[u] = due[u] /\ scheduled_time'[u] = scheduled_time[u]
      BY <1>6, <2>2, <2>4, <3>1 DEF OnlyOf
    <3>4. QED
      BY <3>2, <3>3
  <2>5. QED
    BY <2>3, <2>4
<1>17. QED
  BY <1>6, <1>7, <1>8, <1>9, <1>10, <1>11, <1>12, <1>13, <1>15, <1>16

-----------------------------------------------------------------------------
\* The steps keep the invariant.

\* timer_set(): the hardware is set again if the timer is the new head.
LEMMA SetStep ==
  ASSUME IInv, NEW c \in Cpu, NEW t \in Timer, NEW x \in 0 .. MaxDelay,
         NEW period \in 0 .. MaxDelay, timer_set(c, t, x, period)
  PROVE  /\ IInv' /\ Queued' = Queued \union {t}
         /\ Elements(queue'[c]) = Elements(queue[c]) \union {t}
         /\ \A d \in Cpu \ {c} : queue'[d] = queue[d]
<1>1. TypeOK /\ QueuesOK /\ TimesOK /\ TickOK /\ HardwareCoversQueue
  BY DEF IInv
<1>2. PICK q : q = insert_timer_in_queue(queue[c], t, (now + x) % TIMES)
  OBVIOUS
<1>3. /\ queue' = [queue EXCEPT ![c] = q]
      /\ scheduled_time' = [scheduled_time EXCEPT ![t] = (now + x) % TIMES]
      /\ due' = [due EXCEPT ![t] = x]
      /\ hw' = HwAfterSet(c, t, q, x)
      /\ now' = now /\ tick' = tick /\ crashed' = crashed
      /\ periodic_time' = [periodic_time EXCEPT ![t] = period]
      /\ callback' = callback \union {t} /\ wanted' = wanted \union {t}
      /\ t \notin Queued
  BY <1>2 DEF timer_set
<1>4. /\ queue' \in [Cpu -> Seq(Timer)]
      /\ scheduled_time' \in [Timer -> 0 .. TIMES - 1]
      /\ due' \in [Timer -> DueRange]
      /\ QueuesOK'
      /\ TimesOK'
      /\ q \in Seq(Timer) /\ q # << >> /\ Ordered(q, due')
      /\ Elements(q) = Elements(queue[c]) \union {t}
      /\ Head(q) = t \/ Head(q) \in Elements(queue[c])
      /\ Queued' = Queued \union {t}
  BY <1>1, <1>2, <1>3, Enqueued
<1>5. hw \in [Cpu -> Off .. MaxDelay] /\ x \in Off .. MaxDelay /\ x \in Nat
  BY <1>1, Half DEF TypeOK, Off
<1>6. hw' \in [Cpu -> Off .. MaxDelay]
  BY <1>3, <1>5 DEF HwAfterSet, platform_set_oneshot_timer
<1>7. TypeOK'
  BY <1>1, <1>3, <1>4, <1>6 DEF TypeOK, DueRange
<1>8. TickOK'
  BY <1>1, <1>3 DEF TickOK
<1>9. queue'[c] = q /\ \A d \in Cpu \ {c} : queue'[d] = queue[d]
  BY <1>1, <1>3 DEF TypeOK
<1>10. /\ due'[t] = x /\ \A u \in Timer \ {t} : due'[u] = due[u]
       /\ due' \in [Timer -> Int] /\ \A u \in Timer : due[u] \in Int
  <2>1. due \in [Timer -> DueRange] /\ \A u \in Timer : due[u] \in Int
    BY <1>1, Types
  <2>2. due' \in [Timer -> Int]
    BY <1>3, <1>5, <2>1
  <2>3. QED
    BY <1>3, <2>1, <2>2
<1>11. ASSUME NEW d \in Cpu, tick'[d].phase = "none"
       PROVE  Covered(hw'[d], Elements(queue'[d]), due')
  <2>1. Covered(hw[d], Elements(queue[d]), due)
    BY <1>1, <1>3, <1>11, Covering
  <2>2. CASE d # c
    <3>1. hw'[d] = hw[d] /\ queue'[d] = queue[d]
      BY <1>3, <1>5, <1>9, <2>2 DEF HwAfterSet, platform_set_oneshot_timer
    <3>2. \A u \in Elements(queue[d]) : due'[u] = due[u]
      BY <1>1, <1>3, <1>10, Types DEF Queued
    <3>3. QED
      BY <2>1, <3>1, <3>2 DEF Covered
  <2>3. CASE d = c /\ Head(q) = t
    <3>1. hw'[c] = x
      BY <1>3, <1>5, <2>3 DEF HwAfterSet, platform_set_oneshot_timer
    <3>2. PICK e : e = due'
      OBVIOUS
    <3>3. e \in [Timer -> Int] /\ Ordered(q, e) /\ x <= e[Head(q)]
      BY <1>4, <1>5, <1>10, <2>3, <3>2
    <3>4. Covered(x, Elements(q), e)
      BY <1>4, <1>5, <3>3, CoveredByHead
    <3>5. QED
      BY <1>9, <2>3, <3>1, <3>2, <3>4
  <2>4. CASE d = c /\ Head(q) # t
    <3>1. hw'[c] = hw[c]
      BY <1>3, <2>4 DEF HwAfterSet
    <3>2. PICK h : h = Head(q)
      OBVIOUS
    <3>3. h \in Elements(queue[c]) /\ h \in Timer /\ h # t /\ due'[h] = due[h] /\ hw[c] \in Int
      BY <1>1, <1>4, <1>10, <2>4, <3>2, Types
    <3>4. due'[h] <= x
      <4>1. /\ h = q[1] /\ 1 \in 1 .. Len(q) /\ Len(q) \in Nat
            /\ t \in Elements(q)
        BY <1>4, <3>2
      <4>2. PICK i \in 1 .. Len(q) : q[i] = t
        BY <4>1 DEF Elements
      <4>3. 1 < i
        BY <2>4, <3>2, <4>1, <4>2
      <4>4. QED
        BY <1>4, <1>10, <4>1, <4>2, <4>3 DEF Ordered
    <3>5. hw[c] # Off /\ (hw[c] = 0 \/ hw[c] <= due[h])
      BY <2>1, <2>4, <3>3 DEF Covered
    <3>6. hw[c] = 0 \/ hw[c] <= due'[t]
      BY <1>10, <3>3, <3>4, <3>5
    <3>7. \A u \in Elements(queue[c]) : due'[u] = due[u]
      BY <1>1, <1>3, <1>10, Types DEF Queued
    <3>8. QED
      BY <1>4, <1>9, <2>1, <2>4, <3>1, <3>5, <3>6, <3>7 DEF Covered
  <2>5. QED
    BY <2>2, <2>3, <2>4
<1>12. HardwareCoversQueue'
  BY <1>11, CoveringNext
<1>13. QED
  BY <1>4, <1>7, <1>8, <1>9, <1>12 DEF IInv

\* timer_cancel(): the timer leaves its list, on whichever CPU that is, and the
\* hardware of the calling CPU is set again if its list has a new head.
LEMMA CancelStep ==
  ASSUME IInv, NEW c \in Cpu, NEW t \in Timer, timer_cancel(c, t)
  PROVE  /\ IInv' /\ Queued' = Queued \ {t}
         /\ \A d \in Cpu : Elements(queue'[d]) = Elements(queue[d]) \ {t}
<1>1. TypeOK /\ QueuesOK /\ TimesOK /\ TickOK /\ HardwareCoversQueue
  BY DEF IInv
<1>2. /\ queue' = [d \in Cpu |-> Without(queue[d], t)]
      /\ periodic_time' = [periodic_time EXCEPT ![t] = 0]
      /\ callback' = callback \ {t} /\ wanted' = wanted \ {t}
      /\ due' = [due EXCEPT ![t] = 0]
      /\ now' = now /\ scheduled_time' = scheduled_time /\ tick' = tick /\ crashed' = crashed
  BY DEF timer_cancel, QueuesWithout, PeriodAfterCancel
<1>3. ASSUME NEW d \in Cpu
      PROVE  /\ queue'[d] \in Seq(Timer)
             /\ NoRepeats(queue'[d])
             /\ Ordered(queue'[d], due)
             /\ Elements(queue'[d]) = Elements(queue[d]) \ {t}
  <2>1. queue'[d] = Without(queue[d], t)
    BY <1>2
  <2>2. queue[d] \in Seq(Timer) /\ NoRepeats(queue[d]) /\ Ordered(queue[d], due)
    BY <1>1, Types DEF QueuesOK
  <2>3. QED
    BY <2>1, <2>2, Deleted
<1>4. /\ due' \in [Timer -> DueRange] /\ due' \in [Timer -> Int]
      /\ \A u \in Timer \ {t} : due'[u] = due[u]
  <2>1. due \in [Timer -> DueRange] /\ due \in [Timer -> Int] /\ 0 \in DueRange
    BY <1>1, Types, Half DEF DueRange
  <2>2. QED
    BY <1>2, <2>1
<1>5. Queued' = Queued \ {t} /\ Queued \subseteq Timer
  <2>1. ASSUME NEW u
        PROVE  u \in Queued' <=> u \in Queued /\ u # t
    <3>1. u \in Queued' <=> \E d \in Cpu : u \in Elements(queue'[d])
      BY DEF Queued
    <3>2. u \in Queued <=> \E d \in Cpu : u \in Elements(queue[d])
      BY DEF Queued
    <3>3. QED
      BY <1>3, <3>1, <3>2
  <2>2. QED
    BY <1>1, <2>1, Types
<1>6. TimesOK'
  BY <1>1, <1>2, <1>4, <1>5 DEF TimesOK
<1>7. ASSUME NEW d \in Cpu
      PROVE  Ordered(queue'[d], due')
  <2>1. PICK q : q = queue'[d]
    OBVIOUS
  <2>2. q \in Seq(Timer) /\ Ordered(q, due) /\ Elements(q) = Elements(queue[d]) \ {t}
    BY <1>3, <2>1
  <2>3. \A i \in 1 .. Len(q) : q[i] \in Timer /\ q[i] # t
    BY <2>2 DEF Elements
  <2>4. Ordered(q, due')
    BY <1>4, <2>2, <2>3 DEF Ordered
  <2>5. QED
    BY <2>1, <2>4
<1>8. QueuesOK'
  <2>1. \A d, f \in Cpu : Elements(queue'[d]) \intersect Elements(queue'[f]) # {} => d = f
    BY <1>1, <1>3 DEF QueuesOK
  <2>2. QED
    BY <1>3, <1>7, <2>1 DEF QueuesOK
<1>9. PICK q : q = queue'[c]
  OBVIOUS
<1>10. hw' = HwAfterCancel(c, q) /\ hw \in [Cpu -> Off .. MaxDelay]
  BY <1>1, <1>9 DEF timer_cancel, TypeOK
<1>11. ASSUME q # << >>, Head(q) # HeadOf(queue[c])
       PROVE  /\ hw'[c] \in 0 .. MaxDelay /\ hw'[c] \in Nat
              /\ hw'[c] = 0 \/ hw'[c] <= due'[Head(q)]
              /\ hw' = [hw EXCEPT ![c] = hw'[c]]
  <2>1. PICK h : h = Head(q)
    OBVIOUS
  <2>2. h \in Elements(q) /\ h # t /\ h \in Elements(queue[c])
    <3>1. q \in Seq(Timer) /\ Elements(q) = Elements(queue[c]) \ {t}
      BY <1>3, <1>9
    <3>2. h = q[1] /\ 1 \in 1 .. Len(q)
      BY <1>11, <2>1, <3>1
    <3>3. h \in Elements(q)
      BY <3>2 DEF Elements
    <3>4. QED
      BY <3>1, <3>3
  <2>3. /\ h \in Timer /\ due[h] \in DueRange /\ due[h] \in Int /\ now \in 0 .. TIMES - 1
        /\ scheduled_time[h] = (now + due[h]) % TIMES
    BY <1>1, <2>2, Types, Scheduled
  <2>4. PICK m : m = IF TIME_LT(scheduled_time[h], now) THEN 0 ELSE (scheduled_time[h] - now) % TIMES
    OBVIOUS
  <2>5. hw' = [hw EXCEPT ![c] = m]
    BY <1>10, <1>11, <2>1, <2>4 DEF HwAfterCancel, platform_set_oneshot_timer
  <2>6. /\ TIME_LT(scheduled_time[h], now) <=> due[h] < 0
        /\ 0 <= due[h] => (scheduled_time[h] - now) % TIMES = due[h]
    BY <2>3, CompareNow
  <2>7. m = IF due[h] < 0 THEN 0 ELSE due[h]
    <3>1. CASE due[h] < 0
      BY <2>4, <2>6, <3>1
    <3>2. CASE ~(due[h] < 0)
      <4>1. 0 <= due[h]
        BY <2>3, <3>2
      <4>2. ~TIME_LT(scheduled_time[h], now) /\ (scheduled_time[h] - now) % TIMES = due[h]
        BY <2>6, <3>2, <4>1
      <4>3. QED
        BY <2>4, <3>2, <4>2
    <3>3. QED
      BY <3>1, <3>2
  <2>8. m \in 0 .. MaxDelay /\ m \in Nat /\ (m = 0 \/ m <= due[h])
    BY <2>3, <2>7, Half DEF DueRange
  <2>9. QED
    BY <1>4, <1>10, <2>1, <2>2, <2>3, <2>5, <2>8
<1>12. /\ hw' \in [Cpu -> Off .. MaxDelay]
       /\ \A d \in Cpu \ {c} : hw'[d] = hw[d]
       /\ q # << >> /\ Head(q) = HeadOf(queue[c]) => hw'[c] = hw[c]
  <2>1. CASE q = << >>
    <3>1. hw' = [hw EXCEPT ![c] = Off]
      BY <1>10, <2>1 DEF HwAfterCancel, platform_stop_timer
    <3>2. Off \in Off .. MaxDelay
      BY Half DEF Off
    <3>3. QED
      BY <1>10, <2>1, <3>1, <3>2
  <2>2. CASE q # << >> /\ Head(q) = HeadOf(queue[c])
    BY <1>10, <2>2 DEF HwAfterCancel
  <2>3. CASE q # << >> /\ Head(q) # HeadOf(queue[c])
    <3>1. hw'[c] \in Off .. MaxDelay
      BY <1>11, <2>3, Half DEF Off
    <3>2. QED
      BY <1>10, <1>11, <2>3, <3>1
  <2>4. QED
    BY <2>1, <2>2, <2>3
<1>13. TypeOK'
  <2>1. queue' \in [Cpu -> Seq(Timer)]
    BY <1>2, <1>3
  <2>2. periodic_time' \in [Timer -> 0 .. MaxDelay]
    BY <1>1, <1>2, Half DEF TypeOK
  <2>3. QED
    BY <1>1, <1>2, <1>4, <1>12, <2>1, <2>2 DEF TypeOK, DueRange
<1>14. TickOK'
  BY <1>1, <1>2 DEF TickOK
<1>15. ASSUME NEW d \in Cpu, tick'[d].phase = "none"
       PROVE  Covered(hw'[d], Elements(queue'[d]), due')
  <2>1. Covered(hw[d], Elements(queue[d]), due)
    BY <1>1, <1>2, <1>15, Covering
  <2>2. \A u \in Elements(queue'[d]) : u \in Elements(queue[d]) /\ due'[u] = due[u]
    BY <1>1, <1>3, <1>4, Types
  <2>3. Covered(hw[d], Elements(queue'[d]), due')
    BY <2>1, <2>2 DEF Covered
  <2>4. CASE d # c
    BY <1>12, <2>3, <2>4
  <2>5. CASE d = c /\ q = << >>
    <3>1. Elements(queue'[d]) = {}
      BY <1>9, <2>5 DEF Elements
    <3>2. QED
      BY <3>1 DEF Covered
  <2>6. CASE d = c /\ q # << >> /\ Head(q) = HeadOf(queue[c])
    BY <1>12, <2>3, <2>6
  <2>7. CASE d = c /\ q # << >> /\ Head(q) # HeadOf(queue[c])
    <3>1. PICK e, h : e = due' /\ h = hw'[c]
      OBVIOUS
    <3>2. e \in [Timer -> Int] /\ Ordered(q, e) /\ q \in Seq(Timer)
      BY <1>3, <1>4, <1>7, <1>9, <3>1
    <3>3. h \in Nat /\ (h = 0 \/ h <= e[Head(q)])
      BY <1>11, <2>7, <3>1
    <3>4. Covered(h, Elements(q), e)
      BY <2>7, <3>2, <3>3, CoveredByHead
    <3>5. QED
      BY <1>9, <2>7, <3>1, <3>4
  <2>8. QED
    BY <2>4, <2>5, <2>6, <2>7
<1>16. HardwareCoversQueue'
  BY <1>15, CoveringNext
<1>17. QED
  BY <1>3, <1>5, <1>6, <1>8, <1>13, <1>14, <1>16 DEF IInv

\* What a step of timer_tick() that leaves the queues alone keeps.
LEMMA SameQueues ==
  ASSUME QueuesOK, TimesOK, UNCHANGED <<now, queue, scheduled_time, due>>
  PROVE  QueuesOK' /\ TimesOK' /\ Queued' = Queued
<1>1. Queued' = Queued
  BY DEF Queued
<1>2. QED
  BY <1>1 DEF QueuesOK, TimesOK

\* CPU c is in timer_tick() and the others' queues and hardware are left alone.
LEMMA OthersCovered ==
  ASSUME TypeOK, HardwareCoversQueue, NEW c \in Cpu, tick'[c].phase # "none",
         \A d \in Cpu \ {c} : /\ tick'[d] = tick[d] /\ hw'[d] = hw[d]
                              /\ queue'[d] = queue[d]
                              /\ \A t \in Elements(queue[d]) : due'[t] = due[t]
  PROVE  HardwareCoversQueue'
<1>1. ASSUME NEW d \in Cpu, tick'[d].phase = "none"
      PROVE  Covered(hw'[d], Elements(queue'[d]), due')
  <2>1. d \in Cpu \ {c}
    BY <1>1
  <2>2. Covered(hw[d], Elements(queue[d]), due)
    BY <1>1, <2>1, Covering
  <2>3. QED
    BY <2>1, <2>2 DEF Covered
<1>2. QED
  BY <1>1, CoveringNext

\* What timer_tick() writes of its own state.
LEMMA TickState ==
  ASSUME TypeOK, NEW c \in Cpu
  PROVE  /\ tick[c] \in [phase : {"none", "loop", "dequeued", "calling"},
                         timer : Timer \union {None}, periodic : BOOLEAN]
         /\ tick[c].timer \in Timer \union {None} /\ tick[c].periodic \in BOOLEAN
BY DEF TypeOK

\* The interrupt of an expired hardware timer begins.
LEMMA TickStartStep ==
  ASSUME IInv, NEW c \in Cpu, TickStart(c)
  PROVE  /\ IInv' /\ Queued' = Queued
         /\ \A d \in Cpu : tick'[d].timer = tick[d].timer /\ tick'[d].periodic = tick[d].periodic
         /\ tick'[c].phase = "loop" /\ tick[c].phase = "none"
         /\ \A d \in Cpu \ {c} : tick'[d] = tick[d]
<1>1. TypeOK /\ QueuesOK /\ TimesOK /\ TickOK /\ HardwareCoversQueue
  BY DEF IInv
<1>2. /\ hw' = [hw EXCEPT ![c] = Off] /\ tick[c].phase = "none"
      /\ UNCHANGED <<now, queue, scheduled_time, periodic_time, callback, due, wanted, crashed>>
  BY DEF TickStart, platform_stop_timer
<1>3. tick' = [tick EXCEPT ![c] = [tick[c] EXCEPT !.phase = "loop"]]
  BY DEF TickStart
<1>4. PICK y : y = [tick[c] EXCEPT !.phase = "loop"]
  OBVIOUS
<1>5. /\ y \in [phase : {"none", "loop", "dequeued", "calling"},
                timer : Timer \union {None}, periodic : BOOLEAN]
      /\ y.phase = "loop" /\ y.timer = tick[c].timer /\ y.periodic = tick[c].periodic
  BY <1>1, <1>4, TickState
<1>6. tick' = [tick EXCEPT ![c] = y]
  BY <1>3, <1>4
<1>7. tick'[c] = y /\ \A d \in Cpu \ {c} : tick'[d] = tick[d]
  BY <1>1, <1>6 DEF TypeOK
<1>8. hw' \in [Cpu -> Off .. MaxDelay] /\ \A d \in Cpu \ {c} : hw'[d] = hw[d]
  BY <1>1, <1>2, Half DEF TypeOK, Off
<1>9. TypeOK'
  BY <1>1, <1>2, <1>5, <1>6, <1>8 DEF TypeOK
<1>10. QueuesOK' /\ TimesOK' /\ Queued' = Queued
  BY <1>1, <1>2, SameQueues
<1>11. TickOK'
  BY <1>1, <1>2, <1>5, <1>7 DEF TickOK
<1>12. HardwareCoversQueue'
  BY <1>1, <1>2, <1>5, <1>7, <1>8, OthersCovered
<1>13. QED
  BY <1>2, <1>5, <1>7, <1>9, <1>10, <1>11, <1>12 DEF IInv

\* The first timer is due and leaves the queue.
LEMMA TickDequeueStep ==
  ASSUME IInv, NEW c \in Cpu, TickDequeue(c)
  PROVE  /\ IInv'
         /\ tick[c].phase = "loop" /\ tick'[c].phase = "dequeued"
         /\ tick'[c].timer \in Elements(queue[c]) /\ due[tick'[c].timer] <= 0
         /\ Elements(queue'[c]) = Elements(queue[c]) \ {tick'[c].timer}
         /\ \A d \in Cpu \ {c} : tick'[d] = tick[d] /\ queue'[d] = queue[d]
         /\ Queued' = Queued \ {tick'[c].timer}
<1>1. TypeOK /\ QueuesOK /\ TimesOK /\ TickOK /\ HardwareCoversQueue
  BY DEF IInv
<1>2. PICK q, t : q = queue[c] /\ t = Head(q)
  OBVIOUS
<1>3. /\ tick[c].phase = "loop" /\ q # << >> /\ ~TIME_LT(now, scheduled_time[t])
      /\ queue' = [queue EXCEPT ![c] = Tail(q)]
      /\ UNCHANGED <<now, scheduled_time, periodic_time, callback, hw, due, wanted, crashed>>
  BY <1>2 DEF TickDequeue, IsDue
<1>4. q \in Seq(Timer) /\ NoRepeats(q) /\ Ordered(q, due)
  BY <1>1, <1>2, Types DEF QueuesOK
<1>5. /\ t = q[1] /\ 1 \in 1 .. Len(q)
      /\ Tail(q) \in Seq(Timer) /\ NoRepeats(Tail(q)) /\ Ordered(Tail(q), due)
      /\ Elements(Tail(q)) = Elements(q) \ {t}
  BY <1>2, <1>3, <1>4, Popped
<1>6. t \in Elements(queue[c]) /\ t \in Timer /\ t \in Queued
  BY <1>2, <1>4, <1>5 DEF Elements, Queued
<1>7. due[t] <= 0
  <2>1. /\ due[t] \in DueRange /\ due[t] \in Int /\ now \in 0 .. TIMES - 1
        /\ scheduled_time[t] = (now + due[t]) % TIMES
    BY <1>1, <1>6, Types, Scheduled
  <2>2. ~(0 < due[t])
    BY <1>3, <2>1, CompareNow
  <2>3. QED
    BY <2>1, <2>2
<1>8. PICK y : y = [phase |-> "dequeued", timer |-> t, periodic |-> tick[c].periodic]
  OBVIOUS
<1>9. tick' = [tick EXCEPT ![c] = y]
  <2>1. PICK z : z = tick[c]
    OBVIOUS
  <2>2. z \in [phase : {"none", "loop", "dequeued", "calling"},
               timer : Timer \union {None}, periodic : BOOLEAN]
    BY <1>1, <2>1, TickState
  <2>3. [z EXCEPT !.phase = "dequeued", !.timer = t] = y
    <3>1. PICK w : w = [z EXCEPT !.phase = "dequeued"]
      OBVIOUS
    <3>2. /\ w \in [phase : {"none", "loop", "dequeued", "calling"},
                    timer : Timer \union {None}, periodic : BOOLEAN]
          /\ w.phase = "dequeued" /\ w.periodic = z.periodic
      BY <2>2, <3>1
    <3>3. [w EXCEPT !.timer = t] = y
      BY <1>8, <2>1, <3>2
    <3>4. [z EXCEPT !.phase = "dequeued", !.timer = t] = [w EXCEPT !.timer = t]
      BY <3>1, Zenon
    <3>5. QED
      BY <3>3, <3>4
  <2>4. tick' = [tick EXCEPT ![c] = [z EXCEPT !.phase = "dequeued", !.timer = t]]
    BY <1>2, <2>1, Zenon DEF TickDequeue
  <2>5. QED
    BY <2>3, <2>4
<1>10. /\ y \in [phase : {"none", "loop", "dequeued", "calling"},
                 timer : Timer \union {None}, periodic : BOOLEAN]
       /\ y.phase = "dequeued" /\ y.timer = t
  BY <1>1, <1>6, <1>8, TickState
<1>11. tick'[c] = y /\ \A d \in Cpu \ {c} : tick'[d] = tick[d]
  BY <1>1, <1>9 DEF TypeOK
<1>12. /\ queue' \in [Cpu -> Seq(Timer)] /\ queue'[c] = Tail(q)
       /\ \A d \in Cpu \ {c} : queue'[d] = queue[d]
  BY <1>1, <1>3, <1>5 DEF TypeOK
<1>13. TypeOK'
  BY <1>1, <1>3, <1>9, <1>10, <1>12 DEF TypeOK
<1>14. \A d \in Cpu : Elements(queue'[d]) \subseteq Elements(queue[d])
  BY <1>2, <1>5, <1>12
<1>15. QueuesOK'
  <2>1. \A d \in Cpu : NoRepeats(queue'[d]) /\ Ordered(queue'[d], due')
    BY <1>1, <1>3, <1>5, <1>12 DEF QueuesOK
  <2>2. \A d, f \in Cpu : Elements(queue'[d]) \intersect Elements(queue'[f]) # {} => d = f
    BY <1>1, <1>14 DEF QueuesOK
  <2>3. QED
    BY <2>1, <2>2 DEF QueuesOK
<1>16. Queued' = Queued \ {t}
  <2>1. ASSUME NEW u
        PROVE  u \in Queued' <=> u \in Queued /\ u # t
    <3>1. u \in Queued' <=> \E d \in Cpu : u \in Elements(queue'[d])
      BY DEF Queued
    <3>2. u \in Queued <=> \E d \in Cpu : u \in Elements(queue[d])
      BY DEF Queued
    <3>3. \A d \in Cpu \ {c} : t \notin Elements(queue[d])
      BY <1>1, <1>6 DEF QueuesOK
    <3>4. \A d \in Cpu : u \in Elements(queue'[d]) <=> u \in Elements(queue[d]) /\ u # t
      BY <1>2, <1>5, <1>12, <3>3
    <3>5. QED
      BY <3>1, <3>2, <3>4
  <2>2. QED
    BY <2>1
<1>17. TimesOK'
  BY <1>1, <1>3, <1>16 DEF TimesOK
<1>18. TickOK'
  <2>1. t # None
    BY <1>6, TimerAssumption
  <2>2. QED
    BY <1>1, <1>10, <1>11, <2>1 DEF TickOK
<1>19. HardwareCoversQueue'
  BY <1>1, <1>3, <1>10, <1>11, <1>12, OthersCovered
<1>20. QED
  BY <1>2, <1>3, <1>5, <1>6, <1>7, <1>10, <1>11, <1>12, <1>13, <1>15, <1>16, <1>17, <1>18,
     <1>19 DEF IInv

\* The callback is called.
LEMMA TickCallStep ==
  ASSUME IInv, NEW c \in Cpu, TickCall(c)
  PROVE  /\ IInv' /\ Queued' = Queued
         /\ tick'[c].phase = "calling" /\ tick'[c].timer = tick[c].timer
         /\ tick'[c].periodic = (periodic_time[tick[c].timer] > 0)
         /\ \A d \in Cpu \ {c} : tick'[d] = tick[d]
<1>1. TypeOK /\ QueuesOK /\ TimesOK /\ TickOK /\ HardwareCoversQueue
  BY DEF IInv
<1>2. PICK t : t = tick[c].timer
  OBVIOUS
<1>3. /\ tick[c].phase = "dequeued"
      /\ due' = [due EXCEPT ![t] = IF t \in Queued THEN due[t] ELSE 0]
      /\ crashed' = IF t \in callback THEN crashed ELSE crashed \union {c}
      /\ wanted' = IF periodic_time[t] > 0 THEN wanted ELSE wanted \ {t}
      /\ UNCHANGED <<now, queue, scheduled_time, periodic_time, callback, hw>>
  BY <1>2 DEF TickCall
<1>4. t \in Timer
  BY <1>1, <1>2, <1>3, TickState DEF TickOK
<1>5. PICK p \in BOOLEAN : p = (periodic_time[t] > 0)
  <2>1. CASE periodic_time[t] > 0
    <3>1. TRUE = (periodic_time[t] > 0)
      BY <2>1, Zenon
    <3>2. QED
      BY <3>1, Zenon
  <2>2. CASE ~(periodic_time[t] > 0)
    <3>1. FALSE = (periodic_time[t] > 0)
      BY <2>2, SMT
    <3>2. QED
      BY <3>1, Zenon
  <2>3. QED
    BY <2>1, <2>2
<1>6. PICK y : y = [phase |-> "calling", timer |-> t, periodic |-> p]
  OBVIOUS
<1>7. tick' = [tick EXCEPT ![c] = y]
  <2>1. PICK z : z = tick[c]
    OBVIOUS
  <2>2. z \in [phase : {"none", "loop", "dequeued", "calling"},
               timer : Timer \union {None}, periodic : BOOLEAN]
    BY <1>1, <2>1, TickState
  <2>3. [z EXCEPT !.phase = "calling", !.periodic = p] = y
    <3>1. PICK w : w = [z EXCEPT !.phase = "calling"]
      OBVIOUS
    <3>2. /\ w \in [phase : {"none", "loop", "dequeued", "calling"},
                    timer : Timer \union {None}, periodic : BOOLEAN]
          /\ w.phase = "calling" /\ w.timer = z.timer
      BY <2>2, <3>1
    <3>3. [w EXCEPT !.periodic = p] = y
      BY <1>2, <1>6, <2>1, <3>2
    <3>4. [z EXCEPT !.phase = "calling", !.periodic = p] = [w EXCEPT !.periodic = p]
      BY <3>1, Zenon
    <3>5. QED
      BY <3>3, <3>4
  <2>4. tick' = [tick EXCEPT ![c] = [z EXCEPT !.phase = "calling", !.periodic = p]]
    BY <1>2, <1>5, <2>1, Zenon DEF TickCall
  <2>5. QED
    BY <2>3, <2>4
<1>8. /\ y \in [phase : {"none", "loop", "dequeued", "calling"},
                timer : Timer \union {None}, periodic : BOOLEAN]
      /\ y.phase = "calling" /\ y.timer = t /\ y.periodic = p
  BY <1>4, <1>6
<1>9. tick'[c] = y /\ \A d \in Cpu \ {c} : tick'[d] = tick[d]
  BY <1>1, <1>7 DEF TypeOK
<1>10. due \in [Timer -> DueRange] /\ 0 \in DueRange
  BY <1>1, Types, Half DEF DueRange
<1>11. due' \in [Timer -> DueRange] /\ \A u \in Queued : due'[u] = due[u]
  <2>1. Queued \subseteq Timer
    BY <1>1, Types
  <2>2. QED
    BY <1>3, <1>4, <1>10, <2>1
<1>12. TypeOK'
  BY <1>1, <1>3, <1>7, <1>8, <1>11 DEF TypeOK, DueRange
<1>13. Queued' = Queued
  BY <1>3 DEF Queued
<1>14. TimesOK'
  BY <1>1, <1>3, <1>11, <1>13 DEF TimesOK
<1>15. \A d \in Cpu : \A u \in Elements(queue[d]) : due'[u] = due[u]
  BY <1>11 DEF Queued
<1>16. QueuesOK'
  <2>1. ASSUME NEW d \in Cpu
        PROVE  Ordered(queue[d], due')
    <3>1. \A i \in 1 .. Len(queue[d]) : due'[queue[d][i]] = due[queue[d][i]]
      BY <1>15 DEF Elements
    <3>2. QED
      BY <1>1, <3>1 DEF QueuesOK, Ordered
  <2>2. QED
    BY <1>1, <1>3, <2>1 DEF QueuesOK
<1>17. TickOK'
  <2>1. t # None
    BY <1>4, TimerAssumption
  <2>2. QED
    BY <1>1, <1>8, <1>9, <2>1 DEF TickOK
<1>18. HardwareCoversQueue'
  BY <1>1, <1>3, <1>8, <1>9, <1>15, OthersCovered
<1>19. QED
  BY <1>2, <1>5, <1>8, <1>9, <1>12, <1>13, <1>14, <1>16, <1>17, <1>18 DEF IInv

\* The callback returned: a periodic timer that is in no list goes back to the queue.
LEMMA TickReturnStep ==
  ASSUME IInv, NEW c \in Cpu, TickReturn(c)
  PROVE  /\ IInv'
         /\ tick[c].phase = "calling" /\ tick'[c].phase = "loop" /\ tick'[c].timer = None
         /\ tick[c].timer \in Timer
         /\ \A d \in Cpu \ {c} : tick'[d] = tick[d] /\ queue'[d] = queue[d]
         /\ Queued' = IF Requeues(c) THEN Queued \union {tick[c].timer} ELSE Queued
         /\ Elements(queue'[c]) = IF Requeues(c) THEN Elements(queue[c]) \union {tick[c].timer}
                                  ELSE Elements(queue[c])
<1>1. TypeOK /\ QueuesOK /\ TimesOK /\ TickOK /\ HardwareCoversQueue
  BY DEF IInv
<1>2. PICK t, s, y : /\ t = tick[c].timer /\ s = (now + periodic_time[t]) % TIMES
                     /\ y = [NoTick EXCEPT !.phase = "loop"]
  OBVIOUS
<1>3. /\ tick[c].phase = "calling"
      /\ UNCHANGED <<now, periodic_time, callback, hw, wanted, crashed>>
  BY DEF TickReturn
<1>4. tick' = [tick EXCEPT ![c] = y]
  BY <1>2, Zenon DEF TickReturn
<1>5. /\ y \in [phase : {"none", "loop", "dequeued", "calling"},
                timer : Timer \union {None}, periodic : BOOLEAN]
      /\ y.phase = "loop" /\ y.timer = None
  <2>1. PICK n : n = NoTick
    OBVIOUS
  <2>2. /\ n \in [phase : {"none", "loop", "dequeued", "calling"},
                  timer : Timer \union {None}, periodic : BOOLEAN]
        /\ n.timer = None
    BY <2>1 DEF NoTick
  <2>3. y = [n EXCEPT !.phase = "loop"]
    BY <1>2, <2>1
  <2>4. QED
    BY <2>2, <2>3
<1>6. /\ tick'[c] = y /\ \A d \in Cpu \ {c} : tick'[d] = tick[d]
      /\ tick' \in [Cpu -> [phase : {"none", "loop", "dequeued", "calling"},
                            timer : Timer \union {None}, periodic : BOOLEAN]]
  BY <1>1, <1>4, <1>5 DEF TypeOK
<1>7. t \in Timer
  BY <1>1, <1>2, <1>3, TickState DEF TickOK
<1>8. TickOK'
  BY <1>1, <1>5, <1>6 DEF TickOK
<1>9. CASE Requeues(c)
  <2>1. PICK q, x : q = insert_timer_in_queue(queue[c], t, s) /\ x = periodic_time[t]
    OBVIOUS
  <2>2. x \in 0 .. MaxDelay /\ s = (now + x) % TIMES /\ t \notin Queued
    BY <1>1, <1>2, <1>7, <1>9, <2>1 DEF TypeOK, Requeues
  <2>3. /\ queue' = [queue EXCEPT ![c] = q]
        /\ scheduled_time' = [scheduled_time EXCEPT ![t] = s]
        /\ due' = [due EXCEPT ![t] = x]
    BY <1>2, <1>9, <2>1 DEF TickReturn
  <2>4. /\ queue' \in [Cpu -> Seq(Timer)]
        /\ scheduled_time' \in [Timer -> 0 .. TIMES - 1]
        /\ due' \in [Timer -> DueRange]
        /\ QueuesOK' /\ TimesOK'
        /\ Elements(q) = Elements(queue[c]) \union {t}
        /\ Queued' = Queued \union {t}
    <3>1. /\ q = insert_timer_in_queue(queue[c], t, (now + x) % TIMES) /\ now' = now
          /\ scheduled_time' = [scheduled_time EXCEPT ![t] = (now + x) % TIMES]
      BY <1>3, <2>1, <2>2, <2>3
    <3>2. QED
      BY <1>1, <1>7, <2>2, <2>3, <3>1, Enqueued
  <2>5. queue'[c] = q /\ \A d \in Cpu \ {c} : queue'[d] = queue[d]
    BY <1>1, <2>3 DEF TypeOK
  <2>6. TypeOK'
    BY <1>1, <1>3, <1>6, <2>4 DEF TypeOK, DueRange
  <2>7. \A d \in Cpu \ {c} : \A u \in Elements(queue[d]) : due'[u] = due[u]
    <3>1. due \in [Timer -> DueRange] /\ Queued \subseteq Timer
      BY <1>1, Types
    <3>2. QED
      BY <2>2, <2>3, <3>1 DEF Queued
  <2>8. HardwareCoversQueue'
    BY <1>1, <1>3, <1>5, <1>6, <2>5, <2>7, OthersCovered
  <2>9. QED
    BY <1>2, <1>3, <1>5, <1>6, <1>7, <1>8, <1>9, <2>4, <2>5, <2>6, <2>8 DEF IInv
<1>10. CASE ~Requeues(c)
  <2>1. UNCHANGED <<scheduled_time, queue, due>>
    BY <1>10 DEF TickReturn
  <2>2. QueuesOK' /\ TimesOK' /\ Queued' = Queued
    BY <1>1, <1>3, <2>1, SameQueues
  <2>3. TypeOK'
    BY <1>1, <1>3, <1>6, <2>1 DEF TypeOK
  <2>4. HardwareCoversQueue'
    BY <1>1, <1>3, <1>5, <1>6, <2>1, OthersCovered
  <2>5. QED
    BY <1>2, <1>3, <1>5, <1>6, <1>7, <1>8, <1>10, <2>1, <2>2, <2>3, <2>4 DEF IInv
<1>11. QED
  BY <1>9, <1>10

\* Nothing more is due: the hardware is set for the new head of the queue.
LEMMA TickEndStep ==
  ASSUME IInv, NEW c \in Cpu, TickEnd(c)
  PROVE  /\ IInv' /\ Queued' = Queued
         /\ tick[c].phase = "loop" /\ tick'[c].phase = "none" /\ tick'[c].timer = None
         /\ \A d \in Cpu \ {c} : tick'[d] = tick[d]
<1>1. TypeOK /\ QueuesOK /\ TimesOK /\ TickOK /\ HardwareCoversQueue
  BY DEF IInv
<1>2. /\ tick[c].phase = "loop" /\ ~IsDue(c) /\ hw' = HwAfterTick(c)
      /\ tick' = [tick EXCEPT ![c] = NoTick]
      /\ UNCHANGED <<now, queue, scheduled_time, periodic_time, callback, due, wanted, crashed>>
  BY DEF TickEnd
<1>3. /\ NoTick \in [phase : {"none", "loop", "dequeued", "calling"},
                     timer : Timer \union {None}, periodic : BOOLEAN]
      /\ NoTick.phase = "none" /\ NoTick.timer = None
  BY DEF NoTick
<1>4. /\ tick'[c] = NoTick /\ \A d \in Cpu \ {c} : tick'[d] = tick[d]
      /\ tick' \in [Cpu -> [phase : {"none", "loop", "dequeued", "calling"},
                            timer : Timer \union {None}, periodic : BOOLEAN]]
  BY <1>1, <1>2, <1>3 DEF TypeOK
<1>5. QueuesOK' /\ TimesOK' /\ Queued' = Queued
  BY <1>1, <1>2, SameQueues
<1>6. TickOK'
  BY <1>1, <1>3, <1>4 DEF TickOK
<1>7. hw \in [Cpu -> Off .. MaxDelay] /\ queue[c] \in Seq(Timer) /\ Ordered(queue[c], due)
  BY <1>1, Types DEF TypeOK, QueuesOK
<1>8. ASSUME queue[c] # << >>
      PROVE  /\ hw'[c] \in Off .. MaxDelay /\ hw' = [hw EXCEPT ![c] = hw'[c]]
             /\ Covered(hw'[c], Elements(queue[c]), due)
  <2>1. PICK h, m : h = Head(queue[c]) /\ m = (scheduled_time[h] - now) % TIMES
    OBVIOUS
  <2>2. h \in Elements(queue[c])
    BY <1>7, <1>8, <2>1, HeadElement
  <2>3. /\ h \in Timer /\ due[h] \in DueRange /\ due[h] \in Int /\ now \in 0 .. TIMES - 1
        /\ scheduled_time[h] = (now + due[h]) % TIMES /\ due \in [Timer -> Int]
    BY <1>1, <2>2, Types, Scheduled
  <2>4. TIME_LT(now, scheduled_time[h])
    BY <1>2, <1>8, <2>1 DEF IsDue
  <2>5. 0 < due[h] /\ m = due[h]
    <3>1. 0 < due[h]
      BY <2>3, <2>4, CompareNow
    <3>2. 0 <= due[h]
      BY <2>3, <3>1
    <3>3. QED
      BY <2>1, <2>3, <3>1, <3>2, CompareNow
  <2>6. hw' = [hw EXCEPT ![c] = m]
    BY <1>2, <1>8, <2>1 DEF HwAfterTick, platform_set_oneshot_timer
  <2>7. m \in Nat /\ m \in Off .. MaxDelay /\ m <= due[h]
    BY <2>3, <2>5, Half DEF DueRange, Off
  <2>8. Covered(m, Elements(queue[c]), due)
    BY <1>7, <1>8, <2>1, <2>3, <2>7, CoveredByHead
  <2>9. QED
    BY <1>7, <2>6, <2>7, <2>8
<1>9. hw' \in [Cpu -> Off .. MaxDelay] /\ \A d \in Cpu \ {c} : hw'[d] = hw[d]
  <2>1. CASE queue[c] = << >>
    BY <1>2, <1>7, <2>1 DEF HwAfterTick
  <2>2. CASE queue[c] # << >>
    BY <1>7, <1>8, <2>2
  <2>3. QED
    BY <2>1, <2>2
<1>10. TypeOK'
  BY <1>1, <1>2, <1>4, <1>9 DEF TypeOK
<1>11. ASSUME NEW d \in Cpu, tick'[d].phase = "none"
       PROVE  Covered(hw'[d], Elements(queue'[d]), due')
  <2>1. CASE d # c
    BY <1>1, <1>2, <1>4, <1>9, <1>11, <2>1, Covering
  <2>2. CASE d = c /\ queue[c] = << >>
    <3>1. Elements(queue'[d]) = {}
      BY <1>2, <2>2 DEF Elements
    <3>2. QED
      BY <3>1 DEF Covered
  <2>3. CASE d = c /\ queue[c] # << >>
    BY <1>2, <1>8, <2>3
  <2>4. QED
    BY <2>1, <2>2, <2>3
<1>12. HardwareCoversQueue'
  BY <1>11, CoveringNext
<1>13. QED
  BY <1>2, <1>3, <1>4, <1>5, <1>6, <1>10, <1>12 DEF IInv

\* A millisecond passes: every queued timer and every hardware timer has one less.
LEMMA ClockStep ==
  ASSUME IInv, Clock
  PROVE  IInv' /\ Queued' = Queued
<1>1. TypeOK /\ QueuesOK /\ TimesOK /\ TickOK /\ HardwareCoversQueue
  BY DEF IInv
<1>2. /\ \A t \in Queued : due[t] > -MaxLate
      /\ now' = (now + 1) % TIMES
      /\ hw' = [c \in Cpu |-> IF hw[c] > 0 THEN hw[c] - 1 ELSE hw[c]]
      /\ due' = [t \in Timer |-> IF t \in Queued THEN due[t] - 1 ELSE due[t]]
      /\ UNCHANGED <<queue, scheduled_time, periodic_time, callback, tick, wanted, crashed>>
  BY DEF Clock
<1>3. /\ now \in 0 .. TIMES - 1 /\ due \in [Timer -> DueRange] /\ Queued \subseteq Timer
      /\ \A t \in Timer : due[t] \in DueRange /\ due[t] \in Int
  BY <1>1, Types
<1>4. Queued' = Queued
  BY <1>2 DEF Queued
<1>5. \A t \in Queued : due'[t] = due[t] - 1 /\ due[t] \in Int
  BY <1>2, <1>3
<1>6. due' \in [Timer -> DueRange]
  <2>1. ASSUME NEW t \in Timer
        PROVE  due'[t] \in DueRange
    <3>1. CASE t \in Queued
      BY <1>2, <1>3, <1>5, <3>1, Half DEF DueRange
    <3>2. CASE t \notin Queued
      BY <1>2, <1>3, <3>2
    <3>3. QED
      BY <3>1, <3>2
  <2>2. QED
    BY <1>2, <2>1
<1>7. now' \in 0 .. TIMES - 1
  <2>1. 0 \in DueRange
    BY Half DEF DueRange
  <2>2. QED
    BY <1>2, <1>3, <2>1, Later
<1>8. /\ hw' \in [Cpu -> Off .. MaxDelay]
      /\ \A c \in Cpu : hw'[c] = IF hw[c] > 0 THEN hw[c] - 1 ELSE hw[c]
      /\ \A c \in Cpu : hw[c] \in Off .. MaxDelay /\ hw[c] \in Int
  <2>1. \A c \in Cpu : hw[c] \in Off .. MaxDelay /\ hw[c] \in Int
    BY <1>1, Types
  <2>2. \A c \in Cpu : (IF hw[c] > 0 THEN hw[c] - 1 ELSE hw[c]) \in Off .. MaxDelay
    BY <2>1, Half DEF Off
  <2>3. QED
    BY <1>2, <2>1, <2>2
<1>9. TypeOK'
  BY <1>1, <1>2, <1>6, <1>7, <1>8 DEF TypeOK, DueRange
<1>10. TimesOK'
  <2>1. SUFFICES ASSUME NEW t \in Queued
                 PROVE  scheduled_time[t] = (now' + due'[t]) % TIMES
    BY <1>2, <1>4 DEF TimesOK
  <2>2. scheduled_time[t] = (now + due[t]) % TIMES /\ due[t] \in DueRange
    BY <1>1, <1>3 DEF TimesOK
  <2>3. (((now + 1) % TIMES) + (due[t] - 1)) % TIMES = (now + due[t]) % TIMES
    BY <1>3, <2>2, Later
  <2>4. QED
    BY <1>2, <1>5, <2>2, <2>3
<1>11. QueuesOK'
  <2>1. ASSUME NEW c \in Cpu
        PROVE  Ordered(queue[c], due')
    <3>1. \A i \in 1 .. Len(queue[c]) : /\ due'[queue[c][i]] = due[queue[c][i]] - 1
                                        /\ due[queue[c][i]] \in Int
      BY <1>5 DEF Queued, Elements
    <3>2. Ordered(queue[c], due)
      BY <1>1 DEF QueuesOK
    <3>3. QED
      BY <3>1, <3>2 DEF Ordered
  <2>2. QED
    BY <1>1, <1>2, <2>1 DEF QueuesOK
<1>12. TickOK'
  BY <1>1, <1>2 DEF TickOK
<1>13. ASSUME NEW c \in Cpu, tick'[c].phase = "none"
       PROVE  Covered(hw'[c], Elements(queue'[c]), due')
  <2>1. Covered(hw[c], Elements(queue[c]), due)
    BY <1>1, <1>2, <1>13, Covering
  <2>2. ASSUME NEW t \in Elements(queue[c])
        PROVE  hw'[c] # Off /\ (hw'[c] = 0 \/ hw'[c] <= due'[t])
    <3>1. due'[t] = due[t] - 1 /\ due[t] \in Int
      BY <1>5 DEF Queued
    <3>2. hw[c] # Off /\ (hw[c] = 0 \/ hw[c] <= due[t])
      BY <2>1 DEF Covered
    <3>3. /\ hw[c] \in Int /\ -1 <= hw[c]
          /\ hw'[c] = IF hw[c] > 0 THEN hw[c] - 1 ELSE hw[c]
      BY <1>8, Half DEF Off
    <3>4. QED
      BY <3>1, <3>2, <3>3 DEF Off
  <2>3. QED
    BY <1>2, <2>2 DEF Covered
<1>14. HardwareCoversQueue'
  BY <1>13, CoveringNext
<1>15. QED
  BY <1>4, <1>9, <1>10, <1>11, <1>12, <1>14 DEF IInv

\* timer_initialize() and timer_init() establish the invariant.
LEMMA Initially == Init => IInv
<1>1. SUFFICES ASSUME Init
               PROVE  IInv
  OBVIOUS
<1>2. \A c \in Cpu : queue[c] = << >>
  BY <1>1 DEF Init
<1>3. \A c \in Cpu : Len(queue[c]) = 0 /\ Elements(queue[c]) = {}
  BY <1>2 DEF Elements
<1>4. TypeOK
  <2>1. 0 \in 0 .. TIMES - 1 /\ 0 \in 0 .. MaxDelay /\ 0 \in -MaxLate .. MaxDelay
        /\ Off \in Off .. MaxDelay
    BY Half DEF Off
  <2>2. NoTick \in [phase : {"none", "loop", "dequeued", "calling"},
                    timer : Timer \union {None}, periodic : BOOLEAN]
    BY DEF NoTick
  <2>3. queue \in [Cpu -> Seq(Timer)]
    BY <1>1 DEF Init
  <2>4. QED
    BY <1>1, <2>1, <2>2, <2>3 DEF Init, TypeOK
<1>5. QueuesOK
  BY <1>3 DEF QueuesOK, NoRepeats, Ordered
<1>6. TimesOK
  BY <1>3 DEF TimesOK, Queued
<1>7. TickOK
  BY <1>1 DEF Init, TickOK, NoTick
<1>8. HardwareCoversQueue
  BY <1>3 DEF HardwareCoversQueue
<1>9. QED
  BY <1>4, <1>5, <1>6, <1>7, <1>8 DEF IInv

\* Every step keeps the invariant, and no timer leaves a queue to be called early.
LEMMA Inductive ==
  ASSUME IInv, [Next]_vars
  PROVE  /\ IInv'
         /\ \A c \in Cpu : tick[c].phase = "loop" /\ tick'[c].phase = "dequeued" =>
                              due[tick'[c].timer] <= 0
<1>1. ASSUME NEW c \in Cpu, NEW t \in Timer, NEW delay \in 0 .. MaxDelay,
             timer_set_oneshot(c, t, delay) \/ timer_set_periodic(c, t, delay)
      PROVE  IInv' /\ tick' = tick
  <2>1. PICK x, period : /\ x = AtLeastOne(delay) /\ period \in {0, x}
                         /\ timer_set(c, t, x, period)
    BY <1>1 DEF timer_set_oneshot, timer_set_periodic
  <2>2. x \in 0 .. MaxDelay /\ period \in 0 .. MaxDelay
    BY <1>1, <2>1, TimerAssumption DEF AtLeastOne
  <2>3. tick' = tick
    BY <2>1 DEF timer_set
  <2>4. QED
    BY <2>1, <2>2, <2>3, SetStep
<1>2. ASSUME NEW c \in Cpu, NEW t \in Timer, timer_cancel(c, t)
      PROVE  IInv' /\ tick' = tick
  BY <1>2, CancelStep DEF timer_cancel
<1>3. ASSUME NEW c \in Cpu, TickStart(c)
      PROVE  /\ IInv' /\ \A d \in Cpu \ {c} : tick'[d] = tick[d]
             /\ tick'[c].phase = "loop"
  BY <1>3, TickStartStep
<1>4. ASSUME NEW c \in Cpu, TickDequeue(c)
      PROVE  /\ IInv' /\ \A d \in Cpu \ {c} : tick'[d] = tick[d]
             /\ due[tick'[c].timer] <= 0
  BY <1>4, TickDequeueStep
<1>5. ASSUME NEW c \in Cpu, TickCall(c)
      PROVE  /\ IInv' /\ \A d \in Cpu \ {c} : tick'[d] = tick[d]
             /\ tick'[c].phase = "calling"
  BY <1>5, TickCallStep
<1>6. ASSUME NEW c \in Cpu, TickReturn(c)
      PROVE  /\ IInv' /\ \A d \in Cpu \ {c} : tick'[d] = tick[d]
             /\ tick'[c].phase = "loop"
  BY <1>6, TickReturnStep
<1>7. ASSUME NEW c \in Cpu, TickEnd(c)
      PROVE  /\ IInv' /\ \A d \in Cpu \ {c} : tick'[d] = tick[d]
             /\ tick'[c].phase = "none"
  BY <1>7, TickEndStep
<1>8. CASE Clock
  BY <1>8, ClockStep DEF Clock
<1>9. CASE UNCHANGED vars
  <2>1. /\ UNCHANGED <<now, queue, scheduled_time, due>> /\ tick' = tick /\ hw' = hw
        /\ periodic_time' = periodic_time /\ callback' = callback
        /\ wanted' = wanted /\ crashed' = crashed
    BY <1>9 DEF vars
  <2>2. QueuesOK' /\ TimesOK'
    BY <2>1, SameQueues DEF IInv
  <2>3. TypeOK'
    BY <2>1 DEF IInv, TypeOK
  <2>4. TickOK' /\ HardwareCoversQueue'
    BY <2>1, Zenon DEF IInv, TickOK, HardwareCoversQueue
  <2>5. QED
    BY <2>1, <2>2, <2>3, <2>4 DEF IInv
<1>10. QED
  <2>0. \A period \in 0 .. MaxPeriod : period \in 0 .. MaxDelay
    BY TimerAssumption
  <2>1. CASE \E c \in Cpu, t \in Timer :
               \/ \E delay \in 0 .. MaxDelay : timer_set_oneshot(c, t, delay)
               \/ \E period \in 0 .. MaxPeriod : timer_set_periodic(c, t, period)
               \/ timer_cancel(c, t)
    BY <1>1, <1>2, <2>0, <2>1
  <2>2. CASE \E c \in Cpu : \/ TickStart(c) \/ TickDequeue(c) \/ TickCall(c)
                            \/ TickReturn(c) \/ TickEnd(c)
    BY <1>3, <1>4, <1>5, <1>6, <1>7, <2>2
  <2>3. QED
    BY <1>8, <1>9, <2>1, <2>2 DEF Next

-----------------------------------------------------------------------------
\* The inductive invariant of kernel/timer.c: each timer is in at most one list,
\* the lists are ordered by the time left although insert_timer_in_queue()
\* compares wrapping times, scheduled_time is the wrapped due time, and the
\* hardware of every CPU outside of timer_tick() is early enough.
THEOREM TimerInvariant == Spec => []IInv
<1>1. IInv /\ [Next]_vars => IInv'
  BY Inductive
<1>2. QED
  BY Initially, <1>1, PTL DEF Spec

\* The hardware timer interrupts in time for every timer of the queue, whatever
\* timer_set(), timer_cancel() and timer_tick() do on whichever CPU.
THEOREM HardwareIsInTime == Spec => []HardwareCoversQueue
<1>1. IInv => HardwareCoversQueue
  BY DEF IInv
<1>2. QED
  BY <1>1, TimerInvariant, PTL

\* timer_tick() takes no timer off its queue before it is due, however the times
\* wrap: comparing the residues with TIME_LT() is enough.
THEOREM NoTimerIsEarly == Spec => NeverEarly
<1>1. IInv /\ [Next]_vars =>
        [\A c \in Cpu : tick[c].phase = "loop" /\ tick'[c].phase = "dequeued" =>
            due[tick'[c].timer] <= 0]_vars
  BY Inductive
<1>2. QED
  BY <1>1, TimerInvariant, PTL DEF Spec, NeverEarly

-----------------------------------------------------------------------------
(***************************************************************************)
(* Owed calls, where callers keep off the timers that other CPUs fire.     *)
(***************************************************************************)

\* CPU c will call or queue again the timer it holds.
Flies(c) ==
    \/ tick[c].phase = "dequeued"
    \/ tick[c].phase = "calling" /\ tick[c].periodic /\ periodic_time[tick[c].timer] > 0

LEMMA Flying ==
  ASSUME TypeOK, TickOK
  PROVE  \A u : u \in InFlight <=> \E c \in Cpu : tick[c].timer = u /\ Flies(c)
<1>1. ASSUME NEW c \in Cpu, Flies(c)
      PROVE  tick[c].timer \in Timer
  BY <1>1, TickState DEF Flies, TickOK
<1>2. QED
  BY <1>1 DEF InFlight, Flies

LEMMA FlyingNext ==
  ASSUME TypeOK', TickOK'
  PROVE  \A u : u \in InFlight' <=> \E c \in Cpu : tick'[c].timer = u /\ Flies(c)'
<1>1. ASSUME NEW c \in Cpu, Flies(c)'
      PROVE  tick'[c].timer \in Timer
  BY <1>1 DEF Flies, TickOK, TypeOK
<1>2. QED
  BY <1>1 DEF InFlight, Flies

\* Nobody is owed a call but for the queued and held timers, pointwise.
LEMMA Owed == OwedTimersAreQueued <=> \A u : u \in wanted <=> u \in Queued \/ u \in InFlight
BY DEF OwedTimersAreQueued

LEMMA OwedNext ==
  OwedTimersAreQueued' <=> \A u : u \in wanted' <=> u \in Queued' \/ u \in InFlight'
BY DEF OwedTimersAreQueued

\* timer_set(): a timer the caller's own timer_tick() holds may be queued again.
LEMMA SetOwed ==
  ASSUME Serialized, SerializedInv, NEW c \in Cpu, NEW t \in Timer,
         NEW x \in 0 .. MaxDelay, NEW period \in 0 .. MaxDelay, timer_set(c, t, x, period)
  PROVE  SerializedInv'
<1>1. IInv /\ HeldOK /\ OwedTimersAreQueued
  BY DEF SerializedInv
<1>2. /\ IInv' /\ Queued' = Queued \union {t}
      /\ Elements(queue'[c]) = Elements(queue[c]) \union {t}
      /\ \A d \in Cpu \ {c} : queue'[d] = queue[d]
  BY <1>1, SetStep
<1>3. /\ periodic_time' = [periodic_time EXCEPT ![t] = period]
      /\ callback' = callback \union {t} /\ wanted' = wanted \union {t}
      /\ tick' = tick /\ crashed' = crashed /\ t \notin Queued
      /\ tick[c].phase \in {"none", "calling"} /\ \A d \in Cpu \ {c} : tick[d].timer # t
  BY DEF timer_set, Caller, Mine
<1>4. \A u \in Timer \ {t} : periodic_time'[u] = periodic_time[u]
  BY <1>1, <1>3 DEF IInv, TypeOK
<1>5. HeldOK'
  <2>1. \A d, f \in Cpu : tick'[d].timer # None /\ tick'[d].timer = tick'[f].timer => d = f
    BY <1>1, <1>3 DEF HeldOK
  <2>2. ASSUME NEW d \in Cpu, NEW f \in Cpu, tick'[d].timer \in Elements(queue'[f])
        PROVE  d = f /\ tick'[d].phase = "calling"
    <3>1. CASE tick[d].timer = t
      <4>1. d = c
        BY <1>3, <3>1
      <4>2. f = c
        BY <1>2, <1>3, <2>2, <3>1 DEF Queued
      <4>3. tick[c].phase = "calling"
        BY <1>1, <1>3, <3>1, <4>1, TimerAssumption DEF IInv, TickOK
      <4>4. QED
        BY <1>3, <4>1, <4>2, <4>3
    <3>2. CASE tick[d].timer # t
      <4>1. tick[d].timer \in Elements(queue[f])
        BY <1>2, <1>3, <2>2, <3>2
      <4>2. QED
        BY <1>1, <1>3, <4>1 DEF HeldOK
    <3>3. QED
      BY <3>1, <3>2
  <2>3. wanted' \subseteq callback' /\ crashed' = {}
    BY <1>1, <1>3 DEF HeldOK
  <2>4. QED
    BY <2>1, <2>2, <2>3 DEF HeldOK
<1>6. ASSUME NEW u, u # t
      PROVE  u \in InFlight' <=> u \in InFlight
  <2>1. ASSUME NEW d \in Cpu, tick[d].timer = u
        PROVE  Flies(d)' <=> Flies(d)
    <3>1. CASE tick[d].phase = "calling"
      <4>1. u \in Timer
        BY <1>1, <2>1, <3>1, TickState DEF IInv, TickOK
      <4>2. periodic_time'[u] = periodic_time[u]
        BY <1>4, <1>6, <4>1
      <4>3. QED
        BY <1>3, <2>1, <4>2 DEF Flies
    <3>2. CASE tick[d].phase # "calling"
      BY <1>3, <3>2 DEF Flies
    <3>3. QED
      BY <3>1, <3>2
  <2>2. u \in InFlight <=> \E d \in Cpu : tick[d].timer = u /\ Flies(d)
    BY <1>1, Flying DEF IInv
  <2>3. u \in InFlight' <=> \E d \in Cpu : tick'[d].timer = u /\ Flies(d)'
    BY <1>2, FlyingNext DEF IInv
  <2>4. QED
    BY <1>3, <2>1, <2>2, <2>3
<1>7. OwedTimersAreQueued'
  BY <1>1, <1>2, <1>3, <1>6, Owed, OwedNext
<1>8. QED
  BY <1>2, <1>5, <1>7 DEF SerializedInv

\* timer_cancel(): the timer's own callback may cancel it, other CPUs keep off.
LEMMA CancelOwed ==
  ASSUME Serialized, SerializedInv, NEW c \in Cpu, NEW t \in Timer, timer_cancel(c, t)
  PROVE  SerializedInv'
<1>1. IInv /\ HeldOK /\ OwedTimersAreQueued
  BY DEF SerializedInv
<1>2. /\ IInv' /\ Queued' = Queued \ {t}
      /\ \A d \in Cpu : Elements(queue'[d]) = Elements(queue[d]) \ {t}
  BY <1>1, CancelStep
<1>3. /\ periodic_time' = [periodic_time EXCEPT ![t] = 0]
      /\ callback' = callback \ {t} /\ wanted' = wanted \ {t}
      /\ tick' = tick /\ crashed' = crashed
      /\ tick[c].phase \in {"none", "calling"} /\ \A d \in Cpu \ {c} : tick[d].timer # t
  BY DEF timer_cancel, PeriodAfterCancel, Caller, Mine
<1>4. periodic_time'[t] = 0 /\ \A u \in Timer \ {t} : periodic_time'[u] = periodic_time[u]
  BY <1>1, <1>3 DEF IInv, TypeOK
<1>5. HeldOK'
  BY <1>1, <1>2, <1>3 DEF HeldOK
<1>6. ASSUME NEW u, u # t
      PROVE  u \in InFlight' <=> u \in InFlight
  <2>1. ASSUME NEW d \in Cpu, tick[d].timer = u
        PROVE  Flies(d)' <=> Flies(d)
    <3>1. CASE tick[d].phase = "calling"
      <4>1. u \in Timer
        BY <1>1, <2>1, <3>1, TickState DEF IInv, TickOK
      <4>2. periodic_time'[u] = periodic_time[u]
        BY <1>4, <1>6, <4>1
      <4>3. QED
        BY <1>3, <2>1, <4>2 DEF Flies
    <3>2. CASE tick[d].phase # "calling"
      BY <1>3, <3>2 DEF Flies
    <3>3. QED
      BY <3>1, <3>2
  <2>2. u \in InFlight <=> \E d \in Cpu : tick[d].timer = u /\ Flies(d)
    BY <1>1, Flying DEF IInv
  <2>3. u \in InFlight' <=> \E d \in Cpu : tick'[d].timer = u /\ Flies(d)'
    BY <1>2, FlyingNext DEF IInv
  <2>4. QED
    BY <1>3, <2>1, <2>2, <2>3
<1>7. t \notin InFlight'
  <2>1. ~(0 > 0)
    OBVIOUS
  <2>2. ASSUME NEW d \in Cpu, tick'[d].timer = t
        PROVE  ~Flies(d)'
    BY <1>3, <1>4, <2>1, <2>2 DEF Flies
  <2>3. QED
    BY <1>2, <2>2, FlyingNext DEF IInv
<1>8. OwedTimersAreQueued'
  BY <1>1, <1>2, <1>3, <1>6, <1>7, Owed, OwedNext
<1>9. QED
  BY <1>2, <1>5, <1>8 DEF SerializedInv

\* What a CPU whose timer_tick() does not move holds.
LEMMA SameFlight ==
  ASSUME NEW c \in Cpu, tick'[c] = tick[c], periodic_time' = periodic_time
  PROVE  Flies(c)' <=> Flies(c)
BY DEF Flies

\* A step of timer_tick() that neither takes nor gives up a timer.
LEMMA IdleOwed ==
  ASSUME SerializedInv, IInv', Queued' = Queued, queue' = queue, wanted' = wanted,
         callback' = callback, crashed' = crashed, periodic_time' = periodic_time,
         \A d \in Cpu : tick'[d] = tick[d] \/ (tick'[d].timer = None /\ tick[d].timer = None)
  PROVE  SerializedInv'
<1>1. IInv /\ HeldOK /\ OwedTimersAreQueued
  BY DEF SerializedInv
<1>2. ASSUME NEW d \in Cpu
      PROVE  tick'[d].timer = tick[d].timer /\ (Flies(d)' <=> Flies(d))
  <2>1. CASE tick'[d] = tick[d]
    BY <2>1, SameFlight
  <2>2. CASE tick'[d].timer = None /\ tick[d].timer = None
    BY <1>1, <2>2 DEF IInv, TickOK, Flies
  <2>3. QED
    BY <2>1, <2>2
<1>3. HeldOK'
  <2>1. ASSUME NEW d \in Cpu, NEW f \in Cpu, tick'[d].timer \in Elements(queue'[f])
        PROVE  d = f /\ tick'[d].phase = "calling"
    <3>1. tick[d].timer \in Elements(queue[f])
      BY <1>2, <2>1
    <3>2. tick[d].timer # None
      BY <1>1, <3>1, Types, TimerAssumption DEF IInv
    <3>3. tick'[d] = tick[d]
      BY <3>2
    <3>4. QED
      BY <1>1, <3>1, <3>3 DEF HeldOK
  <2>2. \A d, f \in Cpu : tick'[d].timer # None /\ tick'[d].timer = tick'[f].timer => d = f
    BY <1>1, <1>2 DEF HeldOK
  <2>3. QED
    BY <1>1, <2>1, <2>2 DEF HeldOK
<1>4. \A u : u \in InFlight' <=> u \in InFlight
  <2>1. \A u : u \in InFlight <=> \E d \in Cpu : tick[d].timer = u /\ Flies(d)
    BY <1>1, Flying DEF IInv
  <2>2. \A u : u \in InFlight' <=> \E d \in Cpu : tick'[d].timer = u /\ Flies(d)'
    BY FlyingNext DEF IInv
  <2>3. QED
    BY <1>2, <2>1, <2>2
<1>5. OwedTimersAreQueued'
  BY <1>1, <1>4, Owed, OwedNext
<1>6. QED
  BY <1>3, <1>5 DEF SerializedInv

\* timer_tick() takes a timer that no other CPU holds off its queue.
LEMMA DequeueOwed ==
  ASSUME SerializedInv, NEW c \in Cpu, TickDequeue(c)
  PROVE  SerializedInv'
<1>1. IInv /\ HeldOK /\ OwedTimersAreQueued
  BY DEF SerializedInv
<1>2. PICK t : t = tick'[c].timer
  OBVIOUS
<1>3. /\ IInv' /\ tick[c].phase = "loop" /\ tick'[c].phase = "dequeued"
      /\ t \in Elements(queue[c]) /\ Elements(queue'[c]) = Elements(queue[c]) \ {t}
      /\ \A d \in Cpu \ {c} : tick'[d] = tick[d] /\ queue'[d] = queue[d]
      /\ Queued' = Queued \ {t}
  BY <1>1, <1>2, TickDequeueStep
<1>4. /\ periodic_time' = periodic_time /\ callback' = callback
      /\ wanted' = wanted /\ crashed' = crashed
  BY DEF TickDequeue
<1>5. \A d \in Cpu \ {c} : tick[d].timer # t
  <2>1. \A d, f \in Cpu : tick[d].timer \in Elements(queue[f]) => d = f
    BY <1>1 DEF HeldOK
  <2>2. t \in Elements(queue[c])
    BY <1>3
  <2>3. QED
    BY <2>1, <2>2
<1>6. \A d \in Cpu : t \notin Elements(queue'[d])
  BY <1>1, <1>3 DEF IInv, QueuesOK
<1>7. HeldOK'
  <2>1. \A d, f \in Cpu : tick'[d].timer # None /\ tick'[d].timer = tick'[f].timer => d = f
    <3>1. \A d, f \in Cpu : tick[d].timer # None /\ tick[d].timer = tick[f].timer => d = f
      BY <1>1 DEF HeldOK
    <3>2. \A d \in Cpu \ {c} : tick'[d] = tick[d]
      BY <1>3
    <3>3. QED
      BY <1>2, <1>5, <3>1, <3>2
  <2>2. ASSUME NEW d \in Cpu, NEW f \in Cpu, tick'[d].timer \in Elements(queue'[f])
        PROVE  d = f /\ tick'[d].phase = "calling"
    <3>1. d # c
      BY <1>2, <1>6, <2>2
    <3>2. tick'[d] = tick[d] /\ tick[d].timer \in Elements(queue[f])
      BY <1>3, <2>2, <3>1
    <3>3. QED
      BY <1>1, <3>2 DEF HeldOK
  <2>3. QED
    BY <1>1, <1>4, <2>1, <2>2 DEF HeldOK
<1>8. tick[c].timer = None /\ ~Flies(c) /\ Flies(c)'
  BY <1>1, <1>3 DEF IInv, TickOK, Flies
<1>9. \A u : u \in InFlight' <=> u \in InFlight \/ u = t
  <2>1. \A u : u \in InFlight <=> \E d \in Cpu : tick[d].timer = u /\ Flies(d)
    BY <1>1, Flying DEF IInv
  <2>2. \A u : u \in InFlight' <=> \E d \in Cpu : tick'[d].timer = u /\ Flies(d)'
    BY <1>3, FlyingNext DEF IInv
  <2>3. \A d \in Cpu \ {c} : tick'[d].timer = tick[d].timer /\ (Flies(d)' <=> Flies(d))
    BY <1>3, <1>4, SameFlight
  <2>4. QED
    BY <1>2, <1>8, <2>1, <2>2, <2>3
<1>10. t \in Queued
  BY <1>3 DEF Queued
<1>11. OwedTimersAreQueued'
  BY <1>1, <1>3, <1>4, <1>9, <1>10, Owed, OwedNext
<1>12. QED
  BY <1>3, <1>7, <1>11 DEF SerializedInv

\* timer_tick() finds the callback of the timer it holds.
LEMMA CallOwed ==
  ASSUME SerializedInv, NEW c \in Cpu, TickCall(c)
  PROVE  SerializedInv'
<1>1. IInv /\ HeldOK /\ OwedTimersAreQueued
  BY DEF SerializedInv
<1>2. PICK t : t = tick[c].timer
  OBVIOUS
<1>3. /\ IInv' /\ Queued' = Queued /\ tick'[c].phase = "calling" /\ tick'[c].timer = t
      /\ tick'[c].periodic = (periodic_time[t] > 0)
      /\ \A d \in Cpu \ {c} : tick'[d] = tick[d]
  BY <1>1, <1>2, TickCallStep
<1>4. /\ tick[c].phase = "dequeued" /\ queue' = queue
      /\ periodic_time' = periodic_time /\ callback' = callback
      /\ wanted' = IF periodic_time[t] > 0 THEN wanted ELSE wanted \ {t}
      /\ crashed' = IF t \in callback THEN crashed ELSE crashed \union {c}
  BY <1>2 DEF TickCall
<1>5. t # None /\ Flies(c)
  BY <1>1, <1>2, <1>4 DEF IInv, TickOK, Flies
<1>6. t \notin Queued /\ \A d \in Cpu : t \notin Elements(queue[d])
  BY <1>1, <1>2, <1>4 DEF HeldOK, Queued
<1>7. \A d \in Cpu \ {c} : tick[d].timer # t
  <2>1. \A d, f \in Cpu : tick[d].timer # None /\ tick[d].timer = tick[f].timer => d = f
    BY <1>1 DEF HeldOK
  <2>2. QED
    BY <1>2, <1>5, <2>1
<1>8. \A u : u \in InFlight <=> \E d \in Cpu : tick[d].timer = u /\ Flies(d)
  BY <1>1, Flying DEF IInv
<1>9. \A u : u \in InFlight' <=> \E d \in Cpu : tick'[d].timer = u /\ Flies(d)'
  BY <1>3, FlyingNext DEF IInv
<1>10. \A d \in Cpu \ {c} : tick'[d].timer = tick[d].timer /\ (Flies(d)' <=> Flies(d))
  BY <1>3, <1>4, SameFlight
<1>11. t \in wanted /\ t \in callback
  <2>1. t \in InFlight
    BY <1>2, <1>5, <1>8
  <2>2. QED
    BY <1>1, <2>1, Owed DEF HeldOK
<1>12. HeldOK'
  <2>1. wanted' \subseteq callback' /\ crashed' = {}
    BY <1>1, <1>4, <1>11 DEF HeldOK
  <2>2. \A d, f \in Cpu : tick'[d].timer # None /\ tick'[d].timer = tick'[f].timer => d = f
    <3>1. \A d, f \in Cpu : tick[d].timer # None /\ tick[d].timer = tick[f].timer => d = f
      BY <1>1 DEF HeldOK
    <3>2. \A d \in Cpu : tick'[d].timer = tick[d].timer
      BY <1>2, <1>3, <1>10
    <3>3. QED
      BY <3>1, <3>2
  <2>3. \A d, f \in Cpu : tick'[d].timer \in Elements(queue'[f]) =>
                             d = f /\ tick'[d].phase = "calling"
    <3>1. \A d, f \in Cpu : tick[d].timer \in Elements(queue[f]) =>
                               d = f /\ tick[d].phase = "calling"
      BY <1>1 DEF HeldOK
    <3>2. \A f \in Cpu : tick'[c].timer \notin Elements(queue'[f])
      BY <1>3, <1>4, <1>6
    <3>3. queue' = queue /\ \A d \in Cpu \ {c} : tick'[d] = tick[d]
      BY <1>3, <1>4
    <3>4. QED
      BY <3>1, <3>2, <3>3
  <2>4. QED
    BY <2>1, <2>2, <2>3 DEF HeldOK
<1>13. Flies(c)' <=> periodic_time[t] > 0
  BY <1>3, <1>4 DEF Flies
<1>14. t \in InFlight' <=> periodic_time[t] > 0
  BY <1>3, <1>7, <1>9, <1>10, <1>13
<1>15. \A u : u # t => (u \in InFlight' <=> u \in InFlight)
  BY <1>2, <1>3, <1>8, <1>9, <1>10
<1>16. OwedTimersAreQueued'
  BY <1>1, <1>3, <1>4, <1>6, <1>11, <1>14, <1>15, Owed, OwedNext
<1>17. QED
  BY <1>3, <1>12, <1>16 DEF SerializedInv

\* The callback returned: a periodic timer nobody queued or cancelled is queued.
LEMMA ReturnOwed ==
  ASSUME SerializedInv, NEW c \in Cpu, TickReturn(c)
  PROVE  SerializedInv'
<1>1. IInv /\ HeldOK /\ OwedTimersAreQueued
  BY DEF SerializedInv
<1>2. PICK t : t = tick[c].timer
  OBVIOUS
<1>3. /\ IInv' /\ tick[c].phase = "calling" /\ tick'[c].phase = "loop"
      /\ tick'[c].timer = None /\ t \in Timer
      /\ \A d \in Cpu \ {c} : tick'[d] = tick[d] /\ queue'[d] = queue[d]
      /\ Queued' = IF Requeues(c) THEN Queued \union {t} ELSE Queued
      /\ Elements(queue'[c]) = IF Requeues(c) THEN Elements(queue[c]) \union {t}
                               ELSE Elements(queue[c])
  BY <1>1, <1>2, TickReturnStep
<1>4. /\ periodic_time' = periodic_time /\ callback' = callback
      /\ wanted' = wanted /\ crashed' = crashed
  BY DEF TickReturn
<1>5. \A d \in Cpu \ {c} : tick[d].timer # t
  <2>1. \A d, f \in Cpu : tick[d].timer # None /\ tick[d].timer = tick[f].timer => d = f
    BY <1>1 DEF HeldOK
  <2>2. t # None
    BY <1>3, TimerAssumption
  <2>3. QED
    BY <1>2, <2>1, <2>2
<1>6. HeldOK'
  <2>1. \A d, f \in Cpu : tick'[d].timer # None /\ tick'[d].timer = tick'[f].timer => d = f
    <3>1. \A d, f \in Cpu : tick[d].timer # None /\ tick[d].timer = tick[f].timer => d = f
      BY <1>1 DEF HeldOK
    <3>2. tick'[c].timer = None /\ \A d \in Cpu \ {c} : tick'[d] = tick[d]
      BY <1>3
    <3>3. QED
      BY <3>1, <3>2
  <2>2. ASSUME NEW d \in Cpu, NEW f \in Cpu, tick'[d].timer \in Elements(queue'[f])
        PROVE  d = f /\ tick'[d].phase = "calling"
    <3>0. queue'[f] \in Seq(Timer)
      BY <1>3 DEF IInv, TypeOK
    <3>1. tick'[d].timer \in Timer
      BY <2>2, <3>0 DEF Elements
    <3>2. d # c
      BY <1>3, <3>1, TimerAssumption
    <3>3. tick'[d] = tick[d] /\ tick[d].timer # t
      BY <1>3, <1>5, <3>2
    <3>4. tick[d].timer \in Elements(queue[f])
      BY <1>3, <2>2, <3>3
    <3>5. QED
      BY <1>1, <3>3, <3>4 DEF HeldOK
  <2>3. QED
    BY <1>1, <1>4, <2>1, <2>2 DEF HeldOK
<1>7. Flies(c) <=> tick[c].periodic /\ periodic_time[t] > 0
  BY <1>2, <1>3 DEF Flies
<1>8. \A u : u \in InFlight <=> \E d \in Cpu : tick[d].timer = u /\ Flies(d)
  BY <1>1, Flying DEF IInv
<1>9. \A u : u \in InFlight' <=> \E d \in Cpu : tick'[d].timer = u /\ Flies(d)'
  BY <1>3, FlyingNext DEF IInv
<1>10. \A d \in Cpu \ {c} : tick'[d].timer = tick[d].timer /\ (Flies(d)' <=> Flies(d))
  BY <1>3, <1>4, SameFlight
<1>11. ~Flies(c)'
  BY <1>3 DEF Flies
<1>12. \A u : u \in InFlight' <=> u \in InFlight /\ u # t
  BY <1>2, <1>5, <1>8, <1>9, <1>10, <1>11
<1>13. t \in InFlight <=> Flies(c)
  BY <1>2, <1>5, <1>8
<1>14. t \in Queued' <=> t \in Queued \/ t \in InFlight
  BY <1>2, <1>3, <1>7, <1>13 DEF Requeues
<1>15. \A u : u # t => (u \in Queued' <=> u \in Queued)
  BY <1>3
<1>16. OwedTimersAreQueued'
  BY <1>1, <1>4, <1>12, <1>14, <1>15, Owed, OwedNext
<1>17. QED
  BY <1>3, <1>6, <1>16 DEF SerializedInv

LEMMA SerializedInductive ==
  ASSUME Serialized, SerializedInv, [Next]_vars
  PROVE  SerializedInv'
<1>1. IInv /\ IInv'
  BY Inductive DEF SerializedInv
<1>2. ASSUME NEW c \in Cpu, NEW t \in Timer, NEW delay \in 0 .. MaxDelay,
             timer_set_oneshot(c, t, delay) \/ timer_set_periodic(c, t, delay)
      PROVE  SerializedInv'
  <2>1. PICK x, period : /\ x = AtLeastOne(delay) /\ period \in {0, x}
                         /\ timer_set(c, t, x, period)
    BY <1>2 DEF timer_set_oneshot, timer_set_periodic
  <2>2. x \in 0 .. MaxDelay /\ period \in 0 .. MaxDelay
    BY <1>2, <2>1, TimerAssumption DEF AtLeastOne
  <2>3. QED
    BY <2>1, <2>2, SetOwed
<1>3. ASSUME NEW c \in Cpu, NEW t \in Timer, timer_cancel(c, t)
      PROVE  SerializedInv'
  BY <1>3, CancelOwed
<1>4. ASSUME NEW c \in Cpu, TickStart(c)
      PROVE  SerializedInv'
  <2>1. /\ Queued' = Queued /\ tick[c].phase = "none" /\ tick'[c].phase = "loop"
        /\ \A d \in Cpu \ {c} : tick'[d] = tick[d]
    BY <1>1, <1>4, TickStartStep
  <2>2. tick[c].timer = None /\ tick'[c].timer = None
    BY <1>1, <2>1 DEF IInv, TickOK
  <2>3. /\ queue' = queue /\ wanted' = wanted /\ callback' = callback
        /\ crashed' = crashed /\ periodic_time' = periodic_time
    BY <1>4 DEF TickStart
  <2>4. \A d \in Cpu : tick'[d] = tick[d] \/ (tick'[d].timer = None /\ tick[d].timer = None)
    BY <2>1, <2>2
  <2>5. QED
    BY <1>1, <2>1, <2>3, <2>4, IdleOwed
<1>5. ASSUME NEW c \in Cpu, TickEnd(c)
      PROVE  SerializedInv'
  <2>1. /\ Queued' = Queued /\ tick[c].phase = "loop" /\ tick'[c].timer = None
        /\ \A d \in Cpu \ {c} : tick'[d] = tick[d]
    BY <1>1, <1>5, TickEndStep
  <2>2. tick[c].timer = None
    BY <1>1, <2>1 DEF IInv, TickOK
  <2>3. /\ queue' = queue /\ wanted' = wanted /\ callback' = callback
        /\ crashed' = crashed /\ periodic_time' = periodic_time
    BY <1>5 DEF TickEnd
  <2>4. \A d \in Cpu : tick'[d] = tick[d] \/ (tick'[d].timer = None /\ tick[d].timer = None)
    BY <2>1, <2>2
  <2>5. QED
    BY <1>1, <2>1, <2>3, <2>4, IdleOwed
<1>6. CASE Clock \/ UNCHANGED vars
  <2>1. /\ queue' = queue /\ wanted' = wanted /\ callback' = callback /\ tick' = tick
        /\ crashed' = crashed /\ periodic_time' = periodic_time
    BY <1>6 DEF Clock, vars
  <2>2. Queued' = Queued
    BY <2>1 DEF Queued
  <2>3. \A d \in Cpu : tick'[d] = tick[d] \/ (tick'[d].timer = None /\ tick[d].timer = None)
    BY <2>1
  <2>4. QED
    BY <1>1, <2>1, <2>2, <2>3, IdleOwed
<1>7. ASSUME NEW c \in Cpu, TickDequeue(c) \/ TickCall(c) \/ TickReturn(c)
      PROVE  SerializedInv'
  BY <1>7, DequeueOwed, CallOwed, ReturnOwed
<1>8. QED
  <2>0. \A period \in 0 .. MaxPeriod : period \in 0 .. MaxDelay
    BY TimerAssumption
  <2>1. CASE \E c \in Cpu, t \in Timer :
               \/ \E delay \in 0 .. MaxDelay : timer_set_oneshot(c, t, delay)
               \/ \E period \in 0 .. MaxPeriod : timer_set_periodic(c, t, period)
               \/ timer_cancel(c, t)
    BY <1>2, <1>3, <2>0, <2>1
  <2>2. CASE \E c \in Cpu : \/ TickStart(c) \/ TickDequeue(c) \/ TickCall(c)
                            \/ TickReturn(c) \/ TickEnd(c)
    BY <1>4, <1>5, <1>7, <2>2
  <2>3. QED
    BY <1>6, <2>1, <2>2 DEF Next

LEMMA SerializedInitially == Init => SerializedInv
<1>1. SUFFICES ASSUME Init
               PROVE  SerializedInv
  OBVIOUS
<1>2. /\ queue = [c \in Cpu |-> << >>] /\ tick = [c \in Cpu |-> NoTick]
      /\ wanted = {} /\ crashed = {} /\ IInv
  BY <1>1, Initially DEF Init
<1>3. \A c \in Cpu : tick[c].timer = None /\ tick[c].phase = "none"
  BY <1>2 DEF NoTick
<1>4. Queued = {} /\ \A c \in Cpu : Elements(queue[c]) = {}
  BY <1>2 DEF Queued, Elements
<1>5. InFlight = {}
  BY <1>3 DEF InFlight
<1>6. HeldOK
  BY <1>2, <1>3, <1>4 DEF HeldOK
<1>7. QED
  BY <1>2, <1>4, <1>5, <1>6 DEF SerializedInv, OwedTimersAreQueued

\* What holds in addition where no CPU touches the timer another CPU's
\* timer_tick() has taken off its queue: it is in one pair of hands.
THEOREM SerializedInvariant == Serialized => (Spec => []SerializedInv)
<1>1. SUFFICES ASSUME Serialized
               PROVE  Spec => []SerializedInv
  OBVIOUS
<1>2. SerializedInv /\ [Next]_vars => SerializedInv'
  BY <1>1, SerializedInductive
<1>3. QED
  BY SerializedInitially, <1>2, PTL DEF Spec

\* Where callers keep off the timers that other CPUs are firing, a timer is in a
\* queue or in the hands of timer_tick() exactly as long as its owner is owed a
\* call, and timer_tick() calls no NULL callback.
THEOREM OwedTimersStayQueued ==
  Serialized => (Spec => [](OwedTimersAreQueued /\ NoNullCallback))
<1>1. SerializedInv => OwedTimersAreQueued /\ NoNullCallback
  BY DEF SerializedInv, HeldOK, NoNullCallback
<1>2. QED
  BY <1>1, SerializedInvariant, PTL
=============================================================================
