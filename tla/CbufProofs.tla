------------------------------ MODULE CbufProofs ------------------------------
(***************************************************************************)
(* The circular buffer of Cbuf, for a buffer of any power of two, any set  *)
(* of bytes, of readers and of writers: the two passes of the copy loops   *)
(* append to and remove from the contents exactly what a bounded queue     *)
(* would (ImplementsFifo), cbuf_peek() shows the contents, and the event   *)
(* follows the data.                                                       *)
(***************************************************************************)
EXTENDS Cbuf, WaitQueueProofs, FiniteSetTheorems

CbufState == [buf : [Index -> Byte], head : Index, tail : Index]

-----------------------------------------------------------------------------
(***************************************************************************)
(* Arithmetic of the pointers.                                             *)
(***************************************************************************)

\* The size of the buffer is positive: 2^n counts the subsets of 1 .. n.
LEMMA SizeType == SIZE \in Nat \ {0}
<1>1. IsFiniteSet(1 .. len_pow2) /\ Cardinality(1 .. len_pow2) = len_pow2
  BY FS_Interval, CbufAssumption
<1>2. /\ IsFiniteSet(SUBSET (1 .. len_pow2))
      /\ Cardinality(SUBSET (1 .. len_pow2)) = 2 ^ len_pow2
  BY <1>1, FS_SUBSET
<1>3. SUBSET (1 .. len_pow2) # {}
  OBVIOUS
<1> QED
  BY <1>2, <1>3, FS_EmptySet, FS_CardinalityType DEF SIZE

\* What modpow2() does to a pointer that is at most one round off.
LEMMA Mod ==
    ASSUME NEW a \in Int
    PROVE  /\ 0 <= a /\ a < SIZE => a % SIZE = a
           /\ SIZE <= a /\ a < 2 * SIZE => a % SIZE = a - SIZE
           /\ -SIZE <= a /\ a < 0 => a % SIZE = a + SIZE
<1> DEFINE S == SIZE
<1>1. S \in Nat \ {0}
  BY SizeType
<1> HIDE DEF S
<1>2. /\ 0 <= a /\ a < S => a % S = a
      /\ S <= a /\ a < 2 * S => a % S = a - S
      /\ -S <= a /\ a < 0 => a % S = a + S
  BY <1>1
<1> QED
  BY <1>2 DEF S

\* INC_POINTER() by no more than a round.
LEMMA IncPointer ==
    ASSUME NEW p \in Index, NEW inc \in 0 .. SIZE
    PROVE  /\ INC_POINTER(p, inc) \in Index
           /\ INC_POINTER(p, inc) = IF p + inc < SIZE THEN p + inc ELSE p + inc - SIZE
<1>1. SIZE \in Nat \ {0}
  BY SizeType
<1>2. p \in Int /\ 0 <= p /\ p < SIZE /\ inc \in Int /\ 0 <= inc /\ inc <= SIZE
  BY <1>1 DEF Index
<1>3. (p + inc) % SIZE = IF p + inc < SIZE THEN p + inc ELSE p + inc - SIZE
  BY <1>1, <1>2, Mod
<1> QED
  BY <1>1, <1>2, <1>3 DEF INC_POINTER, Index

\* Writing n bytes from h on, where u bytes from t on are used and n more fit
\* before the end of the buffer: the used part grows by n, no byte in use is
\* overwritten, and the new bytes follow the old ones.
LEMMA WriteArithmetic ==
    ASSUME NEW S \in Nat \ {0}, NEW h \in 0 .. S - 1, NEW t \in 0 .. S - 1,
           NEW u \in 0 .. S - 1, NEW n \in Nat, NEW g,
           u = IF h >= t THEN h - t ELSE h - t + S,
           h + n <= S, u + n <= S - 1,
           g = IF h + n < S THEN h + n ELSE 0
    PROVE  /\ (IF g >= t THEN g - t ELSE g - t + S) = u + n
           /\ \A i \in 1 .. u : (IF t + i - 1 < S THEN t + i - 1 ELSE t + i - 1 - S)
                                  \notin h .. h + n - 1
           /\ \A i \in u + 1 .. u + n :
                /\ (IF t + i - 1 < S THEN t + i - 1 ELSE t + i - 1 - S) = h + (i - u) - 1
                /\ i - u \in 1 .. n
OBVIOUS

\* Two passes of the loop of cbuf_write() take all that fits: n1 is the length of
\* the first, which starts at h, and n2 that of the second, which starts at g.
LEMMA WriteTwice ==
    ASSUME NEW S \in Nat \ {0}, NEW h \in 0 .. S - 1, NEW t \in 0 .. S - 1,
           NEW u \in 0 .. S - 1, NEW L \in Nat,
           NEW n1 \in Nat, NEW n2 \in Nat, NEW g \in Nat, NEW r1 \in Int, NEW r2 \in Int,
           u = IF h >= t THEN h - t ELSE h - t + S,
           r1 = IF h >= t THEN IF t = 0 THEN S - h - 1 ELSE S - h ELSE t - h - 1,
           n1 = IF S - 1 - u > 0 THEN IF r1 < L THEN r1 ELSE L ELSE 0,
           g = IF h + n1 < S THEN h + n1 ELSE 0,
           r2 = IF g >= t THEN IF t = 0 THEN S - g - 1 ELSE S - g ELSE t - g - 1,
           n2 = IF S - 1 - (u + n1) > 0 THEN IF r2 < L - n1 THEN r2 ELSE L - n1 ELSE 0
    PROVE  n1 + n2 = IF L < S - 1 - u THEN L ELSE S - 1 - u
<1>1. CASE h >= t
  BY <1>1
<1>2. CASE h < t
  BY <1>2
<1> QED
  BY <1>1, <1>2

\* Reading n of the u bytes in use from t on, as far as the end of the buffer:
\* u - n bytes stay in use, where they were.
LEMMA ReadArithmetic ==
    ASSUME NEW S \in Nat \ {0}, NEW h \in 0 .. S - 1, NEW t \in 0 .. S - 1,
           NEW u \in 0 .. S - 1, NEW n \in 0 .. u, NEW g,
           u = IF h >= t THEN h - t ELSE h - t + S,
           t + n <= S,
           g = IF t + n < S THEN t + n ELSE 0
    PROVE  /\ (IF h >= g THEN h - g ELSE h - g + S) = u - n
           /\ \A i \in 1 .. u - n :
                (IF g + i - 1 < S THEN g + i - 1 ELSE g + i - 1 - S) =
                  IF t + (n + i) - 1 < S THEN t + (n + i) - 1 ELSE t + (n + i) - 1 - S
           /\ \A i \in 1 .. n :
                (IF t + i - 1 < S THEN t + i - 1 ELSE t + i - 1 - S) = t + i - 1
OBVIOUS

\* Two passes of the loop of cbuf_read() take all that there is.
LEMMA ReadTwice ==
    ASSUME NEW S \in Nat \ {0}, NEW h \in 0 .. S - 1, NEW t \in 0 .. S - 1,
           NEW u \in 0 .. S - 1, NEW L \in Nat, NEW n1 \in Nat, NEW n2 \in Nat, NEW g \in Nat,
           u = IF h >= t THEN h - t ELSE h - t + S,
           n1 = IF h >= t THEN IF h - t < L THEN h - t ELSE L
                          ELSE IF S - t < L THEN S - t ELSE L,
           g = IF t + n1 < S THEN t + n1 ELSE 0,
           n2 = IF h >= g THEN IF h - g < L - n1 THEN h - g ELSE L - n1
                          ELSE IF S - g < L - n1 THEN S - g ELSE L - n1
    PROVE  n1 + n2 = IF L < u THEN L ELSE u
<1>1. CASE h >= t
  BY <1>1
<1>2. CASE h < t
  BY <1>2
<1> QED
  BY <1>1, <1>2

\* Sequences of the same length with the same elements are equal.
LEMMA SameSeq ==
    ASSUME NEW B, NEW x \in Seq(B), NEW y \in Seq(B), Len(x) = Len(y),
           \A i \in 1 .. Len(x) : x[i] = y[i]
    PROVE  x = y
OBVIOUS

\* A sequence is the concatenation of two others if it agrees with them.
LEMMA ConcatEqual ==
    ASSUME NEW B, NEW x \in Seq(B), NEW y \in Seq(B), NEW z \in Seq(B),
           Len(z) = Len(x) + Len(y),
           \A i \in 1 .. Len(x) : z[i] = x[i],
           \A i \in 1 .. Len(y) : z[Len(x) + i] = y[i]
    PROVE  z = x \o y
<1>1. /\ x \o y \in Seq(B) /\ Len(x \o y) = Len(x) + Len(y)
      /\ \A i \in 1 .. Len(x) + Len(y) : (x \o y)[i] = IF i <= Len(x) THEN x[i]
                                                                       ELSE y[i - Len(x)]
  OBVIOUS
<1>2. Len(x) \in Nat /\ Len(y) \in Nat
  OBVIOUS
<1>3. ASSUME NEW i \in 1 .. Len(z)
      PROVE  z[i] = (x \o y)[i]
  <2>1. CASE i <= Len(x)
    BY <1>1, <1>2, <2>1
  <2>2. CASE i > Len(x)
    <3>1. i - Len(x) \in 1 .. Len(y) /\ Len(x) + (i - Len(x)) = i
      BY <1>2, <2>2
    <3> QED
      BY <1>1, <1>2, <2>2, <3>1
  <2> QED
    BY <1>2, <2>1, <2>2
<1> QED
  BY <1>1, <1>3

\* Concatenation is associative.
LEMMA Append3 ==
    ASSUME NEW x \in Seq(Byte), NEW y \in Seq(Byte), NEW z \in Seq(Byte)
    PROVE  (x \o y) \o z = x \o (y \o z)
<1> PICK B : B = Byte
  OBVIOUS
<1> QED
  OBVIOUS

\* One byte is not nothing.
LEMMA OneByte ==
    ASSUME NEW ch
    PROVE  <<ch>> # << >>
<1>1. Len(<<ch>>) = 1 /\ Len(<< >>) = 0
  OBVIOUS
<1> QED
  BY <1>1

\* A part of a sequence.
LEMMA Part ==
    ASSUME NEW B, NEW x \in Seq(B), NEW m \in Nat, NEW n \in Nat, m + n <= Len(x)
    PROVE  /\ SubSeq(x, m + 1, m + n) \in Seq(B)
           /\ Len(SubSeq(x, m + 1, m + n)) = n
           /\ \A i \in 1 .. n : SubSeq(x, m + 1, m + n)[i] = x[m + i]
<1>1. Len(x) \in Nat
  OBVIOUS
<1>3. PICK y : y = SubSeq(x, m + 1, m + n)
  OBVIOUS
<1>4. y \in Seq(B) /\ Len(y) = n
  BY <1>1, <1>3
<1>5. ASSUME NEW i \in 1 .. n
      PROVE  y[i] = x[m + i]
  BY <1>1, <1>3
<1> QED
  BY <1>3, <1>4, <1>5

\* A prefix of a sequence.
LEMMA Prefix ==
    ASSUME NEW B, NEW x \in Seq(B), NEW n \in Nat, n <= Len(x)
    PROVE  SubSeq(x, 1, n) \in Seq(B) /\ Len(SubSeq(x, 1, n)) = n
<1>1. PICK y : y = SubSeq(x, 0 + 1, 0 + n)
  OBVIOUS
<1>2. 0 + n <= Len(x) /\ 0 \in Nat /\ 0 + n = n /\ 0 + 1 = 1
  OBVIOUS
<1>3. y \in Seq(B) /\ Len(y) = n
  BY <1>1, <1>2, Part
<1> QED
  BY <1>1, <1>2, <1>3

\* A prefix of a sequence, and the part that follows it.
LEMMA PrefixConcat ==
    ASSUME NEW B, NEW x \in Seq(B), NEW n \in Nat, NEW k \in Nat, n + k <= Len(x)
    PROVE  /\ SubSeq(x, 1, n) \o SubSeq(x, n + 1, n + k) = SubSeq(x, 1, n + k)
           /\ SubSeq(x, 1, n) \in Seq(B)
           /\ SubSeq(x, n + 1, n + k) \in Seq(B)
<1>1. PICK y, z, w : /\ y = SubSeq(x, 0 + 1, 0 + n)
                     /\ z = SubSeq(x, n + 1, n + k)
                     /\ w = SubSeq(x, 0 + 1, 0 + (n + k))
  OBVIOUS
<1>2. /\ 0 + (n + k) <= Len(x) /\ 0 \in Nat /\ n + k \in Nat /\ 0 + n <= Len(x)
      /\ 0 + n = n /\ 0 + 1 = 1 /\ 0 + (n + k) = n + k
  OBVIOUS
<1>3. y \in Seq(B) /\ Len(y) = n /\ \A i \in 1 .. n : y[i] = x[0 + i]
  BY <1>1, <1>2, Part
<1>4. z \in Seq(B) /\ Len(z) = k /\ \A i \in 1 .. k : z[i] = x[n + i]
  BY <1>1, Part
<1>5. w \in Seq(B) /\ Len(w) = n + k /\ \A i \in 1 .. n + k : w[i] = x[0 + i]
  BY <1>1, <1>2, Part
<1>6. \A i \in 1 .. Len(y) : w[i] = y[i]
  BY <1>3, <1>5
<1>7. ASSUME NEW i \in 1 .. Len(z)
      PROVE  w[Len(y) + i] = z[i]
  <2>1. i \in 1 .. k /\ n + i \in 1 .. n + k /\ 0 + (n + i) = n + i
    BY <1>4
  <2> QED
    BY <1>3, <1>4, <1>5, <2>1
<1>8. w = y \o z
  BY <1>3, <1>4, <1>5, <1>6, <1>7, ConcatEqual
<1> QED
  BY <1>1, <1>2, <1>3, <1>4, <1>8

\* A part of a part of a sequence.
LEMMA PartOfPart ==
    ASSUME NEW B, NEW x \in Seq(B), NEW m \in Nat, NEW n \in Nat, m + n <= Len(x),
           NEW k \in Nat, NEW l \in Nat, k + l <= n
    PROVE  SubSeq(SubSeq(x, m + 1, m + n), k + 1, k + l) = SubSeq(x, m + k + 1, m + k + l)
<1>1. PICK y : y = SubSeq(x, m + 1, m + n)
  OBVIOUS
<1>2. y \in Seq(B) /\ Len(y) = n /\ \A i \in 1 .. n : y[i] = x[m + i]
  BY <1>1, Part
<1>3. PICK v, w : v = SubSeq(y, k + 1, k + l) /\ w = SubSeq(x, m + k + 1, m + k + l)
  OBVIOUS
<1>4. v \in Seq(B) /\ Len(v) = l /\ \A i \in 1 .. l : v[i] = y[k + i]
  BY <1>2, <1>3, Part
<1>5. w \in Seq(B) /\ Len(w) = l /\ \A i \in 1 .. l : w[i] = x[m + k + i]
  <2>1. m + k \in Nat /\ m + k + l <= Len(x)
    OBVIOUS
  <2> QED
    BY <1>3, <2>1, Part
<1>6. ASSUME NEW i \in 1 .. l
      PROVE  v[i] = w[i]
  <2>1. k + i \in 1 .. n /\ m + (k + i) = m + k + i
    OBVIOUS
  <2> QED
    BY <1>2, <1>4, <1>5, <2>1
<1>7. v = w
  BY <1>4, <1>5, <1>6, SameSeq
<1> QED
  BY <1>1, <1>3, <1>7

\* cbuf_space_used() is the distance from tail to head.
LEMMA Used ==
    ASSUME NEW b \in CbufState
    PROVE  /\ cbuf_space_used(b) \in Index
           /\ cbuf_space_used(b) = IF b.head >= b.tail THEN b.head - b.tail
                                                       ELSE b.head - b.tail + SIZE
           /\ cbuf_space_avail(b) = SIZE - 1 - cbuf_space_used(b)
           /\ cbuf_space_used(b) = 0 <=> b.head = b.tail
<1>1. SIZE \in Nat \ {0}
  BY SizeType
<1>2. /\ b.head \in Int /\ 0 <= b.head /\ b.head < SIZE
      /\ b.tail \in Int /\ 0 <= b.tail /\ b.tail < SIZE
  BY <1>1 DEF CbufState, Index
<1>3. (b.head - b.tail) % SIZE = IF b.head >= b.tail THEN b.head - b.tail
                                                     ELSE b.head - b.tail + SIZE
  BY <1>1, <1>2, Mod
<1>4. PICK u : u = (b.head - b.tail) % SIZE
  OBVIOUS
<1>5. cbuf_space_used(b) = u /\ cbuf_space_avail(b) = SIZE - u - 1
  BY <1>4 DEF cbuf_space_used, cbuf_space_avail
<1>6. u = IF b.head >= b.tail THEN b.head - b.tail ELSE b.head - b.tail + SIZE
  BY <1>3, <1>4
<1> QED
  BY <1>1, <1>2, <1>5, <1>6 DEF Index

\* The contents of the buffer, as a sequence of bytes.
LEMMA ContentsType ==
    ASSUME NEW b \in CbufState
    PROVE  /\ Contents(b) \in Seq(Byte)
           /\ Len(Contents(b)) = cbuf_space_used(b)
           /\ \A i \in 1 .. cbuf_space_used(b) :
                /\ Contents(b)[i] = b.buf[INC_POINTER(b.tail, i - 1)]
                /\ INC_POINTER(b.tail, i - 1) \in Index
                /\ INC_POINTER(b.tail, i - 1) =
                     IF b.tail + i - 1 < SIZE THEN b.tail + i - 1 ELSE b.tail + i - 1 - SIZE
<1>1. SIZE \in Nat \ {0} /\ cbuf_space_used(b) \in Index /\ cbuf_space_used(b) \in Nat
  BY SizeType, Used DEF Index
<1>2. b.tail \in Index /\ b.buf \in [Index -> Byte] /\ b.tail \in Nat
  BY <1>1 DEF CbufState, Index
<1>3. ASSUME NEW i \in 1 .. cbuf_space_used(b)
      PROVE  /\ INC_POINTER(b.tail, i - 1) \in Index
             /\ INC_POINTER(b.tail, i - 1) =
                  IF b.tail + i - 1 < SIZE THEN b.tail + i - 1 ELSE b.tail + i - 1 - SIZE
  <2>1. i - 1 \in 0 .. SIZE
    BY <1>1 DEF Index
  <2> QED
    BY <1>1, <1>2, <2>1, IncPointer
<1>4. \A i \in 1 .. cbuf_space_used(b) : Contents(b)[i] = b.buf[INC_POINTER(b.tail, i - 1)]
  BY DEF Contents
<1>5. Contents(b) = [i \in 1 .. cbuf_space_used(b) |-> b.buf[INC_POINTER(b.tail, i - 1)]]
  BY DEF Contents
<1>6. Contents(b) \in [1 .. cbuf_space_used(b) -> Byte]
  BY <1>2, <1>3, <1>5
<1>7. Contents(b) \in Seq(Byte) /\ Len(Contents(b)) = cbuf_space_used(b)
  <2>1. PICK x, u : x = Contents(b) /\ u = cbuf_space_used(b)
    OBVIOUS
  <2>2. x \in [1 .. u -> Byte] /\ u \in Nat
    BY <1>1, <1>6, <2>1
  <2>3. x \in Seq(Byte) /\ Len(x) = u
    BY <2>2
  <2> QED
    BY <2>1, <2>3
<1> QED
  BY <1>3, <1>4, <1>7

-----------------------------------------------------------------------------
(***************************************************************************)
(* The loop of cbuf_write().                                               *)
(***************************************************************************)

\* How many bytes a pass of the loop of cbuf_write() copies.
WriteLen(s, payload) ==
    IF cbuf_space_avail(s.c) > 0 THEN AtMost(WriteRoom(s.c), Len(payload) - s.pos) ELSE 0

\* A pass never runs past the end of the buffer, never uses the byte before tail
\* and never copies more than the payload holds.
LEMMA WriteLenBounds ==
    ASSUME NEW s \in [c : CbufState, pos : Nat], NEW payload \in Seq(Byte),
           s.pos <= Len(payload)
    PROVE  /\ WriteLen(s, payload) \in Nat
           /\ WriteLen(s, payload) <= cbuf_space_avail(s.c)
           /\ WriteLen(s, payload) <= Len(payload) - s.pos
           /\ s.c.head + WriteLen(s, payload) <= SIZE
<1>1. PICK h, t, a, r, m :
        h = s.c.head /\ t = s.c.tail /\ a = cbuf_space_avail(s.c) /\ r = WriteRoom(s.c)
            /\ m = Len(payload) - s.pos
  OBVIOUS
<1>2. s.c \in CbufState /\ SIZE \in Nat \ {0} /\ m \in Nat
  BY <1>1, SizeType
<1>3. h \in 0 .. SIZE - 1 /\ t \in 0 .. SIZE - 1
  BY <1>1, <1>2 DEF CbufState, Index
<1>4. a = IF h >= t THEN SIZE - 1 - (h - t) ELSE t - h - 1
  BY <1>1, <1>2, <1>3, Used DEF Index
<1>5. r = IF h >= t THEN IF t = 0 THEN SIZE - h - 1 ELSE SIZE - h ELSE t - h - 1
  BY <1>1 DEF WriteRoom
<1>6. r \in Nat /\ r <= a /\ h + r <= SIZE /\ a \in Nat
  BY <1>2, <1>3, <1>4, <1>5
<1>7. WriteLen(s, payload) = IF a > 0 THEN IF r < m THEN r ELSE m ELSE 0
  BY <1>1 DEF WriteLen, AtMost
<1> QED
  BY <1>1, <1>2, <1>3, <1>6, <1>7

\* A pass of the loop of cbuf_write() appends the next bytes of the payload to
\* the contents.
LEMMA WritePassEffect ==
    ASSUME NEW s \in [c : CbufState, pos : Nat], NEW payload \in Seq(Byte),
           s.pos <= Len(payload)
    PROVE  /\ WritePass(s, payload) \in [c : CbufState, pos : Nat]
           /\ WritePass(s, payload).pos = s.pos + WriteLen(s, payload)
           /\ WritePass(s, payload).c.tail = s.c.tail
           /\ WritePass(s, payload).c.head =
                IF s.c.head + WriteLen(s, payload) < SIZE
                THEN s.c.head + WriteLen(s, payload) ELSE 0
           /\ cbuf_space_used(WritePass(s, payload).c) =
                cbuf_space_used(s.c) + WriteLen(s, payload)
           /\ Contents(WritePass(s, payload).c) =
                Contents(s.c) \o SubSeq(payload, s.pos + 1, s.pos + WriteLen(s, payload))
<1>0. PICK v, n : v = WritePass(s, payload) /\ n = WriteLen(s, payload)
  OBVIOUS
<1>1. PICK b, h, t, p, L, u :
        /\ b = s.c /\ h = b.head /\ t = b.tail /\ p = s.pos /\ L = Len(payload)
        /\ u = cbuf_space_used(b)
  OBVIOUS
<1>2. b \in CbufState /\ b.buf \in [Index -> Byte] /\ h \in Index /\ t \in Index
  BY <1>1 DEF CbufState
<1>3. SIZE \in Nat \ {0} /\ h \in 0 .. SIZE - 1 /\ t \in 0 .. SIZE - 1 /\ p \in Nat /\ L \in Nat
  BY <1>1, <1>2, SizeType DEF Index
<1>4. u \in 0 .. SIZE - 1 /\ u = IF h >= t THEN h - t ELSE h - t + SIZE
  BY <1>1, <1>2, Used DEF Index
<1>5. n \in Nat /\ p + n <= L /\ h + n <= SIZE /\ u + n <= SIZE - 1
  <2>1. cbuf_space_avail(b) = SIZE - 1 - u
    BY <1>1, <1>2, Used
  <2>2. n \in Nat /\ n <= L - p /\ h + n <= SIZE /\ n <= SIZE - 1 - u
    BY <1>0, <1>1, <2>1, WriteLenBounds
  <2> QED
    BY <1>3, <1>4, <2>2
<1>6. /\ v.pos = p + n
      /\ v.c.tail = t
      /\ v.c.head = INC_POINTER(h, n)
      /\ v.c.buf = [i \in Index |-> IF i \in h .. h + n - 1
                                    THEN payload[p + 1 + i - h] ELSE b.buf[i]]
      /\ v = [c |-> [buf |-> v.c.buf, head |-> v.c.head, tail |-> v.c.tail], pos |-> v.pos]
  BY <1>0, <1>1 DEF WritePass, WriteLen, CbufState
<1>7. v.c.head \in Index /\ v.c.head = IF h + n < SIZE THEN h + n ELSE 0
  <2>1. n \in 0 .. SIZE
    BY <1>3, <1>4, <1>5
  <2>2. h + n >= SIZE => h + n - SIZE = 0
    BY <1>3, <1>5
  <2> QED
    BY <1>2, <1>6, <2>1, <2>2, <1>3, <1>5, IncPointer
<1>8. ASSUME NEW i \in Index
      PROVE  v.c.buf[i] \in Byte
  <2>1. CASE i \in h .. h + n - 1
    <3>1. p + 1 + i - h \in 1 .. L
      BY <1>3, <1>5, <2>1
    <3> QED
      BY <1>1, <1>6, <2>1, <3>1
  <2>2. CASE i \notin h .. h + n - 1
    BY <1>2, <1>6, <2>2
  <2> QED
    BY <2>1, <2>2
<1>9. v.c \in CbufState /\ v \in [c : CbufState, pos : Nat]
  <2>1. v.c.buf \in [Index -> Byte]
    BY <1>6, <1>8
  <2>2. v.pos \in Nat
    BY <1>3, <1>5, <1>6
  <2>3. v.c \in CbufState
    BY <1>2, <1>6, <1>7, <2>1 DEF CbufState
  <2> QED
    BY <1>6, <2>2, <2>3
<1>10. PICK g : g = v.c.head
  OBVIOUS
<1>11. /\ (IF g >= t THEN g - t ELSE g - t + SIZE) = u + n
       /\ \A i \in 1 .. u : (IF t + i - 1 < SIZE THEN t + i - 1 ELSE t + i - 1 - SIZE)
                              \notin h .. h + n - 1
       /\ \A i \in u + 1 .. u + n :
            /\ (IF t + i - 1 < SIZE THEN t + i - 1 ELSE t + i - 1 - SIZE) = h + (i - u) - 1
            /\ i - u \in 1 .. n
  BY <1>3, <1>4, <1>5, <1>7, <1>10, WriteArithmetic
<1>12. cbuf_space_used(v.c) = u + n
  BY <1>6, <1>9, <1>10, <1>11, Used
<1>13. PICK x : x = SubSeq(payload, p + 1, p + n)
  OBVIOUS
<1>14. x \in Seq(Byte) /\ Len(x) = n /\ \A i \in 1 .. n : x[i] = payload[p + i]
  <2>1. p \in Nat /\ n \in Nat /\ p + n <= Len(payload)
    BY <1>1, <1>3, <1>5
  <2> QED
    BY <1>13, <2>1, Part
<1>15. ASSUME NEW i \in 1 .. u
       PROVE  Contents(v.c)[i] = Contents(b)[i]
  <2>1. PICK k : k = INC_POINTER(t, i - 1)
    OBVIOUS
  <2>2. /\ k \in Index /\ Contents(b)[i] = b.buf[k]
        /\ k = IF t + i - 1 < SIZE THEN t + i - 1 ELSE t + i - 1 - SIZE
    BY <1>1, <1>2, <2>1, ContentsType
  <2>3. i \in 1 .. u + n
    BY <1>4, <1>5
  <2>4. Contents(v.c)[i] = v.c.buf[k]
    BY <1>6, <1>9, <1>12, <2>1, <2>3, ContentsType
  <2>5. k \notin h .. h + n - 1
    BY <1>11, <2>2
  <2> QED
    BY <1>6, <2>2, <2>4, <2>5
<1>16. ASSUME NEW i \in u + 1 .. u + n
       PROVE  Contents(v.c)[i] = x[i - u]
  <2>1. PICK k : k = INC_POINTER(t, i - 1)
    OBVIOUS
  <2>2. i \in 1 .. u + n
    BY <1>4, <1>5
  <2>3. /\ k \in Index /\ Contents(v.c)[i] = v.c.buf[k]
        /\ k = IF t + i - 1 < SIZE THEN t + i - 1 ELSE t + i - 1 - SIZE
    BY <1>6, <1>9, <1>12, <2>1, <2>2, ContentsType
  <2>4. k = h + (i - u) - 1 /\ i - u \in 1 .. n
    BY <1>11, <2>3
  <2>5. k \in h .. h + n - 1 /\ p + 1 + k - h = p + (i - u)
    BY <1>3, <1>4, <1>5, <2>4
  <2> QED
    BY <1>6, <1>14, <2>3, <2>4, <2>5
<1>17. Contents(v.c) = Contents(b) \o x
  <2>1. /\ Contents(b) \in Seq(Byte) /\ Len(Contents(b)) = u
        /\ Contents(v.c) \in Seq(Byte) /\ Len(Contents(v.c)) = u + n
    BY <1>1, <1>2, <1>9, <1>12, ContentsType
  <2>2. ASSUME NEW i \in 1 .. n
        PROVE  Contents(v.c)[u + i] = x[i]
    <3>1. u + i \in u + 1 .. u + n /\ (u + i) - u = i
      BY <1>4, <1>5
    <3> QED
      BY <1>16, <3>1
  <2> QED
    BY <1>14, <1>15, <2>1, <2>2, ConcatEqual
<1> QED
  BY <1>0, <1>1, <1>6, <1>7, <1>9, <1>12, <1>13, <1>17

\* cbuf_write() appends the longest prefix of its payload that fits, and its
\* return value is the length of that prefix.
LEMMA WriteLoopEffect ==
    ASSUME NEW b \in CbufState, NEW payload \in Seq(Byte)
    PROVE  /\ WriteLoop(b, payload).c \in CbufState
           /\ WriteLoop(b, payload).pos \in Nat
           /\ WriteLoop(b, payload).pos <= Len(payload)
           /\ WriteLoop(b, payload).pos <= SIZE - 1
           /\ WriteLoop(b, payload).pos =
                AtMost(Len(payload), SIZE - 1 - cbuf_space_used(b))
           /\ cbuf_space_used(WriteLoop(b, payload).c) =
                cbuf_space_used(b) + WriteLoop(b, payload).pos
           /\ Contents(WriteLoop(b, payload).c) =
                Contents(b) \o SubSeq(payload, 1, WriteLoop(b, payload).pos)
<1>1. PICK s0 : s0 = [c |-> b, pos |-> 0]
  OBVIOUS
<1>2. PICK s1, n1 : s1 = WritePass(s0, payload) /\ n1 = WriteLen(s0, payload)
  OBVIOUS
<1>3. PICK s2, n2 : s2 = WritePass(s1, payload) /\ n2 = WriteLen(s1, payload)
  OBVIOUS
<1>4. s2 = WriteLoop(b, payload)
  BY <1>1, <1>2, <1>3 DEF WriteLoop
<1>5. PICK h, t, u, L, g : /\ h = b.head /\ t = b.tail /\ u = cbuf_space_used(b)
                           /\ L = Len(payload) /\ g = s1.c.head
  OBVIOUS
<1>6. /\ SIZE \in Nat \ {0} /\ h \in 0 .. SIZE - 1 /\ t \in 0 .. SIZE - 1
      /\ u \in 0 .. SIZE - 1 /\ u = IF h >= t THEN h - t ELSE h - t + SIZE
      /\ cbuf_space_avail(b) = SIZE - 1 - u
      /\ L \in Nat
  BY <1>5, SizeType, Used DEF CbufState, Index
<1>7. s0 \in [c : CbufState, pos : Nat] /\ s0.c = b /\ s0.pos = 0 /\ s0.pos <= Len(payload)
  BY <1>1, <1>5, <1>6
<1>8. /\ s1 \in [c : CbufState, pos : Nat]
      /\ s1.pos = 0 + n1 /\ s1.c.tail = t
      /\ g = IF h + n1 < SIZE THEN h + n1 ELSE 0
      /\ cbuf_space_used(s1.c) = u + n1
      /\ Contents(s1.c) = Contents(b) \o SubSeq(payload, 0 + 1, 0 + n1)
  BY <1>2, <1>5, <1>7, WritePassEffect
<1>9. n1 \in Nat /\ n1 <= L /\ u + n1 <= SIZE - 1 /\ s1.pos = n1 /\ n1 <= Len(payload)
  <2>1. n1 \in Nat /\ n1 <= SIZE - 1 - u /\ n1 <= L - 0
    BY <1>2, <1>5, <1>6, <1>7, WriteLenBounds
  <2> QED
    BY <1>5, <1>6, <1>8, <2>1
<1>10. /\ s2 \in [c : CbufState, pos : Nat]
       /\ s2.pos = n1 + n2
       /\ cbuf_space_used(s2.c) = u + n1 + n2
       /\ Contents(s2.c) = Contents(s1.c) \o SubSeq(payload, n1 + 1, n1 + n2)
  BY <1>3, <1>8, <1>9, WritePassEffect
<1>11. cbuf_space_avail(s1.c) = SIZE - 1 - (u + n1) /\ s1.c \in CbufState
  BY <1>8, Used
<1>12. /\ n2 \in Nat /\ n1 + n2 <= L /\ u + n1 + n2 <= SIZE - 1
       /\ u + n1 + n2 = u + (n1 + n2) /\ n1 + n2 \in Nat /\ n1 + n2 <= SIZE - 1
  <2>1. n2 \in Nat /\ n2 <= SIZE - 1 - (u + n1) /\ n2 <= L - n1
    BY <1>3, <1>5, <1>8, <1>9, <1>11, WriteLenBounds
  <2> QED
    BY <1>6, <1>9, <2>1
<1>13. n1 + n2 = IF L < SIZE - 1 - u THEN L ELSE SIZE - 1 - u
  <2>1. PICK r1, r2 : r1 = WriteRoom(b) /\ r2 = WriteRoom(s1.c)
    OBVIOUS
  <2>2. /\ r1 = IF h >= t THEN IF t = 0 THEN SIZE - h - 1 ELSE SIZE - h ELSE t - h - 1
        /\ r2 = IF g >= t THEN IF t = 0 THEN SIZE - g - 1 ELSE SIZE - g ELSE t - g - 1
    BY <1>5, <1>8, <2>1 DEF WriteRoom
  <2>3. n1 = IF SIZE - 1 - u > 0 THEN IF r1 < L - 0 THEN r1 ELSE L - 0 ELSE 0
    BY <1>2, <1>5, <1>6, <1>7, <2>1 DEF WriteLen, AtMost
  <2>4. n2 = IF SIZE - 1 - (u + n1) > 0 THEN IF r2 < L - n1 THEN r2 ELSE L - n1 ELSE 0
    BY <1>3, <1>5, <1>9, <1>11, <2>1 DEF WriteLen, AtMost
  <2>5. g \in Nat /\ r1 \in Int /\ r2 \in Int /\ L - 0 = L
    BY <1>6, <1>8, <1>9, <2>2
  <2>6. n1 = IF SIZE - 1 - u > 0 THEN IF r1 < L THEN r1 ELSE L ELSE 0
    BY <2>3, <2>5
  <2>7. /\ SIZE \in Nat \ {0} /\ h \in 0 .. SIZE - 1 /\ t \in 0 .. SIZE - 1
        /\ u \in 0 .. SIZE - 1 /\ L \in Nat /\ n1 \in Nat /\ n2 \in Nat
        /\ u = IF h >= t THEN h - t ELSE h - t + SIZE
        /\ g = IF h + n1 < SIZE THEN h + n1 ELSE 0
    BY <1>6, <1>8, <1>9, <1>12
  <2> QED
    BY <2>2, <2>4, <2>5, <2>6, <2>7, WriteTwice
<1>14. Contents(s2.c) = Contents(b) \o SubSeq(payload, 1, n1 + n2)
  <2>1. PICK x, y : x = SubSeq(payload, 1, n1) /\ y = SubSeq(payload, n1 + 1, n1 + n2)
    OBVIOUS
  <2>2. n1 + n2 <= Len(payload) /\ 0 + n1 = n1 /\ 0 + 1 = 1
    BY <1>5, <1>9, <1>12
  <2>3. x \o y = SubSeq(payload, 1, n1 + n2) /\ x \in Seq(Byte) /\ y \in Seq(Byte)
    BY <1>9, <1>12, <2>1, <2>2, PrefixConcat
  <2>4. Contents(b) \in Seq(Byte)
    BY ContentsType
  <2>5. Contents(s2.c) = (Contents(b) \o x) \o y
    BY <1>8, <1>10, <2>1, <2>2
  <2>6. PICK q : q = Contents(b)
    OBVIOUS
  <2>7. (q \o x) \o y = q \o (x \o y)
    BY <2>3, <2>4, <2>6, Append3
  <2> QED
    BY <2>3, <2>5, <2>6, <2>7
<1> QED
  BY <1>4, <1>5, <1>10, <1>12, <1>13, <1>14 DEF AtMost

\* What cbuf_write() may be given, as sequences.
LEMMA PayloadSeq ==
    ASSUME NEW x
    PROVE  /\ x \in Payload => x \in Seq(Byte) /\ Len(x) \in 1 .. SIZE - 1
           /\ x \in Seq(Byte) /\ Len(x) <= SIZE - 1 => x \in Payload \union {<< >>}
<1>1. SIZE \in Nat
  BY SizeType
<1>2. ASSUME x \in Payload PROVE x \in Seq(Byte) /\ Len(x) \in 1 .. SIZE - 1
  <2>1. PICK n \in 1 .. SIZE - 1 : x \in [1 .. n -> Byte]
    BY <1>2 DEF Payload
  <2> QED
    BY <1>1, <2>1
<1>3. ASSUME x \in Seq(Byte), Len(x) <= SIZE - 1, x # << >>
      PROVE  x \in Payload
  <2>1. PICK n : n = Len(x)
    OBVIOUS
  <2>2. n \in 1 .. SIZE - 1 /\ x \in [1 .. n -> Byte]
    BY <1>1, <1>3, <2>1
  <2> QED
    BY <2>2 DEF Payload
<1> QED
  BY <1>2, <1>3

\* cbuf_write_char() appends its byte, when there is room for it: it is a pass
\* for a payload of one byte.
LEMMA WriteCharEffect ==
    ASSUME NEW b \in CbufState, NEW ch \in Byte, cbuf_space_avail(b) > 0,
           NEW v, v = [buf |-> [b.buf EXCEPT ![b.head] = ch],
                       head |-> INC_POINTER(b.head, 1), tail |-> b.tail]
    PROVE  /\ v \in CbufState
           /\ cbuf_space_used(v) = cbuf_space_used(b) + 1
           /\ 1 = AtMost(1, SIZE - 1 - cbuf_space_used(b))
           /\ Contents(v) = Contents(b) \o SubSeq(<<ch>>, 1, 1)
           /\ <<ch>> \in Payload /\ Len(<<ch>>) = 1
<1>1. PICK s, p, n, h, t, u : /\ s = [c |-> b, pos |-> 0] /\ p = <<ch>>
                              /\ n = WriteLen(s, p) /\ h = b.head /\ t = b.tail
                              /\ u = cbuf_space_used(b)
  OBVIOUS
<1>2. p \in Seq(Byte) /\ Len(p) = 1 /\ p[1] = ch
  BY <1>1
<1>3. /\ SIZE \in Nat \ {0} /\ h \in 0 .. SIZE - 1 /\ t \in 0 .. SIZE - 1
      /\ u \in 0 .. SIZE - 1 /\ u = IF h >= t THEN h - t ELSE h - t + SIZE
      /\ cbuf_space_avail(b) = SIZE - 1 - u /\ SIZE - 1 - u > 0
      /\ b.buf \in [Index -> Byte] /\ h \in Index
  BY <1>1, SizeType, Used DEF CbufState, Index
<1>4. n = 1
  <2>1. WriteRoom(b) = IF h >= t THEN IF t = 0 THEN SIZE - h - 1 ELSE SIZE - h ELSE t - h - 1
    BY <1>1 DEF WriteRoom
  <2>2. WriteRoom(b) \in Nat /\ WriteRoom(b) >= 1
    BY <1>3, <2>1
  <2>3. n = IF WriteRoom(b) < 1 - 0 THEN WriteRoom(b) ELSE 1 - 0
    BY <1>1, <1>2, <1>3 DEF WriteLen, AtMost
  <2> QED
    BY <2>2, <2>3
<1>5. s \in [c : CbufState, pos : Nat] /\ s.c = b /\ s.pos = 0 /\ s.pos <= Len(p)
  BY <1>1, <1>2
<1>6. PICK x : x = WritePass(s, p).c
  OBVIOUS
<1>7. /\ x.tail = t /\ x.head = INC_POINTER(h, 1)
      /\ x.buf = [i \in Index |-> IF i \in h .. h + 1 - 1 THEN p[0 + 1 + i - h] ELSE b.buf[i]]
      /\ x = [buf |-> x.buf, head |-> x.head, tail |-> x.tail]
  <2>1. b.head = h /\ b.tail = t
    BY <1>1
  <2> QED
    BY <1>4, <1>5, <1>6, <1>1, <2>1 DEF WritePass, WriteLen, CbufState
<1>8. /\ v.tail = t /\ v.head = INC_POINTER(h, 1) /\ v.buf = [b.buf EXCEPT ![h] = ch]
      /\ v = [buf |-> v.buf, head |-> v.head, tail |-> v.tail]
  BY <1>1 DEF CbufState
<1>9. x.buf = [b.buf EXCEPT ![h] = ch]
  <2>1. ASSUME NEW i \in Index
        PROVE  x.buf[i] = [b.buf EXCEPT ![h] = ch][i]
    <3>1. i \in Int /\ (i \in h .. h + 1 - 1 <=> i = h) /\ (i = h => 0 + 1 + i - h = 1)
      BY <1>3 DEF Index
    <3> QED
      BY <1>2, <1>3, <1>7, <3>1
  <2> QED
    BY <1>3, <1>7, <2>1
<1>10. v = x
  BY <1>7, <1>8, <1>9
<1>11. /\ x \in CbufState /\ cbuf_space_used(x) = u + 1
       /\ Contents(x) = Contents(b) \o SubSeq(p, 0 + 1, 0 + 1)
  <2>1. WriteLen(s, p) = 1 /\ cbuf_space_used(b) = u
    BY <1>1, <1>4
  <2> QED
    BY <1>2, <1>5, <1>6, <2>1, WritePassEffect
<1>12. p \in Payload
  <2>1. Len(p) <= SIZE - 1 /\ p # << >>
    <3>1. 1 <= SIZE - 1
      BY <1>3
    <3>2. p # << >>
      BY <1>1, OneByte
    <3> QED
      BY <1>2, <3>1, <3>2
  <2> QED
    BY <1>2, <2>1, PayloadSeq
<1>13. 1 = AtMost(1, SIZE - 1 - u) /\ 0 + 1 = 1
  BY <1>3 DEF AtMost
<1> QED
  BY <1>1, <1>2, <1>10, <1>11, <1>12, <1>13

-----------------------------------------------------------------------------
(***************************************************************************)
(* The loop of cbuf_read().                                                *)
(***************************************************************************)

ReadState == [c : CbufState, pos : Nat, got : Seq(Byte)]

\* How many bytes a pass of the loop of cbuf_read() copies.
ReadPassLen(s, buflen) ==
    IF s.c.head >= s.c.tail THEN AtMost(s.c.head - s.c.tail, buflen - s.pos)
                            ELSE AtMost(SIZE - s.c.tail, buflen - s.pos)

\* A pass never runs past the end of the buffer, past head or past buflen.
LEMMA ReadLenBounds ==
    ASSUME NEW s \in ReadState, NEW buflen \in Nat, s.pos <= buflen
    PROVE  /\ ReadPassLen(s, buflen) \in Nat
           /\ ReadPassLen(s, buflen) <= cbuf_space_used(s.c)
           /\ ReadPassLen(s, buflen) <= buflen - s.pos
           /\ s.c.tail + ReadPassLen(s, buflen) <= SIZE
<1>1. PICK h, t, u, m :
        h = s.c.head /\ t = s.c.tail /\ u = cbuf_space_used(s.c) /\ m = buflen - s.pos
  OBVIOUS
<1>2. s.c \in CbufState /\ SIZE \in Nat \ {0} /\ m \in Nat
  BY <1>1, SizeType DEF ReadState
<1>3. h \in 0 .. SIZE - 1 /\ t \in 0 .. SIZE - 1
  BY <1>1, <1>2 DEF CbufState, Index
<1>4. u = IF h >= t THEN h - t ELSE h - t + SIZE
  BY <1>1, <1>2, Used
<1>5. ReadPassLen(s, buflen) = IF h >= t THEN IF h - t < m THEN h - t ELSE m
                                         ELSE IF SIZE - t < m THEN SIZE - t ELSE m
  BY <1>1 DEF ReadPassLen, AtMost
<1> QED
  BY <1>1, <1>2, <1>3, <1>4, <1>5

\* A pass of the loop of cbuf_read() moves the oldest bytes of the contents to
\* the caller's buffer.
LEMMA ReadPassEffect ==
    ASSUME NEW s \in ReadState, NEW buflen \in Nat, s.pos <= buflen
    PROVE  /\ ReadPass(s, buflen) \in ReadState
           /\ ReadPass(s, buflen).pos = s.pos + ReadPassLen(s, buflen)
           /\ ReadPass(s, buflen).c.head = s.c.head
           /\ ReadPass(s, buflen).c.tail =
                IF s.c.tail + ReadPassLen(s, buflen) < SIZE
                THEN s.c.tail + ReadPassLen(s, buflen) ELSE 0
           /\ cbuf_space_used(ReadPass(s, buflen).c) =
                cbuf_space_used(s.c) - ReadPassLen(s, buflen)
           /\ ReadPass(s, buflen).got =
                s.got \o SubSeq(Contents(s.c), 1, ReadPassLen(s, buflen))
           /\ Contents(ReadPass(s, buflen).c) =
                SubSeq(Contents(s.c), ReadPassLen(s, buflen) + 1, cbuf_space_used(s.c))
<1>1. PICK v, n : v = ReadPass(s, buflen) /\ n = ReadPassLen(s, buflen)
  OBVIOUS
<1>2. PICK b, h, t, u, g : /\ b = s.c /\ h = b.head /\ t = b.tail
                           /\ u = cbuf_space_used(b) /\ g = v.c.tail
  OBVIOUS
<1>3. /\ b \in CbufState /\ b.buf \in [Index -> Byte] /\ h \in Index /\ t \in Index
      /\ s.pos \in Nat /\ s.got \in Seq(Byte)
  BY <1>2 DEF CbufState, ReadState
<1>4. SIZE \in Nat \ {0} /\ h \in 0 .. SIZE - 1 /\ t \in 0 .. SIZE - 1
  BY <1>3, SizeType DEF Index
<1>5. u \in 0 .. SIZE - 1 /\ u = IF h >= t THEN h - t ELSE h - t + SIZE
  BY <1>2, <1>3, Used DEF Index
<1>6. n \in Nat /\ n <= u /\ t + n <= SIZE
  BY <1>1, <1>2, ReadLenBounds
<1>7. /\ v.pos = s.pos + n
      /\ v.c.buf = b.buf /\ v.c.head = h
      /\ g = INC_POINTER(t, n)
      /\ v.got = s.got \o [i \in 1 .. n |-> b.buf[t + i - 1]]
      /\ v = [c |-> [buf |-> v.c.buf, head |-> v.c.head, tail |-> v.c.tail],
              pos |-> v.pos, got |-> v.got]
  BY <1>1, <1>2, <1>3 DEF ReadPass, ReadPassLen, CbufState
<1>8. g \in Index /\ g = IF t + n < SIZE THEN t + n ELSE 0
  <2>1. n \in 0 .. SIZE
    BY <1>4, <1>5, <1>6
  <2>2. t + n >= SIZE => t + n - SIZE = 0
    BY <1>4, <1>6
  <2> QED
    BY <1>3, <1>4, <1>6, <1>7, <2>1, <2>2, IncPointer
<1>9. v.c \in CbufState
  BY <1>2, <1>3, <1>7, <1>8 DEF CbufState
<1>10. /\ (IF h >= g THEN h - g ELSE h - g + SIZE) = u - n
       /\ \A i \in 1 .. u - n :
            (IF g + i - 1 < SIZE THEN g + i - 1 ELSE g + i - 1 - SIZE) =
              IF t + (n + i) - 1 < SIZE THEN t + (n + i) - 1 ELSE t + (n + i) - 1 - SIZE
       /\ \A i \in 1 .. n :
            (IF t + i - 1 < SIZE THEN t + i - 1 ELSE t + i - 1 - SIZE) = t + i - 1
  <2>1. n \in 0 .. u
    BY <1>5, <1>6
  <2> QED
    BY <1>4, <1>5, <1>6, <1>8, <2>1, ReadArithmetic
<1>11. cbuf_space_used(v.c) = u - n
  BY <1>2, <1>7, <1>9, <1>10, Used
<1>12. /\ Contents(b) \in Seq(Byte) /\ Len(Contents(b)) = u
       /\ Contents(v.c) \in Seq(Byte) /\ Len(Contents(v.c)) = u - n
  BY <1>2, <1>3, <1>9, <1>11, ContentsType
<1>13. [i \in 1 .. n |-> b.buf[t + i - 1]] = SubSeq(Contents(b), 1, n)
  <2>1. PICK x, y : /\ x = [i \in 1 .. n |-> b.buf[t + i - 1]]
                    /\ y = SubSeq(Contents(b), 0 + 1, 0 + n)
    OBVIOUS
  <2>2. 0 + n <= Len(Contents(b)) /\ 0 \in Nat /\ 0 + n = n /\ 0 + 1 = 1
    BY <1>6, <1>12
  <2>3. y \in Seq(Byte) /\ Len(y) = n /\ \A i \in 1 .. n : y[i] = Contents(b)[0 + i]
    BY <1>6, <1>12, <2>1, <2>2, Part
  <2>4. ASSUME NEW i \in 1 .. n
        PROVE  y[i] = b.buf[t + i - 1] /\ b.buf[t + i - 1] \in Byte
    <3>1. i \in 1 .. u /\ 0 + i = i
      BY <1>5, <1>6
    <3>2. PICK k : k = INC_POINTER(t, i - 1)
      OBVIOUS
    <3>3. /\ Contents(b)[i] = b.buf[k] /\ k \in Index
          /\ k = IF t + i - 1 < SIZE THEN t + i - 1 ELSE t + i - 1 - SIZE
      BY <1>2, <1>3, <3>1, <3>2, ContentsType
    <3>4. k = t + i - 1
      BY <1>10, <3>3
    <3> QED
      BY <1>3, <2>3, <3>1, <3>3, <3>4
  <2>5. x \in Seq(Byte) /\ Len(x) = n /\ \A i \in 1 .. n : x[i] = b.buf[t + i - 1]
    <3>1. x \in [1 .. n -> Byte]
      BY <2>1, <2>4
    <3> QED
      BY <1>6, <2>1, <3>1
  <2>6. x = y
    BY <2>3, <2>4, <2>5
  <2> QED
    BY <2>1, <2>2, <2>6
<1>14. Contents(v.c) = SubSeq(Contents(b), n + 1, u)
  <2>1. PICK m, y : m = u - n /\ y = SubSeq(Contents(b), n + 1, n + m)
    OBVIOUS
  <2>2. m \in Nat /\ n + m <= Len(Contents(b)) /\ n + m = u
    BY <1>5, <1>6, <1>12, <2>1
  <2>3. y \in Seq(Byte) /\ Len(y) = u - n /\ \A i \in 1 .. u - n : y[i] = Contents(b)[n + i]
    <3>1. PICK q : q = Contents(b)
      OBVIOUS
    <3>2. q \in Seq(Byte) /\ n \in Nat /\ n + m <= Len(q) /\ y = SubSeq(q, n + 1, n + m)
      BY <1>6, <1>12, <2>1, <2>2, <3>1
    <3>3. y \in Seq(Byte) /\ Len(y) = m /\ \A i \in 1 .. m : y[i] = q[n + i]
      BY <2>2, <3>2, Part
    <3> QED
      BY <2>1, <3>1, <3>3
  <2>4. ASSUME NEW i \in 1 .. u - n
        PROVE  Contents(v.c)[i] = y[i]
    <3>1. n + i \in 1 .. u
      BY <1>5, <1>6
    <3>2. PICK j, k : j = INC_POINTER(g, i - 1) /\ k = INC_POINTER(t, (n + i) - 1)
      OBVIOUS
    <3>3. /\ Contents(v.c)[i] = v.c.buf[j]
          /\ j = IF g + i - 1 < SIZE THEN g + i - 1 ELSE g + i - 1 - SIZE
      BY <1>2, <1>9, <1>11, <3>2, ContentsType
    <3>4. /\ Contents(b)[n + i] = b.buf[k]
          /\ k = IF t + (n + i) - 1 < SIZE THEN t + (n + i) - 1 ELSE t + (n + i) - 1 - SIZE
      BY <1>2, <1>3, <3>1, <3>2, ContentsType
    <3>5. j = k
      BY <1>10, <3>3, <3>4
    <3> QED
      BY <1>7, <2>3, <3>3, <3>4, <3>5
  <2>5. Contents(v.c) = y
    BY <1>12, <2>3, <2>4
  <2> QED
    BY <2>1, <2>2, <2>5
<1>15. v.got = s.got \o SubSeq(Contents(b), 1, n)
  BY <1>7, <1>13
<1>16. v \in ReadState
  <2>1. v.pos \in Nat
    BY <1>3, <1>6, <1>7
  <2>2. SubSeq(Contents(b), 1, n) \in Seq(Byte)
    <3>1. 0 + n <= Len(Contents(b)) /\ 0 \in Nat /\ 0 + n = n /\ 0 + 1 = 1
      BY <1>6, <1>12
    <3>2. SubSeq(Contents(b), 0 + 1, 0 + n) \in Seq(Byte)
      BY <1>6, <1>12, <3>1, Part
    <3> QED
      BY <3>1, <3>2
  <2>3. v.got \in Seq(Byte)
    BY <1>3, <1>15, <2>2
  <2> QED
    BY <1>7, <1>9, <2>1, <2>3 DEF ReadState
<1> QED
  BY <1>1, <1>2, <1>7, <1>8, <1>11, <1>14, <1>15, <1>16

\* cbuf_read() takes the oldest bytes, as many as there are and were asked for,
\* in order, and leaves the others.
LEMMA ReadLoopEffect ==
    ASSUME NEW b \in CbufState, NEW buflen \in Nat
    PROVE  /\ ReadLoop(b, buflen) \in ReadState
           /\ ReadLoop(b, buflen).pos <= cbuf_space_used(b)
           /\ ReadLoop(b, buflen).pos = AtMost(buflen, cbuf_space_used(b))
           /\ cbuf_space_used(ReadLoop(b, buflen).c) =
                cbuf_space_used(b) - ReadLoop(b, buflen).pos
           /\ ReadLoop(b, buflen).got = SubSeq(Contents(b), 1, ReadLoop(b, buflen).pos)
           /\ Contents(ReadLoop(b, buflen).c) =
                SubSeq(Contents(b), ReadLoop(b, buflen).pos + 1, cbuf_space_used(b))
<1>1. PICK s0 : s0 = [c |-> b, pos |-> 0, got |-> << >>]
  OBVIOUS
<1>2. PICK s1, n1 : s1 = ReadPass(s0, buflen) /\ n1 = ReadPassLen(s0, buflen)
  OBVIOUS
<1>3. PICK s2, n2 : s2 = ReadPass(s1, buflen) /\ n2 = ReadPassLen(s1, buflen)
  OBVIOUS
<1>4. s2 = ReadLoop(b, buflen)
  BY <1>1, <1>2, <1>3 DEF ReadLoop
<1>5. PICK h, t, u, g, x : /\ h = b.head /\ t = b.tail /\ u = cbuf_space_used(b)
                           /\ g = s1.c.tail /\ x = Contents(b)
  OBVIOUS
<1>6. /\ SIZE \in Nat \ {0} /\ h \in 0 .. SIZE - 1 /\ t \in 0 .. SIZE - 1
      /\ u \in 0 .. SIZE - 1 /\ u = IF h >= t THEN h - t ELSE h - t + SIZE
  BY <1>5, SizeType, Used DEF CbufState, Index
<1>7. /\ s0 \in ReadState /\ s0.c = b /\ s0.pos = 0 /\ s0.got = << >> /\ s0.pos <= buflen
      /\ x \in Seq(Byte) /\ Len(x) = u
  BY <1>1, <1>5, ContentsType DEF ReadState
<1>8. /\ s1 \in ReadState /\ s1.pos = 0 + n1 /\ s1.c.head = h
      /\ g = IF t + n1 < SIZE THEN t + n1 ELSE 0
      /\ cbuf_space_used(s1.c) = u - n1
      /\ s1.got = << >> \o SubSeq(x, 1, n1)
      /\ Contents(s1.c) = SubSeq(x, n1 + 1, u)
  <2>1. /\ ReadPass(s0, buflen) \in ReadState
        /\ ReadPass(s0, buflen).pos = s0.pos + ReadPassLen(s0, buflen)
        /\ ReadPass(s0, buflen).c.head = s0.c.head
        /\ ReadPass(s0, buflen).c.tail =
             IF s0.c.tail + ReadPassLen(s0, buflen) < SIZE
             THEN s0.c.tail + ReadPassLen(s0, buflen) ELSE 0
        /\ cbuf_space_used(ReadPass(s0, buflen).c) =
             cbuf_space_used(s0.c) - ReadPassLen(s0, buflen)
        /\ ReadPass(s0, buflen).got =
             s0.got \o SubSeq(Contents(s0.c), 1, ReadPassLen(s0, buflen))
        /\ Contents(ReadPass(s0, buflen).c) =
             SubSeq(Contents(s0.c), ReadPassLen(s0, buflen) + 1, cbuf_space_used(s0.c))
    BY <1>7, ReadPassEffect
  <2> QED
    BY <1>2, <1>5, <1>7, <2>1
<1>9. n1 \in Nat /\ n1 <= u /\ n1 <= buflen /\ s1.pos = n1
  <2>1. n1 \in Nat /\ n1 <= u /\ n1 <= buflen - 0
    BY <1>2, <1>5, <1>7, ReadLenBounds
  <2> QED
    BY <1>8, <2>1
<1>10. /\ s2 \in ReadState /\ s2.pos = n1 + n2
       /\ cbuf_space_used(s2.c) = u - n1 - n2
       /\ s2.got = s1.got \o SubSeq(Contents(s1.c), 1, n2)
       /\ Contents(s2.c) = SubSeq(Contents(s1.c), n2 + 1, u - n1)
  <2>1. s1 \in ReadState /\ s1.pos <= buflen
    BY <1>8, <1>9
  <2>2. /\ s2 \in ReadState /\ s2.pos = s1.pos + n2
        /\ cbuf_space_used(s2.c) = cbuf_space_used(s1.c) - n2
        /\ s2.got = s1.got \o SubSeq(Contents(s1.c), 1, n2)
        /\ Contents(s2.c) = SubSeq(Contents(s1.c), n2 + 1, cbuf_space_used(s1.c))
    BY <1>3, <2>1, ReadPassEffect
  <2> QED
    BY <1>8, <1>9, <2>2
<1>11. n2 \in Nat /\ n2 <= u - n1
  BY <1>3, <1>8, <1>9, ReadLenBounds
<1>12. n1 + n2 = IF buflen < u THEN buflen ELSE u
  <2>1. n1 = IF h >= t THEN IF h - t < buflen - 0 THEN h - t ELSE buflen - 0
                       ELSE IF SIZE - t < buflen - 0 THEN SIZE - t ELSE buflen - 0
    BY <1>2, <1>5, <1>7 DEF ReadPassLen, AtMost
  <2>2. n2 = IF h >= g THEN IF h - g < buflen - n1 THEN h - g ELSE buflen - n1
                       ELSE IF SIZE - g < buflen - n1 THEN SIZE - g ELSE buflen - n1
    BY <1>3, <1>5, <1>8, <1>9 DEF ReadPassLen, AtMost
  <2>3. g \in Nat /\ buflen - 0 = buflen
    BY <1>6, <1>8, <1>9
  <2> QED
    BY <1>6, <1>8, <1>9, <1>11, <2>1, <2>2, <2>3, ReadTwice
<1>13. PICK m : m = u - n1
  OBVIOUS
<1>14. m \in Nat /\ n1 + m = u /\ n1 + m <= Len(x) /\ n2 <= m
  BY <1>6, <1>7, <1>9, <1>11, <1>13
<1>15. Contents(s1.c) = SubSeq(x, n1 + 1, n1 + m)
  BY <1>8, <1>14
<1>16. s2.got = SubSeq(x, 1, n1 + n2)
  <2>1. SubSeq(SubSeq(x, n1 + 1, n1 + m), 0 + 1, 0 + n2) = SubSeq(x, n1 + 0 + 1, n1 + 0 + n2)
    BY <1>7, <1>9, <1>11, <1>14, PartOfPart
  <2>2. 0 + 1 = 1 /\ 0 + n2 = n2 /\ n1 + 0 = n1
    BY <1>9, <1>11
  <2>3. n1 \in Nat /\ n2 \in Nat /\ n1 + n2 <= Len(x) /\ x \in Seq(Byte)
    BY <1>7, <1>9, <1>11, <1>14
  <2>4. /\ SubSeq(x, 1, n1) \o SubSeq(x, n1 + 1, n1 + n2) = SubSeq(x, 1, n1 + n2)
        /\ SubSeq(x, 1, n1) \in Seq(Byte)
    BY <2>3, PrefixConcat
  <2>5. << >> \o SubSeq(x, 1, n1) = SubSeq(x, 1, n1)
    BY <2>4
  <2> QED
    BY <1>8, <1>10, <1>15, <2>1, <2>2, <2>4, <2>5
<1>17. Contents(s2.c) = SubSeq(x, n1 + n2 + 1, u)
  <2>1. PICK k : k = m - n2
    OBVIOUS
  <2>2. k \in Nat /\ n2 + k = m /\ n2 + k <= m /\ n1 + n2 + k = u
    BY <1>9, <1>11, <1>14, <2>1
  <2>3. SubSeq(SubSeq(x, n1 + 1, n1 + m), n2 + 1, n2 + k) =
          SubSeq(x, n1 + n2 + 1, n1 + n2 + k)
    BY <1>7, <1>9, <1>11, <1>14, <2>2, PartOfPart
  <2> QED
    BY <1>10, <1>13, <1>15, <2>2, <2>3
<1>18. n1 + n2 <= u /\ u - n1 - n2 = u - (n1 + n2)
  BY <1>6, <1>9, <1>11
<1> QED
  BY <1>4, <1>5, <1>10, <1>12, <1>16, <1>17, <1>18 DEF AtMost

-----------------------------------------------------------------------------
(***************************************************************************)
(* The inductive invariant.                                                *)
(***************************************************************************)

\* A sleeping reader is in event_wait(), a reader inside the lock has copied and
\* not yet unlocked, and a blocking read keeps its arguments while it waits.
ReadersOK ==
    \A r \in Thread :
        /\ wq.state[r] \in {"READY", "BLOCKED"}
        /\ wq.state[r] = "BLOCKED" => read[r].pc = "waiting"
        /\ read[r].pc = "copied" <=> lock = r
        /\ read[r].pc \in {"waiting", "ready", "again"} => read[r].len \in ReadLen
        /\ read[r].pc \in {"waiting", "ready"} => read[r].into
        /\ read[r].pc = "copied" /\ read[r].block => read[r].len \in ReadLen

\* The event and the data.  Between its copy and its unlock a writer may have
\* added data that the event does not show yet, and a reader may have taken the
\* data that it still shows; the reader then knows, since its pos is not zero.
EventOK ==
    /\ lock = NULL => (signaled <=> c.head # c.tail)
    /\ lock \in Writer /\ signaled => c.head # c.tail
    /\ \A r \in Thread :
         lock = r => /\ signaled <=> read[r].pos > 0
                     /\ c.head # c.tail => read[r].pos > 0
    /\ signaled => wq.list[ewait] = << >>

IInv == TypeOK /\ WaitQueueOK(wq) /\ ReadersOK /\ EventOK

\* The buffer as cbuf_initialize_etc() leaves it satisfies the invariant.
LEMMA Initially == Init => IInv
<1> SUFFICES ASSUME Init PROVE IInv
  OBVIOUS
<1>1. wq \in WaitState /\ WaitQueueOK(wq) /\ wq = WaitInit
  BY NullAssumption DEF Init, WaitInit, WaitState, ThreadState, Status,
                        WaitQueueOK, NoRepeats, Elements
<1>2. SIZE \in Nat \ {0} /\ 0 \in Index
  BY SizeType DEF Index
<1>3. TypeOK
  BY <1>1, <1>2 DEF Init, TypeOK, NoWrite, NoRead, Index
<1>4. ReadersOK
  <2>1. \A r \in Thread : wq.state[r] = "READY" /\ read[r].pc = "out"
    BY DEF Init, NoRead, WaitInit
  <2>2. \A r \in Thread : lock # r
    BY NullAssumption DEF Init
  <2> QED
    BY <2>1, <2>2 DEF ReadersOK
<1>5. EventOK
  BY CbufAssumption, NullAssumption DEF Init, EventOK
<1> QED
  BY <1>1, <1>3, <1>4, <1>5 DEF IInv

\* Data was added to the buffer, with the lock held: whoever was shown the event
\* still finds data.
LEMMA WriteStep ==
    ASSUME IInv, NEW w \in Writer, NEW payload \in Payload, NEW n \in 0 .. SIZE - 1,
           lock = NULL, lock' = w,
           c' \in CbufState, cbuf_space_used(c') = cbuf_space_used(c) + n,
           sent' = [sent EXCEPT ![w] = [payload |-> payload, taken |-> n]],
           UNCHANGED <<wq, signaled, read>>
    PROVE  IInv'
<1> USE DEF IInv
<1>1. TypeOK'
  BY DEF TypeOK, CbufState
<1>2. WaitQueueOK(wq')
  OBVIOUS
<1>3. w \notin Thread /\ w # NULL /\ NULL \notin Thread
  BY CbufAssumption, NullAssumption
<1>4. ReadersOK'
  BY <1>3 DEF ReadersOK
<1>5. c.head # c.tail => c'.head # c'.tail
  <2>1. c \in CbufState
    BY DEF TypeOK, CbufState
  <2>2. PICK u, v : u = cbuf_space_used(c) /\ v = cbuf_space_used(c')
    OBVIOUS
  <2>3. u \in Index /\ v = u + n /\ (u = 0 <=> c.head = c.tail) /\ (v = 0 <=> c'.head = c'.tail)
    BY <2>1, <2>2, Used
  <2>4. u # 0 => v # 0
    BY <2>3, SizeType DEF Index
  <2> QED
    BY <2>3, <2>4
<1>6. EventOK'
  BY <1>3, <1>5 DEF EventOK
<1> QED
  BY <1>1, <1>2, <1>4, <1>6

\* cbuf_write() preserves the invariant.
LEMMA WriteLoopStep ==
    ASSUME IInv, NEW w \in Writer, NEW payload \in Payload, cbuf_write(w, payload)
    PROVE  IInv'
<1>1. PICK s : s = WriteLoop(c, payload)
  OBVIOUS
<1>2. /\ lock = NULL /\ lock' = w /\ c' = s.c
      /\ sent' = [sent EXCEPT ![w] = [payload |-> payload, taken |-> s.pos]]
      /\ UNCHANGED <<wq, signaled, read>>
  BY <1>1 DEF cbuf_write
<1>3. c \in CbufState /\ payload \in Seq(Byte)
  BY PayloadSeq DEF IInv, TypeOK, CbufState
<1>4. /\ s.c \in CbufState /\ s.pos \in Nat /\ s.pos <= SIZE - 1
      /\ cbuf_space_used(s.c) = cbuf_space_used(c) + s.pos
  BY <1>1, <1>3, WriteLoopEffect
<1>5. s.pos \in 0 .. SIZE - 1
  BY <1>4, SizeType
<1> QED
  BY <1>2, <1>4, <1>5, WriteStep

\* So does cbuf_write_char().
LEMMA WriteCharStep ==
    ASSUME IInv, NEW w \in Writer, NEW ch \in Byte, cbuf_write_char(w, ch)
    PROVE  IInv'
<1>1. /\ lock = NULL /\ lock' = w /\ cbuf_space_avail(c) > 0
      /\ sent' = [sent EXCEPT ![w] = [payload |-> <<ch>>, taken |-> 1]]
      /\ UNCHANGED <<wq, signaled, read>>
  BY DEF cbuf_write_char
<1>2. c \in CbufState
  BY DEF IInv, TypeOK, CbufState
<1>3. c' = [buf |-> [c.buf EXCEPT ![c.head] = ch], head |-> INC_POINTER(c.head, 1),
            tail |-> c.tail]
  BY <1>2 DEF cbuf_write_char, CbufState
<1>4. /\ c' \in CbufState /\ cbuf_space_used(c') = cbuf_space_used(c) + 1
      /\ <<ch>> \in Payload /\ Len(<<ch>>) = 1
  BY <1>1, <1>2, <1>3, WriteCharEffect
<1>5. 1 \in 0 .. SIZE - 1
  BY <1>4, PayloadSeq, SizeType
<1> QED
  BY <1>1, <1>4, <1>5, WriteStep

\* event_signal() and the unlock of a writer.
LEMMA WriteUnlockStep ==
    ASSUME IInv, NEW w \in Writer, WriteUnlock(w) PROVE IInv'
<1> USE DEF IInv
<1>1. /\ lock = w /\ lock' = NULL /\ c' = c /\ read' = read
      /\ sent' = [sent EXCEPT ![w] = NoWrite]
      /\ wq \in WaitState /\ WaitQueueOK(wq) /\ ewait \in Queue
  BY CbufAssumption DEF WriteUnlock, TypeOK
<1>2. w \notin Thread /\ w # NULL /\ NULL \notin Thread
  BY CbufAssumption, NullAssumption
<1>3. 0 \in 0 .. SIZE - 1
  BY SizeType
<1>4. CASE c.head # c.tail /\ ~signaled
  <2>1. signaled' = TRUE /\ wq' = wait_queue_wake_all(wq, ewait, "NO_ERROR")
    BY <1>4 DEF WriteUnlock, WriteSignals
  <2>2. /\ wq' \in WaitState /\ WaitQueueOK(wq') /\ wq'.list[ewait] = << >>
        /\ \A u \in Thread : wq'.state[u] = "READY" \/ wq'.state[u] = wq.state[u]
    <3>1. "NO_ERROR" \in Status
      BY DEF Status
    <3>2. /\ wq' \in WaitState /\ WaitQueueOK(wq') /\ wq'.list[ewait] = << >>
          /\ \A u \in Thread :
               IF wq.blockedOn[u] = ewait
               THEN wq'.state[u] = "READY" /\ wq'.blockedOn[u] = NULL /\ wq'.ret[u] = "NO_ERROR"
               ELSE /\ wq'.state[u] = wq.state[u] /\ wq'.blockedOn[u] = wq.blockedOn[u]
                    /\ wq'.ret[u] = wq.ret[u]
      BY <1>1, <2>1, <3>1, WakeAllEffect
    <3> QED
      BY <3>2
  <2>3. TypeOK'
    BY <1>1, <1>3, <2>1, <2>2 DEF TypeOK, NoWrite
  <2>4. ReadersOK'
    BY <1>1, <1>2, <2>2 DEF ReadersOK
  <2>5. EventOK'
    BY <1>1, <1>2, <1>4, <2>1, <2>2, CbufAssumption, NullAssumption DEF EventOK
  <2> QED
    BY <2>2, <2>3, <2>4, <2>5
<1>5. CASE ~(c.head # c.tail /\ ~signaled)
  <2>1. signaled' = signaled /\ wq' = wq
    BY <1>5 DEF WriteUnlock, WriteSignals
  <2>2. TypeOK'
    BY <1>1, <1>3, <2>1 DEF TypeOK, NoWrite
  <2>3. ReadersOK'
    BY <1>1, <1>2, <2>1 DEF ReadersOK
  <2>4. EventOK'
    BY <1>1, <1>2, <1>5, <2>1, CbufAssumption, NullAssumption DEF EventOK
  <2> QED
    BY <1>1, <2>1, <2>2, <2>3, <2>4
<1> QED
  BY <1>4, <1>5

\* event_wait() of a reader that finds the event signaled, or goes to sleep.
LEMMA ReadWaitStep ==
    ASSUME IInv, NEW r \in Thread, NEW n \in ReadLen, ReadWait(r, n) PROVE IInv'
<1> USE DEF IInv
<1>1. /\ read[r].pc \in {"out", "again"}
      /\ read' = [read EXCEPT ![r] = [pc |-> IF signaled THEN "ready" ELSE "waiting",
                                      len |-> n, block |-> TRUE, into |-> TRUE,
                                      pos |-> 0, got |-> << >>]]
      /\ c' = c /\ signaled' = signaled /\ lock' = lock /\ sent' = sent
      /\ wq \in WaitState /\ WaitQueueOK(wq) /\ ewait \in Queue
  BY CbufAssumption DEF ReadWait, TypeOK
<1>2. 0 \in Index
  BY SizeType DEF Index
<1>3. wq.state[r] = "READY" /\ wq.blockedOn[r] = NULL /\ lock # r
  BY <1>1 DEF ReadersOK, WaitQueueOK
<1>4. /\ wq' \in WaitState /\ WaitQueueOK(wq')
      /\ signaled => wq' = wq
      /\ ~signaled => wq'.state = [wq.state EXCEPT ![r] = "BLOCKED"]
  <2>1. CASE signaled
    BY <1>1, <2>1 DEF ReadWait
  <2>2. CASE ~signaled
    <3>1. wq' = wait_queue_block(wq, ewait, r, "INFINITE_TIME")
      BY <2>2 DEF ReadWait
    <3>2. wq \in WaitState /\ WaitQueueOK(wq) /\ ewait \in Queue
      BY <1>1
    <3>3. wq' \in WaitState
      BY <3>1, <3>2, BlockType
    <3>4. WaitQueueOK(wq')
      BY <1>3, <3>1, <3>2, BlockOK
    <3>5. wq'.state = [wq.state EXCEPT ![r] = "BLOCKED"]
      BY <3>1 DEF wait_queue_block
    <3> QED
      BY <2>2, <3>3, <3>4, <3>5
  <2> QED
    BY <2>1, <2>2
<1>5. TypeOK'
  BY <1>1, <1>2, <1>4 DEF TypeOK
<1>6. ReadersOK'
  <2>1. /\ read'[r].pc = IF signaled THEN "ready" ELSE "waiting"
        /\ read'[r].len = n /\ read'[r].into = TRUE
        /\ \A p \in Thread \ {r} : read'[p] = read[p]
    BY <1>1 DEF TypeOK
  <2>2. /\ wq'.state[r] = IF signaled THEN "READY" ELSE "BLOCKED"
        /\ \A p \in Thread \ {r} : wq'.state[p] = wq.state[p]
    BY <1>1, <1>3, <1>4 DEF WaitState
  <2> QED
    BY <1>1, <1>3, <2>1, <2>2 DEF ReadersOK
<1>7. EventOK'
  BY <1>1, <1>3, <1>4 DEF EventOK, TypeOK
<1> QED
  BY <1>4, <1>5, <1>6, <1>7

\* event_wait() returns to a reader that was woken.
LEMMA ReadWokenStep == ASSUME IInv, NEW r \in Thread, ReadWoken(r) PROVE IInv'
<1> USE DEF IInv
<1>1. /\ read[r].pc = "waiting" /\ wq.state[r] = "READY"
      /\ wq' = wait_queue_block_return(wq, r) /\ wq \in WaitState
      /\ read' = [read EXCEPT ![r].pc = "ready"]
      /\ c' = c /\ signaled' = signaled /\ lock' = lock /\ sent' = sent
  BY DEF ReadWoken, TypeOK
<1>2. /\ wq'.state = wq.state /\ wq'.list = wq.list
      /\ wq'.blockedOn = wq.blockedOn /\ wq'.count = wq.count
  BY <1>1 DEF wait_queue_block_return, WaitState
<1>3. wq' \in WaitState /\ WaitQueueOK(wq')
  <2>1. wq' \in WaitState
    BY <1>1, BlockReturnType
  <2>2. WaitQueueOK(wq')
    BY <1>2 DEF WaitQueueOK
  <2> QED
    BY <2>1, <2>2
<1>4. TypeOK'
  BY <1>1, <1>3 DEF TypeOK
<1>5. ReadersOK'
  BY <1>1, <1>2 DEF ReadersOK, TypeOK
<1>6. EventOK'
  BY <1>1, <1>2 DEF EventOK, TypeOK, ReadersOK
<1> QED
  BY <1>3, <1>4, <1>5, <1>6

\* The copy of a read: what it returns, and that it finds something exactly when
\* the event said so.
LEMMA CopyEffect ==
    ASSUME IInv, NEW n \in ReadLen \union {SIZE}, NEW s, s = ReadLoop(c, n)
    PROVE  /\ c \in CbufState /\ n \in Nat
           /\ s.c \in CbufState /\ s.pos \in Index /\ s.got \in Payload \union {<< >>}
           /\ c.head # c.tail <=> s.pos > 0
           /\ s.c.head # s.c.tail => s.pos > 0
<1>1. c \in CbufState
  BY DEF IInv, TypeOK, CbufState
<1>2. SIZE \in Nat \ {0} /\ n \in Nat \ {0}
  BY SizeType, CbufAssumption
<1>3. PICK p, u, v, g : p = s.pos /\ u = cbuf_space_used(c) /\ v = cbuf_space_used(s.c) /\ g = s.got
  OBVIOUS
<1>4. /\ s \in ReadState /\ p = AtMost(n, u) /\ v = u - p
      /\ g = SubSeq(Contents(c), 1, p)
  BY <1>1, <1>2, <1>3, ReadLoopEffect
<1>5. /\ s.c \in CbufState /\ p \in Nat /\ g \in Seq(Byte)
      /\ u \in 0 .. SIZE - 1 /\ (u = 0 <=> c.head = c.tail)
      /\ v \in 0 .. SIZE - 1 /\ (v = 0 <=> s.c.head = s.c.tail)
  BY <1>1, <1>3, <1>4, Used DEF ReadState, Index
<1>6. p \in 0 .. SIZE - 1 /\ p <= u /\ (p > 0 <=> u # 0) /\ (v # 0 => u # 0)
  BY <1>2, <1>4, <1>5 DEF AtMost
<1>7. Len(g) = p
  <2>1. Contents(c) \in Seq(Byte) /\ Len(Contents(c)) = u
    BY <1>1, <1>3, ContentsType
  <2>2. p <= Len(Contents(c))
    BY <1>6, <2>1
  <2> QED
    BY <1>4, <1>5, <2>1, <2>2, Prefix
<1>8. g \in Payload \union {<< >>}
  <2>1. Len(g) <= SIZE - 1
    BY <1>2, <1>6, <1>7
  <2> QED
    BY <1>5, <2>1, PayloadSeq
<1> QED
  BY <1>1, <1>2, <1>3, <1>5, <1>6, <1>8 DEF Index

\* A reader takes the lock and copies.
LEMMA ReadCopyStep ==
    ASSUME IInv, NEW r \in Thread, NEW n \in ReadLen \union {SIZE},
           NEW block \in BOOLEAN, NEW into \in BOOLEAN, block => n \in ReadLen,
           read[r].pc \in {"out", "ready"}, ReadCopy(r, n, block, into)
    PROVE  IInv'
<1> USE DEF IInv
<1>1. PICK s : s = ReadLoop(c, n)
  OBVIOUS
<1>2. /\ lock = NULL /\ lock' = r /\ c' = s.c
      /\ read' = [read EXCEPT ![r] =
                    [pc |-> "copied", len |-> n, block |-> block, into |-> into,
                     pos |-> s.pos, got |-> IF into THEN s.got ELSE << >>]]
      /\ wq' = wq /\ signaled' = signaled /\ sent' = sent
  BY <1>1 DEF ReadCopy
<1>3. /\ s.c \in CbufState /\ s.pos \in Index /\ s.got \in Payload \union {<< >>}
      /\ c.head # c.tail <=> s.pos > 0
      /\ s.c.head # s.c.tail => s.pos > 0
  BY <1>1, CopyEffect
<1>4. r \notin Writer /\ r # NULL /\ NULL \notin Thread
  BY CbufAssumption, NullAssumption
<1>5. TypeOK'
  BY <1>2, <1>3 DEF TypeOK, CbufState
<1>6. wq.state[r] # "BLOCKED"
  BY DEF ReadersOK
<1>7. read \in [Thread -> [pc : {"out", "waiting", "ready", "copied", "again"},
                           len : ReadLen \union {0, SIZE}, block : BOOLEAN,
                           into : BOOLEAN, pos : Index, got : Payload \union {<< >>}]]
  BY DEF TypeOK
<1>8. ReadersOK'
  BY <1>2, <1>4, <1>6, <1>7 DEF ReadersOK
<1>9. EventOK'
  BY <1>2, <1>3, <1>4, <1>7 DEF EventOK
<1> QED
  BY <1>2, <1>5, <1>8, <1>9

\* event_unsignal() and the unlock of a reader, which may have to start again.
LEMMA ReadUnlockStep == ASSUME IInv, NEW r \in Thread, ReadUnlock(r) PROVE IInv'
<1> USE DEF IInv
<1>1. /\ lock = r /\ lock' = NULL /\ wq' = wq /\ c' = c /\ sent' = sent
      /\ signaled' = (signaled /\ ~(read[r].pos > 0 /\ c.tail = c.head))
  BY DEF ReadUnlock, ReadUnsignals
<1>3. read \in [Thread -> [pc : {"out", "waiting", "ready", "copied", "again"},
                           len : ReadLen \union {0, SIZE}, block : BOOLEAN,
                           into : BOOLEAN, pos : Index, got : Payload \union {<< >>}]]
  BY DEF TypeOK
<1>4. 0 \in Index /\ r \notin Writer /\ r # NULL /\ NULL \notin Thread /\ NULL \notin Writer
  BY SizeType, CbufAssumption, NullAssumption DEF Index
<1>5. /\ \A q \in Thread \ {r} : read'[q] = read[q]
      /\ read'[r].pc \in {"out", "again"}
      /\ read'[r].pc = "again" => read'[r].len = read[r].len /\ read[r].block
      /\ read' \in [Thread -> [pc : {"out", "waiting", "ready", "copied", "again"},
                               len : ReadLen \union {0, SIZE}, block : BOOLEAN,
                               into : BOOLEAN, pos : Index, got : Payload \union {<< >>}]]
  <2>1. PICK z : /\ read' = [read EXCEPT ![r] = z]
                 /\ z = IF ReadRetries(r)
                        THEN [pc |-> "again", len |-> read[r].len, block |-> FALSE,
                              into |-> FALSE, pos |-> 0, got |-> << >>]
                        ELSE [pc |-> "out", len |-> 0, block |-> FALSE,
                              into |-> FALSE, pos |-> 0, got |-> << >>]
    BY DEF ReadUnlock, NoRead
  <2>2. /\ z \in [pc : {"out", "waiting", "ready", "copied", "again"},
                  len : ReadLen \union {0, SIZE}, block : BOOLEAN,
                  into : BOOLEAN, pos : Index, got : Payload \union {<< >>}]
        /\ z.pc \in {"out", "again"}
        /\ z.pc = "again" => z.len = read[r].len /\ read[r].block
    <3>1. CASE ReadRetries(r)
      BY <1>3, <1>4, <2>1, <3>1 DEF ReadRetries
    <3>2. CASE ~ReadRetries(r)
      BY <1>4, <2>1, <3>2
    <3> QED
      BY <3>1, <3>2
  <2> QED
    BY <1>3, <2>1, <2>2
<1>6. TypeOK'
  BY <1>1, <1>5 DEF TypeOK
<1>7. wq.state[r] # "BLOCKED" /\ read[r].pc = "copied"
  BY <1>1 DEF ReadersOK
<1>8. ReadersOK'
  <2>1. ReadersOK
    BY <1>1
  <2>2. ASSUME NEW s \in Thread
        PROVE  /\ wq'.state[s] \in {"READY", "BLOCKED"}
               /\ wq'.state[s] = "BLOCKED" => read'[s].pc = "waiting"
               /\ read'[s].pc = "copied" <=> lock' = s
               /\ read'[s].pc \in {"waiting", "ready", "again"} => read'[s].len \in ReadLen
               /\ read'[s].pc \in {"waiting", "ready"} => read'[s].into
               /\ read'[s].pc = "copied" /\ read'[s].block => read'[s].len \in ReadLen
    BY <1>1, <1>4, <1>5, <1>7, <2>1 DEF ReadersOK
  <2> QED
    BY <2>2 DEF ReadersOK
<1>9. signaled' <=> c.head # c.tail
  BY <1>1 DEF EventOK, TypeOK
<1>10. EventOK'
  BY <1>1, <1>4, <1>9 DEF EventOK
<1> QED
  BY <1>1, <1>6, <1>8, <1>10

\* Every step preserves the invariant.
LEMMA Inductive == IInv /\ [Next]_vars => IInv'
<1> SUFFICES ASSUME IInv, [Next]_vars PROVE IInv'
  OBVIOUS
<1>1. ASSUME NEW w \in Writer, NEW ch \in Byte, cbuf_write_char(w, ch) PROVE IInv'
  BY <1>1, WriteCharStep
<1>2. ASSUME NEW w \in Writer, NEW payload \in Payload, cbuf_write(w, payload) PROVE IInv'
  BY <1>2, WriteLoopStep
<1>3. ASSUME NEW w \in Writer, WriteUnlock(w) PROVE IInv'
  BY <1>3, WriteUnlockStep
<1>4. ASSUME NEW r \in Thread, NEW n \in ReadLen, ReadWait(r, n) PROVE IInv'
  BY <1>4, ReadWaitStep
<1>5. ASSUME NEW r \in Thread, NEW n \in ReadLen, ReadNonblocking(r, n) PROVE IInv'
  BY <1>5, ReadCopyStep DEF ReadNonblocking
<1>6. ASSUME NEW r \in Thread, ReadWoken(r) PROVE IInv'
  BY <1>6, ReadWokenStep
<1>7. ASSUME NEW r \in Thread, ReadBlocking(r) PROVE IInv'
  <2>1. read[r].pc = "ready" /\ ReadCopy(r, read[r].len, TRUE, read[r].into)
    BY <1>7 DEF ReadBlocking
  <2>2. read[r].len \in ReadLen /\ read[r].into = TRUE
    BY <2>1 DEF IInv, ReadersOK, TypeOK
  <2> QED
    BY <2>1, <2>2, ReadCopyStep
<1>8. ASSUME NEW r \in Thread, cbuf_reset(r) PROVE IInv'
  BY <1>8, ReadCopyStep DEF cbuf_reset
<1>9. ASSUME NEW r \in Thread, ReadUnlock(r) PROVE IInv'
  BY <1>9, ReadUnlockStep
<1>10. CASE UNCHANGED vars
  <2>1. wq' = wq /\ c' = c /\ signaled' = signaled /\ lock' = lock /\ sent' = sent /\ read' = read
    BY <1>10 DEF vars
  <2>2. TypeOK' /\ WaitQueueOK(wq')
    BY <2>1 DEF IInv, TypeOK
  <2>3. ReadersOK' /\ EventOK'
    BY <2>1 DEF IInv, ReadersOK, EventOK
  <2> QED
    BY <2>2, <2>3 DEF IInv
<1> QED
  BY <1>1, <1>2, <1>3, <1>4, <1>5, <1>6, <1>7, <1>8, <1>9, <1>10 DEF Next

\* The invariant holds in every reachable state.
THEOREM CbufInvariant == Spec => []IInv
<1>1. IInv /\ [Next]_vars => IInv'
  BY Inductive
<1> QED
  BY <1>1, Initially, PTL DEF Spec

\* Whenever the buffer's lock is free, its event is signaled exactly when there is
\* data, and then nobody sleeps on it: the event_unsignal() of cbuf_read() and the
\* event_signal() of cbuf_write() never leave the event behind the data.
THEOREM EventFollowsData == Spec => []EventTracksData
<1>1. IInv => EventTracksData
  BY DEF IInv, EventOK, EventTracksData
<1> QED
  BY <1>1, CbufInvariant, PTL

\* The regions cbuf_peek() reports are the contents, for any head and tail.
LEMMA PeekRegions ==
    ASSUME NEW b \in CbufState, NEW v, v = cbuf_peek(b)
    PROVE  /\ \A k \in 1 .. 2 : v[k].base + v[k].len <= SIZE
           /\ Region(b, v[1]) \o Region(b, v[2]) = Contents(b)
<1>1. PICK t, u, p, q : /\ t = b.tail /\ u = cbuf_space_used(b)
                        /\ p = (IF u + t > SIZE THEN SIZE - t ELSE u)
                        /\ q = (IF u + t > SIZE THEN u - (SIZE - t) ELSE 0)
  OBVIOUS
<1>2. b.buf \in [Index -> Byte] /\ b.tail \in Index /\ cbuf_space_used(b) \in Index
  BY Used DEF CbufState
<1>3. SIZE \in Nat \ {0} /\ t \in 0 .. SIZE - 1 /\ u \in 0 .. SIZE - 1
  BY <1>1, <1>2, SizeType DEF Index
<1>4. /\ p \in Nat /\ q \in Nat /\ p + q = u /\ t + p <= SIZE /\ q <= SIZE
      /\ q > 0 => t + p = SIZE
  BY <1>1, <1>3
<1>5. v = <<[base |-> t, len |-> p], [base |-> 0, len |-> q]>>
  BY <1>1 DEF cbuf_peek
<1>6. v[1].base = t /\ v[1].len = p /\ v[2].base = 0 /\ v[2].len = q
  BY <1>5
<1>7. \A k \in 1 .. 2 : v[k].base + v[k].len <= SIZE
  <2>1. v[1].base + v[1].len <= SIZE /\ v[2].base + v[2].len <= SIZE
    BY <1>3, <1>4, <1>6
  <2> QED
    BY <2>1
<1>8. PICK x, y : x = Region(b, v[1]) /\ y = Region(b, v[2])
  OBVIOUS
<1>9. /\ x = [i \in 1 .. p |-> b.buf[t + i - 1]]
      /\ y = [i \in 1 .. q |-> b.buf[0 + i - 1]]
  BY <1>6, <1>8 DEF Region
<1>10. Contents(b) \in Seq(Byte) /\ Len(Contents(b)) = p + q
  BY <1>1, <1>4, ContentsType
<1>11. ASSUME NEW i \in 1 .. p
       PROVE  x[i] = Contents(b)[i] /\ x[i] \in Byte
  <2>1. i \in 1 .. u /\ t + i - 1 < SIZE /\ t + i - 1 \in Index
    BY <1>3, <1>4 DEF Index
  <2>2. Contents(b)[i] = b.buf[t + i - 1]
    BY <1>1, <2>1, ContentsType
  <2> QED
    BY <1>2, <1>9, <2>1, <2>2
<1>12. ASSUME NEW i \in 1 .. q
       PROVE  y[i] = Contents(b)[p + i] /\ y[i] \in Byte
  <2>1. PICK j : j = p + i
    OBVIOUS
  <2>2. /\ j \in 1 .. u /\ ~(t + j - 1 < SIZE) /\ t + j - 1 - SIZE = 0 + i - 1
        /\ 0 + i - 1 \in Index
    BY <1>3, <1>4, <2>1 DEF Index
  <2>3. Contents(b)[j] = b.buf[0 + i - 1]
    <3>1. PICK k : k = INC_POINTER(t, j - 1)
      OBVIOUS
    <3>2. /\ Contents(b)[j] = b.buf[k]
          /\ k = IF t + j - 1 < SIZE THEN t + j - 1 ELSE t + j - 1 - SIZE
      BY <1>1, <2>2, <3>1, ContentsType
    <3> QED
      BY <2>2, <3>2
  <2> QED
    BY <1>2, <1>9, <2>1, <2>2, <2>3
<1>13. x \in Seq(Byte) /\ Len(x) = p /\ y \in Seq(Byte) /\ Len(y) = q
  <2>1. x \in [1 .. p -> Byte] /\ y \in [1 .. q -> Byte]
    BY <1>9, <1>11, <1>12
  <2> QED
    BY <1>4, <2>1
<1>14. Contents(b) = x \o y
  BY <1>10, <1>11, <1>12, <1>13, ConcatEqual
<1> QED
  BY <1>7, <1>8, <1>14

\* cbuf_peek() shows, in order and inside the buffer, the bytes that the next
\* reads return.
THEOREM PeekIsContents == Spec => []PeekShowsContents
<1>1. IInv => PeekShowsContents
  <2> SUFFICES ASSUME IInv PROVE PeekShowsContents
    OBVIOUS
  <2>1. c \in CbufState
    BY DEF IInv, TypeOK, CbufState
  <2>2. PICK v : v = cbuf_peek(c)
    OBVIOUS
  <2>3. /\ \A k \in 1 .. 2 : v[k].base + v[k].len <= SIZE
        /\ Region(c, v[1]) \o Region(c, v[2]) = Contents(c)
    BY <2>1, <2>2, PeekRegions
  <2> QED
    BY <2>2, <2>3 DEF PeekShowsContents
<1> QED
  BY <1>1, CbufInvariant, PTL

-----------------------------------------------------------------------------
(***************************************************************************)
(* The refinement: each step of the buffer is a step of the bounded queue  *)
(* or leaves the queue alone.                                              *)
(***************************************************************************)

\* What a reader inside the buffer's lock has got, as the queue shows it.
rcvd == [r \in Thread |-> Received(r)]

\* An empty buffer is an empty queue.
LEMMA FifoInit == Init => Queued!Init
<1> SUFFICES ASSUME Init PROVE Queued!Init
  OBVIOUS
<1>1. c \in CbufState /\ c.head = 0 /\ c.tail = 0
  BY Initially DEF Init, IInv, TypeOK, CbufState
<1>2. Contents(c) \in Seq(Byte) /\ Len(Contents(c)) = 0
  BY <1>1, ContentsType, Used
<1>3. Contents(c) = << >>
  BY <1>2
<1>4. \A r \in Thread : Received(r) = [want |-> 0, got |-> << >>]
  BY DEF Init, Received, NoRead
<1> QED
  BY <1>3, <1>4 DEF Queued!Init, Queued!NotSending, Queued!NotReceiving, Init, NoWrite

\* A write that appends the n bytes that fit is a Put.
LEMMA FifoPut ==
    ASSUME IInv, NEW w \in Writer, NEW payload \in Payload, NEW n,
           n = AtMost(Len(payload), SIZE - 1 - cbuf_space_used(c)),
           sent[w] = NoWrite,
           sent' = [sent EXCEPT ![w] = [payload |-> payload, taken |-> n]],
           Contents(c') = Contents(c) \o SubSeq(payload, 1, n),
           read' = read
    PROVE  Queued!Next
<1>1. c \in CbufState
  BY DEF IInv, TypeOK, CbufState
<1>2. Len(Contents(c)) = cbuf_space_used(c)
  BY <1>1, ContentsType
<1>3. n = Queued!AtMost(Len(payload), (SIZE - 1) - Len(Contents(c)))
  BY <1>2 DEF AtMost, Queued!AtMost
<1>4. rcvd' = rcvd
  BY DEF rcvd, Received
<1>5. Queued!Put(w, payload)
  BY <1>3, <1>4 DEF Queued!Put, Queued!NotSending, NoWrite, rcvd
<1> QED
  BY <1>5 DEF Queued!Next

\* A read that takes the n oldest bytes is a Take, or, without a buffer to copy
\* them to, a Discard.
LEMMA FifoTake ==
    ASSUME IInv, NEW r \in Thread, NEW n \in ReadLen \union {SIZE},
           NEW block \in BOOLEAN, NEW into \in BOOLEAN,
           into => n \in ReadLen, ~into => n = SIZE,
           read[r].pc \in {"out", "ready"}, ReadCopy(r, n, block, into)
    PROVE  Queued!Next
<1>1. PICK s, q : s = ReadLoop(c, n) /\ q = Contents(c)
  OBVIOUS
<1>2. /\ c' = s.c /\ sent' = sent
      /\ read' = [read EXCEPT ![r] =
                    [pc |-> "copied", len |-> n, block |-> block, into |-> into,
                     pos |-> s.pos, got |-> IF into THEN s.got ELSE << >>]]
  BY <1>1 DEF ReadCopy
<1>3. c \in CbufState /\ n \in Nat
  BY <1>1, CopyEffect
<1>4. q \in Seq(Byte) /\ Len(q) = cbuf_space_used(c) /\ Len(q) \in Nat /\ Len(q) <= SIZE - 1
  <2>1. q \in Seq(Byte) /\ Len(q) = cbuf_space_used(c)
    BY <1>1, <1>3, ContentsType
  <2>2. cbuf_space_used(c) \in 0 .. SIZE - 1
    BY <1>3, Used DEF Index
  <2> QED
    BY <2>1, <2>2, SizeType
<1>5. /\ s.pos = Queued!AtMost(n, Len(q))
      /\ s.got = SubSeq(q, 1, s.pos)
      /\ Contents(c') = SubSeq(q, s.pos + 1, Len(q))
  BY <1>1, <1>2, <1>3, <1>4, ReadLoopEffect DEF AtMost, Queued!AtMost
<1>6. read \in [Thread -> [pc : {"out", "waiting", "ready", "copied", "again"},
                           len : ReadLen \union {0, SIZE}, block : BOOLEAN,
                           into : BOOLEAN, pos : Index, got : Payload \union {<< >>}]]
  BY DEF IInv, TypeOK
<1>7. rcvd[r] = [want |-> 0, got |-> << >>]
  BY DEF rcvd, Received
<1>8. \A t \in Thread \ {r} : Received(t)' = Received(t)
  BY <1>2, <1>6 DEF Received
<1>9. CASE into
  <2>1. Received(r)' = [want |-> n, got |-> SubSeq(q, 1, s.pos)]
    BY <1>2, <1>5, <1>6, <1>9 DEF Received
  <2>2. rcvd' = [rcvd EXCEPT ![r] = [want |-> n, got |-> SubSeq(q, 1, s.pos)]]
    BY <1>8, <2>1 DEF rcvd
  <2>3. Queued!Take(r, n)
    BY <1>1, <1>2, <1>5, <1>7, <2>2 DEF Queued!Take, Queued!NotReceiving, rcvd
  <2> QED
    BY <1>9, <2>3 DEF Queued!Next
<1>10. CASE ~into
  <2>1. Received(r)' = Received(r)
    BY <1>2, <1>6, <1>10 DEF Received
  <2>2. rcvd' = rcvd
    BY <1>8, <2>1 DEF rcvd
  <2>3. s.pos = Len(q)
    BY <1>3, <1>4, <1>5, <1>10, SizeType DEF Queued!AtMost
  <2>4. Contents(c') = << >>
    BY <1>4, <1>5, <2>3
  <2>5. Queued!Discard
    BY <1>2, <2>2, <2>4 DEF Queued!Discard, rcvd
  <2> QED
    BY <2>5 DEF Queued!Next
<1> QED
  BY <1>9, <1>10

\* Each step of the buffer is a step of the queue, or changes nothing of it.
LEMMA FifoStep ==
    ASSUME IInv, [Next]_vars
    PROVE  Queued!Next \/ UNCHANGED <<Contents(c), sent, rcvd>>
<1>1. c \in CbufState
  BY DEF IInv, TypeOK, CbufState
<1>2. read \in [Thread -> [pc : {"out", "waiting", "ready", "copied", "again"},
                           len : ReadLen \union {0, SIZE}, block : BOOLEAN,
                           into : BOOLEAN, pos : Index, got : Payload \union {<< >>}]]
  BY DEF IInv, TypeOK
<1>3. ASSUME NEW w \in Writer, NEW ch \in Byte, cbuf_write_char(w, ch) PROVE Queued!Next
  <2>1. /\ sent[w] = NoWrite /\ cbuf_space_avail(c) > 0 /\ read' = read
        /\ sent' = [sent EXCEPT ![w] = [payload |-> <<ch>>, taken |-> 1]]
    BY <1>3 DEF cbuf_write_char
  <2>2. c' = [buf |-> [c.buf EXCEPT ![c.head] = ch], head |-> INC_POINTER(c.head, 1),
              tail |-> c.tail]
    BY <1>1, <1>3 DEF cbuf_write_char, CbufState
  <2>3. /\ 1 = AtMost(1, SIZE - 1 - cbuf_space_used(c))
        /\ Contents(c') = Contents(c) \o SubSeq(<<ch>>, 1, 1)
        /\ <<ch>> \in Payload /\ Len(<<ch>>) = 1
    BY <1>1, <2>1, <2>2, WriteCharEffect
  <2> QED
    BY <2>1, <2>3, FifoPut
<1>4. ASSUME NEW w \in Writer, NEW payload \in Payload, cbuf_write(w, payload)
      PROVE  Queued!Next
  <2>1. PICK s : s = WriteLoop(c, payload)
    OBVIOUS
  <2>2. /\ sent[w] = NoWrite /\ c' = s.c /\ read' = read
        /\ sent' = [sent EXCEPT ![w] = [payload |-> payload, taken |-> s.pos]]
    BY <1>4, <2>1 DEF cbuf_write
  <2>3. payload \in Seq(Byte)
    BY PayloadSeq
  <2>4. /\ s.pos = AtMost(Len(payload), SIZE - 1 - cbuf_space_used(c))
        /\ Contents(s.c) = Contents(c) \o SubSeq(payload, 1, s.pos)
    BY <1>1, <2>1, <2>3, WriteLoopEffect
  <2> QED
    BY <2>2, <2>4, FifoPut
<1>5. ASSUME NEW w \in Writer, WriteUnlock(w) PROVE Queued!Next
  <2>1. sent' = [sent EXCEPT ![w] = NoWrite] /\ c' = c /\ read' = read
    BY <1>5 DEF WriteUnlock
  <2>2. rcvd' = rcvd /\ Contents(c)' = Contents(c)
    BY <2>1 DEF rcvd, Received
  <2>3. Queued!PutReturns(w)
    BY <2>1, <2>2 DEF Queued!PutReturns, Queued!NotSending, NoWrite, rcvd
  <2> QED
    BY <2>3 DEF Queued!Next
<1>6. ASSUME NEW r \in Thread, c' = c, sent' = sent,
             \A t \in Thread \ {r} : read'[t] = read[t],
             read[r].pc # "copied", read'[r].pc # "copied"
      PROVE  UNCHANGED <<Contents(c), sent, rcvd>>
  <2>1. \A t \in Thread : Received(t)' = Received(t)
    BY <1>6 DEF Received
  <2> QED
    BY <1>6, <2>1 DEF rcvd
<1>7. ASSUME NEW r \in Thread, NEW n \in ReadLen, ReadWait(r, n)
      PROVE  UNCHANGED <<Contents(c), sent, rcvd>>
  <2>1. /\ c' = c /\ sent' = sent /\ read[r].pc # "copied"
        /\ \A t \in Thread \ {r} : read'[t] = read[t]
        /\ read'[r].pc # "copied"
    BY <1>2, <1>7 DEF ReadWait
  <2> QED
    BY <1>6, <2>1
<1>8. ASSUME NEW r \in Thread, ReadWoken(r)
      PROVE  UNCHANGED <<Contents(c), sent, rcvd>>
  <2>1. /\ c' = c /\ sent' = sent /\ read[r].pc # "copied"
        /\ \A t \in Thread \ {r} : read'[t] = read[t]
        /\ read'[r].pc # "copied"
    BY <1>2, <1>8 DEF ReadWoken
  <2> QED
    BY <1>6, <2>1
<1>9. ASSUME NEW r \in Thread, NEW n \in ReadLen, ReadNonblocking(r, n) PROVE Queued!Next
  BY <1>9, FifoTake DEF ReadNonblocking
<1>10. ASSUME NEW r \in Thread, ReadBlocking(r) PROVE Queued!Next
  <2>1. read[r].pc = "ready" /\ ReadCopy(r, read[r].len, TRUE, read[r].into)
    BY <1>10 DEF ReadBlocking
  <2>2. read[r].len \in ReadLen /\ read[r].into = TRUE
    BY <1>2, <2>1 DEF IInv, ReadersOK
  <2> QED
    BY <2>1, <2>2, FifoTake
<1>11. ASSUME NEW r \in Thread, cbuf_reset(r) PROVE Queued!Next
  BY <1>11, FifoTake DEF cbuf_reset
<1>12. ASSUME NEW r \in Thread, ReadUnlock(r) PROVE Queued!Next
  <2>0. PICK z : /\ read' = [read EXCEPT ![r] = z]
                 /\ z = IF ReadRetries(r)
                        THEN [pc |-> "again", len |-> read[r].len, block |-> FALSE,
                              into |-> FALSE, pos |-> 0, got |-> << >>]
                        ELSE [pc |-> "out", len |-> 0, block |-> FALSE,
                              into |-> FALSE, pos |-> 0, got |-> << >>]
    BY <1>12 DEF ReadUnlock, NoRead
  <2>1. read' = [read EXCEPT ![r] = z] /\ z.pc # "copied"
    <3>1. CASE ReadRetries(r)
      BY <2>0, <3>1
    <3>2. CASE ~ReadRetries(r)
      BY <2>0, <3>2
    <3> QED
      BY <2>0, <3>1, <3>2
  <2>2. c' = c /\ sent' = sent
    BY <1>12 DEF ReadUnlock
  <2>3. /\ \A t \in Thread \ {r} : Received(t)' = Received(t)
        /\ Received(r)' = [want |-> 0, got |-> << >>]
    BY <1>2, <2>1 DEF Received
  <2>4. rcvd' = [rcvd EXCEPT ![r] = [want |-> 0, got |-> << >>]]
    BY <2>3 DEF rcvd
  <2>5. Queued!TakeReturns(r)
    BY <2>2, <2>4 DEF Queued!TakeReturns, Queued!NotReceiving, rcvd
  <2> QED
    BY <2>5 DEF Queued!Next
<1>13. CASE UNCHANGED vars
  BY <1>13 DEF vars, rcvd, Received
<1> QED
  BY <1>3, <1>4, <1>5, <1>7, <1>8, <1>9, <1>10, <1>11, <1>12, <1>13 DEF Next

\* The circular buffer implements the bounded queue: for any size, any payloads
\* and any readers and writers, no byte is lost, repeated or reordered, a write
\* takes the longest prefix that fits and a read the oldest bytes there are.
THEOREM CbufIsFifo == Spec => ImplementsFifo
<1>1. IInv /\ [Next]_vars => [Queued!Next]_<<Contents(c), sent, [r \in Thread |-> Received(r)]>>
  BY FifoStep DEF rcvd
<1> QED
  BY <1>1, FifoInit, CbufInvariant, PTL DEF Spec, ImplementsFifo, Queued!Spec
=============================================================================
