-------------------------------- MODULE Cbuf --------------------------------
(***************************************************************************)
(* One circular buffer (lib/cbuf/cbuf.c), the interrupt handlers and       *)
(* threads that write to it and the threads that read from it, blocking or *)
(* not.  The buffer is protected by its own spin lock, the event inside it *)
(* by the thread lock: a reader waits for the event before it takes the    *)
(* spin lock, and a writer signals it while holding the spin lock.  A call *)
(* is cut where another CPU can come in between: a write copies, then      *)
(* signals and unlocks; a read waits, then copies, then unsignals and      *)
(* unlocks, and starts again when somebody else was faster.                *)
(*                                                                         *)
(* cbuf_read_char() is cbuf_read() of one byte.  A NULL source makes       *)
(* cbuf_write() write zeros, which is the payload <<0, ..., 0>>.           *)
(***************************************************************************)
EXTENDS WaitQueue

CONSTANTS
    Writer,     \* the contexts that write
    ewait,      \* &cbuf->event.wait
    len_pow2,   \* the buffer has 2^len_pow2 bytes
    Byte,       \* the values of a byte
    ReadLen     \* the buflen callers pass to cbuf_read(), at least 1

ASSUME CbufAssumption ==
    /\ ewait \in Queue
    /\ len_pow2 \in Nat
    /\ ReadLen \subseteq Nat \ {0}
    /\ Writer \intersect Thread = {} /\ NULL \notin Writer

VARIABLES
    wq,         \* the event's wait queue and the readers' blocking state
    c,          \* the cbuf_t: buf, head, tail
    signaled,   \* cbuf->event.signaled
    lock,       \* who holds cbuf->lock
    sent,       \* per writer: the payload of its call and pos, once copied
    read        \* per reader: where it is, and the arguments and locals of its
                \* call: len, block, into (the buffer is not NULL), pos, got

vars == <<wq, c, signaled, lock, sent, read>>

SIZE == 2 ^ len_pow2

Index == 0 .. SIZE - 1

\* cbuf_write() asserts that len is less than the size of the buffer.
Payload == UNION {[1 .. n -> Byte] : n \in 1 .. SIZE - 1}

NoWrite == [payload |-> << >>, taken |-> 0]

NoRead == [pc |-> "out", len |-> 0, block |-> FALSE, into |-> FALSE,
           pos |-> 0, got |-> << >>]

TypeOK ==
    /\ wq \in WaitState
    /\ c \in [buf : [Index -> Byte], head : Index, tail : Index]
    /\ signaled \in BOOLEAN
    /\ lock \in Writer \union Thread \union {NULL}
    /\ sent \in [Writer -> [payload : Payload \union {<< >>}, taken : 0 .. SIZE - 1]]
    /\ read \in [Thread -> [pc : {"out", "waiting", "ready", "copied", "again"},
                            len : ReadLen \union {0, SIZE}, block : BOOLEAN,
                            into : BOOLEAN, pos : Index,
                            got : Payload \union {<< >>}]]

\* cbuf_initialize_etc(); the contents of the buffer are whatever it held.
Init ==
    /\ wq = WaitInit
    /\ c \in [buf : [Index -> Byte], head : {0}, tail : {0}]
    /\ signaled = FALSE
    /\ lock = NULL
    /\ sent = [w \in Writer |-> NoWrite]
    /\ read = [r \in Thread |-> NoRead]

-----------------------------------------------------------------------------
AtMost(a, b) == IF a < b THEN a ELSE b

INC_POINTER(p, inc) == (p + inc) % SIZE

cbuf_space_used(b) == (b.head - b.tail) % SIZE

cbuf_space_avail(b) == SIZE - cbuf_space_used(b) - 1

\* Mutant: the copy may run to the end of the buffer when tail is 0.
WriteRoom_to_end(b) ==
    IF b.head >= b.tail THEN SIZE - b.head ELSE b.tail - b.head - 1

\* How many bytes can be written at head without wrapping: the byte before
\* tail stays free, so that a full buffer does not look empty.
WriteRoom(b) ==
    IF b.head >= b.tail
    THEN IF b.tail = 0 THEN SIZE - b.head - 1 ELSE SIZE - b.head
    ELSE b.tail - b.head - 1

\* One pass of the loop of cbuf_write(): s holds the buffer and pos.  A pass
\* that the loop condition forbids changes nothing.
WritePass(s, payload) ==
    LET b == s.c
        write_len == IF cbuf_space_avail(b) > 0
                     THEN AtMost(WriteRoom(b), Len(payload) - s.pos)
                     ELSE 0
    IN  [c |-> [b EXCEPT !.buf = [i \in Index |->
                    IF i \in b.head .. b.head + write_len - 1
                    THEN payload[s.pos + 1 + i - b.head]
                    ELSE @[i]],
                  !.head = INC_POINTER(@, write_len)],
         pos |-> s.pos + write_len]

\* The whole loop: the first pass goes to the end of the buffer or fills it or
\* ends the payload, so a third one would find nothing to do.
WriteLoop(b, payload) ==
    WritePass(WritePass([c |-> b, pos |-> 0], payload), payload)

\* One pass of the loop of cbuf_read(), for buflen bytes.
ReadPass(s, buflen) ==
    LET b == s.c
        read_len == IF b.head >= b.tail
                    THEN AtMost(b.head - b.tail, buflen - s.pos)
                    ELSE AtMost(SIZE - b.tail, buflen - s.pos)
    IN  [c |-> [b EXCEPT !.tail = INC_POINTER(@, read_len)],
         pos |-> s.pos + read_len,
         got |-> s.got \o [i \in 1 .. read_len |-> b.buf[b.tail + i - 1]]]

\* The whole loop: "at most this will make two passes".
ReadLoop(b, buflen) ==
    ReadPass(ReadPass([c |-> b, pos |-> 0, got |-> << >>], buflen), buflen)

\* Mutant: data that wraps around is reported as one region.
cbuf_peek_one_region(b) ==
    <<[base |-> b.tail, len |-> cbuf_space_used(b)], [base |-> 0, len |-> 0]>>

\* cbuf_peek(): where the two regions start, and how long they are.
cbuf_peek(b) ==
    LET ret == cbuf_space_used(b)
    IN  IF ret + b.tail > SIZE
        THEN <<[base |-> b.tail, len |-> SIZE - b.tail],
               [base |-> 0, len |-> ret - (SIZE - b.tail)]>>
        ELSE <<[base |-> b.tail, len |-> ret], [base |-> 0, len |-> 0]>>

-----------------------------------------------------------------------------
\* cbuf_write(), up to the end of its loop.
cbuf_write(w, payload) ==
    LET s == WriteLoop(c, payload)
    IN  /\ sent[w] = NoWrite /\ lock = NULL
        /\ lock' = w
        /\ c' = s.c
        /\ sent' = [sent EXCEPT ![w] = [payload |-> payload, taken |-> s.pos]]
        /\ UNCHANGED <<wq, signaled, read>>

\* cbuf_write_char(); when the buffer is full it changes nothing.
cbuf_write_char(w, ch) ==
    /\ sent[w] = NoWrite /\ lock = NULL
    /\ cbuf_space_avail(c) > 0
    /\ lock' = w
    /\ c' = [c EXCEPT !.buf[c.head] = ch, !.head = INC_POINTER(@, 1)]
    /\ sent' = [sent EXCEPT ![w] = [payload |-> <<ch>>, taken |-> 1]]
    /\ UNCHANGED <<wq, signaled, read>>

\* Mutant: head < tail, after a wrap-around, is taken for an empty buffer.
WriteSignals_greater(w) == c.head > c.tail

\* The condition for event_signal() at the end of both.
WriteSignals(w) == c.head # c.tail

\* event_signal(), if there is data, and the end of the write.
WriteUnlock(w) ==
    /\ lock = w
    /\ \/ /\ WriteSignals(w) /\ ~signaled
          /\ signaled' = TRUE
          /\ wq' = wait_queue_wake_all(wq, ewait, "NO_ERROR")
       \/ (signaled \/ ~WriteSignals(w)) /\ UNCHANGED <<signaled, wq>>
    /\ lock' = NULL
    /\ sent' = [sent EXCEPT ![w] = NoWrite]
    /\ UNCHANGED <<c, read>>

\* A blocking read starts, or starts again: event_wait(), without the lock.
ReadWait(r, n) ==
    /\ \/ read[r].pc = "out"
       \/ read[r].pc = "again" /\ n = read[r].len
    /\ \/ signaled /\ UNCHANGED wq
       \/ ~signaled /\ wq' = wait_queue_block(wq, ewait, r, "INFINITE_TIME")
    /\ read' = [read EXCEPT ![r] =
                  [pc |-> IF signaled THEN "ready" ELSE "waiting", len |-> n,
                   block |-> TRUE, into |-> TRUE, pos |-> 0, got |-> << >>]]
    /\ UNCHANGED <<c, signaled, lock, sent>>

\* event_wait() returns to a reader that was woken.
ReadWoken(r) ==
    /\ read[r].pc = "waiting" /\ wq.state[r] = "READY"
    /\ wq' = wait_queue_block_return(wq, r)
    /\ read' = [read EXCEPT ![r].pc = "ready"]
    /\ UNCHANGED <<c, signaled, lock, sent>>

\* The reader takes the lock and copies what there is, up to len bytes.
ReadCopy(r, n, block, into) ==
    LET s == ReadLoop(c, n)
    IN  /\ lock = NULL
        /\ lock' = r
        /\ c' = s.c
        /\ read' = [read EXCEPT ![r] =
                      [pc |-> "copied", len |-> n, block |-> block, into |-> into,
                       pos |-> s.pos, got |-> IF into THEN s.got ELSE << >>]]
        /\ UNCHANGED <<wq, signaled, sent>>

\* cbuf_read() with block, after its event_wait().
ReadBlocking(r) ==
    read[r].pc = "ready" /\ ReadCopy(r, read[r].len, TRUE, read[r].into)

\* cbuf_read() without block.
ReadNonblocking(r, n) == read[r].pc = "out" /\ ReadCopy(r, n, FALSE, TRUE)

\* cbuf_reset(): cbuf_read(cbuf, NULL, cbuf_size(cbuf), false).
cbuf_reset(r) == read[r].pc = "out" /\ ReadCopy(r, SIZE, FALSE, FALSE)

\* Mutant: the event is unsignaled by every read that got something.
ReadUnsignals_always(r) == read[r].pos > 0

\* The condition for event_unsignal() at the end of a read.
ReadUnsignals(r) == read[r].pos > 0 /\ c.tail = c.head

\* We apparently blocked but raced with another reader and found no data.
ReadRetries(r) == read[r].block /\ read[r].pos = 0

\* event_unsignal(), if the buffer was emptied, and the end of the read.
ReadUnlock(r) ==
    /\ lock = r
    /\ signaled' = (signaled /\ ~ReadUnsignals(r))
    /\ lock' = NULL
    /\ read' = [read EXCEPT ![r] =
                  IF ReadRetries(r)
                  THEN [pc |-> "again", len |-> read[r].len, block |-> FALSE,
                        into |-> FALSE, pos |-> 0, got |-> << >>]
                  ELSE NoRead]
    /\ UNCHANGED <<wq, c, sent>>

Next ==
    \/ \E w \in Writer :
         \/ \E ch \in Byte : cbuf_write_char(w, ch)
         \/ \E payload \in Payload : cbuf_write(w, payload)
         \/ WriteUnlock(w)
    \/ \E r \in Thread :
         \/ \E n \in ReadLen : ReadWait(r, n) \/ ReadNonblocking(r, n)
         \/ ReadWoken(r) \/ ReadBlocking(r) \/ cbuf_reset(r) \/ ReadUnlock(r)

Spec == Init /\ [][Next]_vars

Unlock ==
    \/ \E w \in Writer : WriteUnlock(w)
    \/ \E r \in Thread : ReadUnlock(r)

\* The steps that take reader r's blocking call on.
ReadOn(r) ==
    \/ ReadWoken(r) \/ ReadBlocking(r)
    \/ read[r].pc = "again" /\ ReadWait(r, read[r].len)

\* A CPU leaves its critical section, a woken thread runs, a retry is carried
\* out, and a reader that spins for the lock gets it in the end.
FairSpec == Spec /\ WF_vars(Unlock) /\ \A r \in Thread : SF_vars(ReadOn(r))

-----------------------------------------------------------------------------
\* The bytes between tail and head, oldest first.
Contents(b) ==
    [i \in 1 .. cbuf_space_used(b) |-> b.buf[INC_POINTER(b.tail, i - 1)]]

\* A read shows in the queue once it has copied.
Received(r) ==
    IF read[r].pc = "copied" /\ read[r].into
    THEN [want |-> read[r].len, got |-> read[r].got]
    ELSE [want |-> 0, got |-> << >>]

Queued == INSTANCE Fifo WITH
    Reader <- Thread, Want <- ReadLen, Capacity <- SIZE - 1,
    q <- Contents(c), rcvd <- [r \in Thread |-> Received(r)]

\* The circular buffer is a bounded FIFO: whatever the readers, the writers and
\* the wrap-around do, a write takes the longest prefix that fits (cbuf_write()'s
\* return value) and a read returns the oldest bytes, none lost, repeated or
\* out of order.
ImplementsFifo == Queued!Spec

\* Whenever nobody is inside the buffer's lock, its event is signaled exactly
\* when it holds data, and then no reader sleeps: event_unsignal() of a reader
\* and event_signal() of a writer cannot leave the event behind the data,
\* although readers wait for it without the lock.
EventTracksData ==
    lock = NULL => /\ signaled <=> c.head # c.tail
                   /\ signaled => wq.list[ewait] = << >>

Region(b, v) == [i \in 1 .. v.len |-> b.buf[v.base + i - 1]]

\* The regions cbuf_peek() reports lie inside the buffer and are, in order, the
\* bytes the next reads return, whether or not the data wraps around.
PeekShowsContents ==
    LET v == cbuf_peek(c)
    IN  /\ \A k \in 1 .. 2 : v[k].base + v[k].len <= SIZE
        /\ Region(c, v[1]) \o Region(c, v[2]) = Contents(c)

\* A blocking read is not left behind: if there is data while it is under way,
\* it returns, or other readers have taken that data ("unblock us early and
\* we'll have to double check", cbuf.c:137).
DataReachesReader ==
    \A r \in Thread :
        (read[r].block \/ read[r].pc = "again") /\ c.head # c.tail
            ~> read[r].pc = "out" \/ c.head = c.tail
=============================================================================
