-------------------------------- MODULE Port --------------------------------
(***************************************************************************)
(* Message ports (kernel/port.c): one named write port, the read ports     *)
(* that open it, and one port group.  Every call holds the thread lock and *)
(* is one step, up to the context switch inside wait_queue_block() and the *)
(* one inside wait_queue_destroy() when it wakes somebody.                 *)
(*                                                                         *)
(* The callers keep to what the implementation needs: one thread at a time *)
(* blocks in port_read() of a port or group; a port of a group is not also *)
(* read by itself, blocking; a port or group is closed when the threads    *)
(* inside port_read() of it are all asleep.  And because                   *)
(* port_group_remove() leaves rp->gport pointing to the group, a port that *)
(* was removed is not closed (port_close() would unlink it a second time)  *)
(* and neither is the group (its memory would still be used).              *)
(***************************************************************************)
EXTENDS WaitQueue, FiniteSetsExt

CONSTANTS
    ReadPort,               \* the memory of the read ports; also their wait queues
    group,                  \* the memory of the port group; also its wait queue
    Packet,                 \* the packets
    PORT_BUFF_SIZE,         \* how many packets a buffer holds
    MAX_PORT_GROUP_COUNT

ASSUME PortAssumption ==
    /\ Queue = ReadPort \union {group} /\ group \notin ReadPort
    /\ PORT_BUFF_SIZE \in Nat /\ MAX_PORT_GROUP_COUNT \in Nat

VARIABLES
    wq,         \* wait queues and thread states
    wp,         \* the write port: magic (none, W, X), mode, buf, rp_list
    rp,         \* the read ports: status (closed, open, closing), buf, wport, gport
    pg,         \* the group: status, rp_list
    reading     \* per thread: the port or group whose port_read() it is in

vars == <<wq, wp, rp, pg, reading>>

\* port_buf_t: the packets between head and tail; avail is what is left of
\* PORT_BUFF_SIZE.
Buf == UNION {[1 .. n -> Packet] : n \in 0 .. PORT_BUFF_SIZE}

TypeOK ==
    /\ wq \in WaitState
    /\ wp \in [magic : {"none", "W", "X"}, mode : {"BROADCAST", "UNICAST"},
               buf : Buf \union {NULL}, rp_list : Seq(ReadPort)]
    /\ rp \in [ReadPort -> [status : {"closed", "open", "closing"}, buf : Buf \union {NULL},
                            wport : BOOLEAN, gport : BOOLEAN]]
    /\ pg \in [status : {"closed", "open", "closing"}, rp_list : Seq(ReadPort)]
    /\ reading \in [Thread -> Queue \union {NULL}]

ClosedPort == [status |-> "closed", buf |-> NULL, wport |-> FALSE, gport |-> FALSE]

ClosedGroup == [status |-> "closed", rp_list |-> << >>]

NoWritePort == [magic |-> "none", mode |-> "BROADCAST", buf |-> NULL, rp_list |-> << >>]

Init ==
    /\ wq = [WaitInit EXCEPT !.live = {}]
    /\ wp = NoWritePort
    /\ rp = [p \in ReadPort |-> ClosedPort]
    /\ pg = ClosedGroup
    /\ reading = [t \in Thread |-> NULL]

-----------------------------------------------------------------------------
make_buf == << >>

buf_is_empty(b) == b = << >>

\* buf_write() has room for all of pk.
Fits(b, pk) == Len(b) + Len(pk) <= PORT_BUFF_SIZE

\* buf_write(): all of pk, or nothing.
buf_write(b, pk) == IF Fits(b, pk) THEN b \o pk ELSE b

\* buf_read() of a buffer that is not empty: its packet is Head(b).
buf_read(b) == Tail(b)

Members(s) == Elements(s)

\* Port p belongs to the group exactly when it points to it.
Linked(p) == rp[p].gport <=> p \in Members(pg.rp_list)

\* The threads inside port_read() of p.
Inside(p) == {t \in Thread : reading[t] = p}

-----------------------------------------------------------------------------
\* port_create() of a name not in use.  (A name in use is only looked up.)
port_create(mode) ==
    /\ wp.magic = "none"
    /\ wp' = [magic |-> "W", mode |-> mode, buf |-> make_buf, rp_list |-> << >>]
    /\ UNCHANGED <<wq, rp, pg, reading>>

\* Mutant: every port may have a second reader.
Openable_always == wp.magic # "none"

\* port_open() finds the port, and it can have one more reader.
Openable == wp.magic # "none" /\ (wp.buf # NULL \/ wp.mode # "UNICAST")

\* port_open(): the first reader takes over the write port's buffer.  A second
\* one gets its own, on a broadcast port.
port_open(p) ==
    /\ Openable /\ rp[p].status = "closed"
    /\ rp' = [rp EXCEPT ![p] = [status |-> "open", wport |-> TRUE, gport |-> FALSE,
                                buf |-> IF wp.buf # NULL THEN wp.buf ELSE make_buf]]
    /\ wp' = [wp EXCEPT !.buf = NULL, !.rp_list = Append(@, p)]
    /\ wq' = wait_queue_init(wq, p)
    /\ UNCHANGED <<pg, reading>>

\* Which read ports can be put into a group (the others give ERR_BAD_HANDLE, and
\* what was done for the ports before them is undone).
Joinable(p) == rp[p].status = "open" /\ ~rp[p].gport /\ Inside(p) = {}

port_group(ports) ==
    /\ pg.status = "closed"
    /\ Len(ports) <= MAX_PORT_GROUP_COUNT
    /\ NoRepeats(ports) /\ \A p \in Members(ports) : Joinable(p)
    /\ pg' = [status |-> "open", rp_list |-> ports]
    /\ rp' = [p \in ReadPort |-> [rp[p] EXCEPT !.gport = @ \/ p \in Members(ports)]]
    /\ wq' = wait_queue_init(wq, group)
    /\ UNCHANGED <<wp, reading>>

\* Mutant: a port that brings packets along does not wake the group's reader.
AddWakes_never(p) == FALSE

\* port_group_add() wakes a reader of the group.
AddWakes(p) == ~buf_is_empty(rp[p].buf)

port_group_add(p) ==
    /\ pg.status = "open" /\ Joinable(p)
    /\ Len(pg.rp_list) < MAX_PORT_GROUP_COUNT
    /\ rp' = [rp EXCEPT ![p].gport = TRUE]
    /\ pg' = [pg EXCEPT !.rp_list = Append(@, p)]
    /\ wq' = IF AddWakes(p) THEN wait_queue_wake_one(wq, group, "NO_ERROR") ELSE wq
    /\ UNCHANGED <<wp, reading>>

\* port_group_remove(), of a port of the group; rp->gport is left alone.
port_group_remove(p) ==
    /\ pg.status = "open" /\ rp[p].gport /\ p \in Members(pg.rp_list)
    /\ pg' = [pg EXCEPT !.rp_list = list_delete(@, p)]
    /\ UNCHANGED <<wq, wp, rp, reading>>

\* One round of port_write()'s loop: a thread is woken for reader p, from the
\* group if there is one, else from the port.
WakeFor(w, p) ==
    IF rp[p].gport /\ w.list[group] # << >>
    THEN wait_queue_wake_one(w, group, "NO_ERROR")
    ELSE wait_queue_wake_one(w, p, "NO_ERROR")

\* port_write() to a port nobody has open; a full buffer changes nothing.
WriteBacklog(pk) ==
    /\ wp.magic = "W" /\ wp.buf # NULL
    /\ wp' = [wp EXCEPT !.buf = buf_write(@, pk)]
    /\ UNCHANGED <<wq, rp, pg, reading>>

\* port_write() to the readers whose buffer has room, in the order of rp_list.
WriteReaders(pk) ==
    LET takers == SelectSeq(wp.rp_list, LAMBDA p : Fits(rp[p].buf, pk))
        wake[n \in 0 .. Len(takers)] ==
            IF n = 0 THEN wq ELSE WakeFor(wake[n - 1], takers[n])
    IN  /\ wp.magic = "W" /\ wp.buf = NULL
        /\ rp' = [p \in ReadPort |-> IF p \in Members(takers)
                                     THEN [rp[p] EXCEPT !.buf = buf_write(@, pk)]
                                     ELSE rp[p]]
        /\ wq' = wake[Len(takers)]
        /\ UNCHANGED <<wp, pg, reading>>

\* The ports port_read() of p looks at, in its order.
Sources(p) == IF p = group THEN pg.rp_list ELSE <<p>>

HasData(p) == \E i \in 1 .. Len(Sources(p)) : ~buf_is_empty(rp[Sources(p)[i]].buf)

\* The first of them that has a packet.
FirstSource(p) ==
    LET s == Sources(p)
        full == {i \in 1 .. Len(s) : ~buf_is_empty(rp[s[i]].buf)}
    IN  s[CHOOSE i \in full : \A j \in full : i <= j]

\* Thread t takes a packet and returns.
TakePacket(t, p) ==
    /\ HasData(p)
    /\ rp' = [rp EXCEPT ![FirstSource(p)].buf = buf_read(@)]
    /\ reading' = [reading EXCEPT ![t] = NULL]

\* Thread t finds nothing and goes to sleep on the port or the group.
Sleep(w, t, p, timeout) ==
    /\ ~HasData(p)
    /\ wq' = wait_queue_block(w, p, t, timeout)
    /\ reading' = [reading EXCEPT ![t] = p]
    /\ UNCHANGED rp

IsOpen(p) == IF p = group THEN pg.status = "open" ELSE rp[p].status = "open"

\* port_read() of a port or group that has a packet.
ReadNow(t, p) ==
    /\ reading[t] = NULL /\ IsOpen(p)
    /\ TakePacket(t, p)
    /\ UNCHANGED <<wq, wp, pg>>

\* port_read() of one that has none.  (A timeout of zero changes nothing.)
ReadBlock(t, p, timeout) ==
    /\ reading[t] = NULL /\ IsOpen(p) /\ Inside(p) = {}
    /\ p \in ReadPort => ~rp[p].gport
    /\ Sleep(wq, t, p, timeout)
    /\ UNCHANGED <<wp, pg>>

\* The thread is switched in: it looks again, or returns the error.  The timeout
\* starts again with every round.
ReadResume(t) ==
    LET p == reading[t]
        back == wait_queue_block_return(wq, t)
    IN  /\ p # NULL /\ wq.state[t] = "READY"
        /\ \/ wq.ret[t] = "NO_ERROR" /\ TakePacket(t, p) /\ wq' = back
           \/ /\ wq.ret[t] = "NO_ERROR"
              /\ \E timeout \in {"FINITE", "INFINITE_TIME"} : Sleep(back, t, p, timeout)
           \/ /\ wq.ret[t] # "NO_ERROR"
              /\ wq' = back
              /\ reading' = [reading EXCEPT ![t] = NULL]
              /\ UNCHANGED rp
        /\ UNCHANGED <<wp, pg>>

TimerFires(t) ==
    /\ t \in wq.timers
    /\ wq' = wait_queue_timeout_handler(wq, t)
    /\ UNCHANGED <<wp, rp, pg, reading>>

-----------------------------------------------------------------------------
\* port_close() of the write port: it can no longer be written.
CloseWritePort ==
    /\ wp.magic = "W"
    /\ wp' = [wp EXCEPT !.magic = "X"]
    /\ UNCHANGED <<wq, rp, pg, reading>>

\* port_destroy(): the readers' threads, and the group's, get ERR_CANCELLED.
port_destroy ==
    LET readers == Members(wp.rp_list)
        queues == readers \union (IF \E p \in readers : rp[p].gport THEN {group} ELSE {})
        cancel(q, w) == wait_queue_wake_all(w, q, "ERR_CANCELLED")
    IN  /\ wp.magic = "X"
        /\ wq' = FoldSet(cancel, wq, queues)
        /\ rp' = [p \in ReadPort |-> [rp[p] EXCEPT !.wport = @ /\ p \notin readers]]
        /\ wp' = NoWritePort
        /\ UNCHANGED <<pg, reading>>

\* Those inside port_read() of p are all asleep, and nobody enters any more.
Quiet(p) == \A t \in Inside(p) : wq.state[t] = "BLOCKED"

\* wait_queue_destroy(): when it wakes somebody the caller is switched out before
\* it goes on.
Destroyed(p) == wait_queue_wake_all(wq, p, "ERR_OBJECT_DESTROYED")

\* Mutant: the last reader frees its buffer with the packets in it.
HandBack_never(p, others) == IF others = << >> THEN make_buf ELSE NULL

\* The buffer the write port has once reader p is gone.
HandBack(p, others) == IF others = << >> THEN rp[p].buf ELSE NULL

\* port_close() of a read port, up to the context switch.
ClosePort(p) ==
    LET others == list_delete(wp.rp_list, p)
    IN  /\ rp[p].status = "open" /\ Quiet(p) /\ Linked(p)
        /\ IF rp[p].wport
           THEN wp' = [wp EXCEPT !.rp_list = others, !.buf = HandBack(p, others)]
           ELSE UNCHANGED wp
        /\ pg' = IF rp[p].gport
                 THEN [pg EXCEPT !.rp_list = list_delete(@, p)]
                 ELSE pg
        /\ wq' = Destroyed(p)
        /\ rp' = [rp EXCEPT ![p] = [ClosedPort EXCEPT !.status = "closing"]]
        /\ UNCHANGED reading

\* The rest: the memory is given back.
ClosePortEnd(p) ==
    /\ rp[p].status = "closing"
    /\ rp' = [rp EXCEPT ![p] = ClosedPort]
    /\ wq' = [wq EXCEPT !.live = @ \ {p}]
    /\ UNCHANGED <<wp, pg, reading>>

\* port_close() of the group, up to the context switch.
CloseGroup ==
    /\ pg.status = "open" /\ Quiet(group)
    /\ \A p \in ReadPort : Linked(p)
    /\ wq' = Destroyed(group)
    /\ pg' = [pg EXCEPT !.status = "closing"]
    /\ UNCHANGED <<wp, rp, reading>>

\* The rest: the ports still in the group leave it.
CloseGroupEnd ==
    /\ pg.status = "closing"
    /\ rp' = [p \in ReadPort |-> [rp[p] EXCEPT !.gport = @ /\ p \notin Members(pg.rp_list)]]
    /\ pg' = ClosedGroup
    /\ wq' = [wq EXCEPT !.live = @ \ {group}]
    /\ UNCHANGED <<wp, reading>>

Messages == Packet \X Packet \union {<<k>> : k \in Packet}

Orders == {<< >>} \union {<<p>> : p \in ReadPort} \union (ReadPort \X ReadPort)

Next ==
    \/ \E mode \in {"BROADCAST", "UNICAST"} : port_create(mode)
    \/ \E ports \in Orders : port_group(ports)
    \/ \E p \in ReadPort :
         \/ port_open(p) \/ port_group_add(p) \/ port_group_remove(p)
         \/ ClosePort(p) \/ ClosePortEnd(p)
    \/ \E pk \in Messages : WriteBacklog(pk) \/ WriteReaders(pk)
    \/ \E t \in Thread :
         \/ \E p \in Queue :
              \/ ReadNow(t, p)
              \/ \E timeout \in {"FINITE", "INFINITE_TIME"} : ReadBlock(t, p, timeout)
         \/ ReadResume(t) \/ TimerFires(t)
    \/ CloseWritePort \/ port_destroy \/ CloseGroup \/ CloseGroupEnd

Spec == Init /\ [][Next]_vars

-----------------------------------------------------------------------------
\* No reader sleeps on a packet: while a thread is blocked in port_read() of a
\* port or a group, every buffer it waits for is empty.  port_write() and
\* port_group_add() wake it, whatever is opened, grouped, closed or times out
\* meanwhile.  (Ports that port_group_remove() left half linked excepted.)
NoSleeperWithData ==
    \A p \in Queue :
        wq.list[p] # << >> /\ (\A m \in ReadPort : Linked(m)) => ~HasData(p)

\* Each buffer has one owner: the write port has one exactly when it has no
\* reader, each of its readers has its own, a unicast port has at most one
\* reader ("can only be opened once", port.h:67), and nobody else is attached.
BuffersOwned ==
    /\ wp.magic # "none" => (wp.buf # NULL <=> wp.rp_list = << >>)
    /\ wp.mode = "UNICAST" => Len(wp.rp_list) <= 1
    /\ NoRepeats(wp.rp_list)
    /\ \A p \in ReadPort :
         /\ p \in Members(wp.rp_list) <=> rp[p].wport
         /\ rp[p].status = "open" <=> rp[p].buf # NULL

\* What a unicast port holds, in the write port or in its reader.
Pending ==
    IF wp.buf # NULL THEN wp.buf ELSE rp[Head(wp.rp_list)].buf

\* A unicast port is a queue, whoever opens and closes it: no step but a read
\* takes a packet, and that the oldest; a write adds all its packets or none;
\* "pending packets" survive the close of either side (port.h:100).
UnicastIsQueue ==
    [][wp.mode = "UNICAST" /\ wp'.magic # "none" =>
         \/ Pending' = Pending
         \/ Pending # << >> /\ Pending' = Tail(Pending)
         \/ \E pk \in Messages : Pending' = Pending \o pk]_vars
=============================================================================
