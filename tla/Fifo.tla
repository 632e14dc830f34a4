-------------------------------- MODULE Fifo --------------------------------
(***************************************************************************)
(* What a circular buffer promises to those who share it: a bounded queue  *)
(* of bytes.  A write appends, in one step, the longest prefix of its      *)
(* payload that fits and reports how long that was; a read removes, in one *)
(* step, as many of the oldest bytes as it asked for and there are.        *)
(***************************************************************************)
EXTENDS Integers, Sequences

CONSTANTS
    Writer,     \* those who write
    Reader,     \* those who read
    Payload,    \* what a write may be given: sequences of bytes
    Want,       \* how many bytes a read may ask for
    Capacity    \* how many bytes the queue holds

VARIABLES
    q,          \* the bytes written and not yet read
    sent,       \* the write being carried out: its payload, and how much of it
                \* was taken
    rcvd        \* the read being carried out: what it wanted, and what it got

AtMost(a, b) == IF a < b THEN a ELSE b

NotSending == [payload |-> << >>, taken |-> 0]

NotReceiving == [want |-> 0, got |-> << >>]

Init ==
    /\ q = << >>
    /\ sent = [w \in Writer |-> NotSending]
    /\ rcvd = [r \in Reader |-> NotReceiving]

Put(w, s) ==
    LET n == AtMost(Len(s), Capacity - Len(q))
    IN  /\ sent[w] = NotSending
        /\ sent' = [sent EXCEPT ![w] = [payload |-> s, taken |-> n]]
        /\ q' = q \o SubSeq(s, 1, n)
        /\ UNCHANGED rcvd

PutReturns(w) ==
    /\ sent' = [sent EXCEPT ![w] = NotSending]
    /\ UNCHANGED <<q, rcvd>>

Take(r, want) ==
    LET n == AtMost(want, Len(q))
    IN  /\ rcvd[r] = NotReceiving
        /\ rcvd' = [rcvd EXCEPT ![r] = [want |-> want, got |-> SubSeq(q, 1, n)]]
        /\ q' = SubSeq(q, n + 1, Len(q))
        /\ UNCHANGED sent

TakeReturns(r) ==
    /\ rcvd' = [rcvd EXCEPT ![r] = NotReceiving]
    /\ UNCHANGED <<q, sent>>

Discard ==
    /\ q' = << >>
    /\ UNCHANGED <<sent, rcvd>>

Next ==
    \/ \E w \in Writer : PutReturns(w) \/ \E s \in Payload : Put(w, s)
    \/ \E r \in Reader : TakeReturns(r) \/ \E n \in Want : Take(r, n)
    \/ Discard

Spec == Init /\ [][Next]_<<q, sent, rcvd>>
=============================================================================
