----------------------------- MODULE BlockStore -----------------------------
(***************************************************************************)
(* What a write-back block cache promises to the file system above it: one *)
(* current value per block, whatever is cached and whatever is evicted.    *)
(* Current values reach the device at any time, and all of them have       *)
(* reached it when a flush reports success; only giving the cache up may   *)
(* take unwritten values back.                                             *)
(***************************************************************************)
CONSTANTS BlockNum, Data

VARIABLES
    current,    \* the value of each block, for the clients
    durable,    \* its value on the device
    result      \* what the last call returned

SomeWrittenBack ==
    durable' \in {d \in [BlockNum -> Data] :
                    \A n \in BlockNum : d[n] \in {durable[n], current[n]}}

Init ==
    /\ durable \in [BlockNum -> Data]
    /\ current = durable
    /\ result = "ok"

Read(n) ==
    /\ result' = current[n]
    /\ SomeWrittenBack
    /\ UNCHANGED current

Write(n, d) ==
    /\ current' = [current EXCEPT ![n] = d]
    /\ SomeWrittenBack
    /\ result' = "ok"

Flush ==
    /\ durable' = current
    /\ result' = "flushed"
    /\ UNCHANGED current

\* A call that returns no data and writes none, or one that fails.
Other ==
    /\ result' \in {"ok", "error"}
    /\ SomeWrittenBack
    /\ UNCHANGED current

GiveUp ==
    /\ current' = durable
    /\ result' = "destroyed"
    /\ UNCHANGED durable

Next ==
    \/ \E n \in BlockNum : Read(n) \/ \E d \in Data : Write(n, d)
    \/ Flush \/ Other \/ GiveUp

Spec == Init /\ [][Next]_<<current, durable, result>>
=============================================================================
