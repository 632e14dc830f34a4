------------------------------ MODULE MCSched ------------------------------
(* Small instances of Sched.                                               *)
EXTENDS Sched, TLC

CONSTANTS t1, c0

Unpinned == [t \in Thread |-> NoCpu]

\* The first thread may run on the first CPU only; the others are interchangeable.
OnePinned == [t \in Thread |-> IF t = t1 THEN c0 ELSE NoCpu]

SymmetryOfOthers == Permutations(Thread \ {t1})
=============================================================================
