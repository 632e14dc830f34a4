------------------------------- MODULE MCPort -------------------------------
(* A small instance of Port.                                               *)
EXTENDS Port, TLC

\* The threads, the packets and the read ports are interchangeable.
Symmetry == Permutations(Thread) \union Permutations(Packet) \union Permutations(ReadPort)
=============================================================================
