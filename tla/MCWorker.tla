------------------------------ MODULE MCWorker ------------------------------
(* Worker with two masters, for TLC. *)
EXTENDS Worker, TLC

\* the worker's address meets the second master first
SecondFirst == [m \in Masters |-> Cardinality(Masters) + 1 - m]

ThreadsSymmetry == Permutations(Threads)
=============================================================================
