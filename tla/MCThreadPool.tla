---------------------------- MODULE MCThreadPool ----------------------------
(* ThreadPool on two IO threads and two workers sharing a ring of two cells. *)
EXTENDS ThreadPool, TLC

Symmetry == Permutations(IOThreads) \cup Permutations(Workers) \cup Permutations(Tasks)
=============================================================================
