---------------------------- MODULE MCMPMCQueue ----------------------------
(* MPMCQueue on two producers, two consumers, two cells and four items: the *)
(* ring wraps around and every cell is used twice.                          *)
EXTENDS MPMCQueue, TLC

Symmetry == Permutations(Producers) \cup Permutations(Consumers) \cup Permutations(Items)
=============================================================================
