---- MODULE MCFulfilment ----
EXTENDS Fulfilment, TLC
Symmetry == Permutations(Riders) \cup Permutations(Threads)
====
