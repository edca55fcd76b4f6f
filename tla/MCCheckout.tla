---- MODULE MCCheckout ----
EXTENDS Checkout, TLC
Symmetry == Permutations(Attempts) \cup Permutations(Threads)
====
