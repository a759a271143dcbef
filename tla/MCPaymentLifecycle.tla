------------------------- MODULE MCPaymentLifecycle -------------------------
EXTENDS PaymentLifecycle, TLC
Symmetry == Permutations(Attempts) \cup Permutations(Procs)
============================================================================
