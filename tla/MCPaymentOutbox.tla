--------------------------- MODULE MCPaymentOutbox ---------------------------
EXTENDS PaymentOutbox, TLC
Symmetry == Permutations(Events) \cup Permutations(Workers)
============================================================================
