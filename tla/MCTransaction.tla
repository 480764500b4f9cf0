--------------------------- MODULE MCTransaction ---------------------------
EXTENDS Transaction, TLC

Symmetry == Permutations(Peers)
============================================================================
