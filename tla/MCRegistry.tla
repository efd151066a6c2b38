----------------------------- MODULE MCRegistry ------------------------------
EXTENDS Registry, TLC

SessionSymmetry == Permutations(Sessions)
=============================================================================
