----------------------------- MODULE MCCatalogue -----------------------------
EXTENDS Catalogue, TLC

Symmetry == Permutations(Writers) \cup Permutations(Codes)
=============================================================================
