------------------------ MODULE MCDisclosurePolicies ------------------------
\* TLC's instance of DisclosurePolicies: sessions, codes and texts are
\* interchangeable; primary keys are ordered and are not.
EXTENDS DisclosurePolicies, TLC

Symmetry == Permutations(Sessions) \cup Permutations(Codes) \cup Permutations(Texts)
=============================================================================
