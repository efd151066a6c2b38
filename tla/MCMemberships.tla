--------------------------- MODULE MCMemberships ---------------------------
\* TLC's instance of Memberships: an owner and a viewer are seeded, a third
\* account can be added. Sessions are interchangeable.
EXTENDS Memberships, TLC

CONSTANTS ola, vic, ned, Viewer

MCSeedUsers == <<[user |-> ola, role |-> Owner], [user |-> vic, role |-> Viewer]>>

Symmetry == Permutations(Sessions)
=============================================================================
