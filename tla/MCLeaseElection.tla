--------------------------- MODULE MCLeaseElection --------------------------
EXTENDS LeaseElection, TLC, FiniteSets
Symmetry == Permutations(Holder) \cup Permutations(Slot)

\* Bound: at most three calls and timers are outstanding when a step is taken.
Outstanding == {p \in Holder \X Slot : jobs[p[1]][p[2]] # Empty}
Bounded == Cardinality(Outstanding) <= 3
=============================================================================
