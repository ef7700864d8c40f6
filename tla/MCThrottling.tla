---------------------------- MODULE MCThrottling ----------------------------
EXTENDS Throttling, TLC

Symmetry == Permutations(Requests) \cup Permutations(Sources)
=============================================================================
