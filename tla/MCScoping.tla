------------------------------ MODULE MCScoping -----------------------------
\* Instances of Scoping for TLC.
EXTENDS Scoping, TLC

Symmetry == Permutations(Conns)
=============================================================================
