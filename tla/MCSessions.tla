----------------------------- MODULE MCSessions -----------------------------
\* Instances of Sessions for TLC: the symmetry of the model values.
EXTENDS Sessions, TLC

Symmetry == Permutations(Tokens) \cup Permutations(Links) \cup Permutations(Conns)
=============================================================================
