-------------------------- MODULE MCErpConnection --------------------------
\* Instances of ErpConnection for TLC: the symmetry of the model values.  The
\* authority a new row names is not like the others.
EXTENDS ErpConnection, TLC

Symmetry ==
  Permutations(Clients) \cup Permutations(Secrets)
    \cup Permutations(Authorities \ {Commercial})
    \cup Permutations(Devices) \cup Permutations(Admins)
=============================================================================
