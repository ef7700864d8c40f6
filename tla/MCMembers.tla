----------------------------- MODULE MCMembers -----------------------------
\* Instances of Members for TLC: the symmetry of the model values.
EXTENDS Members, TLC

Symmetry ==
  Permutations(People \ {Founder}) \cup Permutations(Invitations) \cup Permutations(Conns)
=============================================================================
