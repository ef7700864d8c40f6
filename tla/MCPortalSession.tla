-------------------------- MODULE MCPortalSession --------------------------
EXTENDS PortalSession, TLC

Symmetry == Permutations(Tabs) \cup Permutations(Tokens)
=============================================================================
