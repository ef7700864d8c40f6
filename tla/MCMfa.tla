------------------------------- MODULE MCMfa -------------------------------
EXTENDS Mfa, TLC

Symmetry == Permutations(Conns) \cup Permutations(Secrets) \cup Permutations(Codes)
=============================================================================
