----------------------------- MODULE MCTenants -----------------------------
EXTENDS Tenants, TLC

Symmetry == Permutations(Requests)
=============================================================================
