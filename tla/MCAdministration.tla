-------------------------- MODULE MCAdministration --------------------------
EXTENDS Administration, TLC

CONSTANTS read, write, other

\* One permission writes what another reads; a third is on its own.
MCReadOf == [i \in Items |-> IF i = write THEN read ELSE i]

Symmetry == Permutations(Conns)
=============================================================================
