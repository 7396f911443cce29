------------------------------ MODULE MCScope ------------------------------
EXTENDS Scope, TLC
Symmetry == Permutations(Scopes \ {Root}) \cup Permutations(Resources)
=============================================================================
