---------------------------- MODULE MCTableStorage ---------------------------
EXTENDS TableStorage, TLC

Symmetry == Permutations(Table) \cup Permutations(Row)
=============================================================================
