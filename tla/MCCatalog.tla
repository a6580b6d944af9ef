------------------------------- MODULE MCCatalog -----------------------------
EXTENDS Catalog, TLC

\* A column whose row is narrow, and one whose row is wide.
MCColumn == {[name |-> "a", width |-> 1], [name |-> "b", width |-> 2]}

Symmetry == Permutations(Name)
=============================================================================
