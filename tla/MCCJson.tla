------------------------------ MODULE MCCJson ------------------------------
EXTENDS CJson

MCFold == [n \in Names |-> IF n = "K" THEN "k" ELSE n]

Symmetry == Permutations(Items)
=============================================================================
