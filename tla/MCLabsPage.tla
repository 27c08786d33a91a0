----------------------------- MODULE MCLabsPage -----------------------------
EXTENDS LabsPage, TLC

CONSTANTS i1, i2

Symmetry == Permutations(Instance)
=============================================================================
