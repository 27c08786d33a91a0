----------------------------- MODULE MCAccounts -----------------------------
EXTENDS Accounts, TLC

CONSTANTS m1, g1, g2

Symmetry == Permutations(Page)
=============================================================================
