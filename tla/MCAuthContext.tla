--------------------------- MODULE MCAuthContext ---------------------------
EXTENDS AuthContext, TLC

CONSTANTS t1, t2, a, b

Symmetry == Permutations(Tab)
=============================================================================
