---------------------------- MODULE MCStoreDisk ----------------------------
EXTENDS StoreDisk

CONSTANTS e1, e2, e3

Symmetry == Permutations({e1, e2})
=============================================================================
