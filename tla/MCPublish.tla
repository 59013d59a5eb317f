------------------------------ MODULE MCPublish ------------------------------
EXTENDS Publish, TLC

Symmetry == Permutations(LocalEvents)
=============================================================================
