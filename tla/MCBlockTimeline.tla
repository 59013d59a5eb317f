-------------------------- MODULE MCBlockTimeline --------------------------
EXTENDS BlockTimeline, TLC

Symmetry == Permutations(EventIds)
=============================================================================
