--------------------------- MODULE MCLedgerReplay ---------------------------
EXTENDS LedgerReplay, TLC

\* Genesis, a full reward, a decayed one and one that the floor lifts.
MCRawSubsidy == [b \in BlockIndices |-> IF b <= 1 THEN 3 ELSE IF b = 2 THEN 2 ELSE 0]

Symmetry == Permutations(Cids)
=============================================================================
