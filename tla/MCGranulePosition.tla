------------------------- MODULE MCGranulePosition -------------------------
EXTENDS GranulePosition
MCBlockSizes == [w \in {0, 1} |-> IF w = 0 THEN 4 ELSE 16]
=============================================================================
