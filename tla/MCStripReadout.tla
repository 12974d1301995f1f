--------------------------- MODULE MCStripReadout ---------------------------
(***************************************************************************)
(* Values of the constants of StripReadout for TLC: equal blocks, blocks   *)
(* one step apart and two, and strips that do not divide any region.       *)
(***************************************************************************)
EXTENDS StripReadout

Pair(short, long) == [w \in {0, 1} |-> IF w = 0 THEN short ELSE long]

MCBlockPairs == {Pair(8, 8), Pair(8, 16), Pair(8, 32), Pair(32, 32)}
=============================================================================
