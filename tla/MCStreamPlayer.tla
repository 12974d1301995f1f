--------------------------- MODULE MCStreamPlayer ---------------------------
(***************************************************************************)
(* Values of the constants of StreamPlayer for TLC: one mono stream with   *)
(* unequal blocks, short positions, and buffers below every frame.         *)
(***************************************************************************)
EXTENDS StreamPlayer

MCFormats ==
  {[channels |-> 1, blocksizes |-> [w \in {0, 1} |-> IF w = 0 THEN 4 ELSE 8]]}

MCChannelRequests == {0}
MCRoleSelections == {}
MCGranules == {-1, 0, 3}
MCOutputSizes == {}

AllSizings == {"once", "grow", "exact"}
LazySizing == {"grow"}
=============================================================================
