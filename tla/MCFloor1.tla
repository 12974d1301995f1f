------------------------------ MODULE MCFloor1 ------------------------------
(***************************************************************************)
(* Floor1 on small floors: no inner post, one, two and three of them,      *)
(* listed in and out of the order of their places, with the last post      *)
(* before, at and behind the end of the half block.                        *)
(***************************************************************************)
EXTENDS Floor1

List(last, inner) ==
  [p \in 0..(Len(inner) + 1) |->
     IF p = 0 THEN 0 ELSE IF p = 1 THEN last ELSE inner[p - 1]]

SmallLists ==
  {List(4, <<>>), List(8, <<5>>), List(8, <<2, 5>>), List(8, <<6, 1>>),
   List(8, <<7, 3, 4>>), List(8, <<3, 7, 2>>), List(4, <<2, 1, 3>>)}
SomeMults == {3, 4}
SomeHalves == {4, 8}
SomeHeights == {0, 20, 63}
SomeCodes == {1, 6, 90}
=============================================================================
