---------------------------- MODULE MCBlockArena ----------------------------
(***************************************************************************)
(* Codec setups for TLC: up to three channels in one to three submaps,     *)
(* both kinds of floor, residues of all types whose end is cut by the      *)
(* header or by the block, and bundles that share a residue.               *)
(***************************************************************************)
EXTENDS BlockArena

Floor(type, size) == [type |-> type, size |-> size]
Residue(type, begin, end, grouping, dim) ==
  [type |-> type, begin |-> begin, end |-> end,
   grouping |-> grouping, dim |-> dim]
Sizes(short, long) == [w \in Flags |-> IF w = 0 THEN short ELSE long]

(* A mode of ch channels: channel c in submap mux[c], floor and residue of *)
(* a submap by number.                                                     *)
Mode(w, submaps, mux, floor, residue, mag, ang) ==
  [W |-> w, submaps |-> submaps, chmuxlist |-> mux,
   floorsubmap |-> floor, residuesubmap |-> residue,
   couples |-> Cardinality(DOMAIN mag), coupling_mag |-> mag, coupling_ang |-> ang]

All(n, v) == [k \in 0..(n - 1) |-> v]
Each(n) == [k \in 0..(n - 1) |-> k]
NoPair == [k \in 1..0 |-> 0]

(* Mono: a floor of each type; the residue's end lies behind the block.    *)
Mono ==
  [channels |-> 1, blocksizes |-> Sizes(64, 128),
   floors |-> 2, floor_param |-> <<Floor(1, 65), Floor(0, 70)>>,
   residues |-> 2,
   residue_param |-> <<Residue(0, 3, 1000, 16, 3), Residue(2, 0, 60, 20, 2)>>,
   modes |-> {Mode(w, 1, All(1, 0), All(1, f), All(1, r), NoPair, NoPair) :
                w \in Flags, f \in 1..2, r \in 1..2}]

(* Stereo, coupled, in one bundle of type 1 or 2, and in two submaps.      *)
Stereo ==
  [channels |-> 2, blocksizes |-> Sizes(64, 128),
   floors |-> 1, floor_param |-> <<Floor(1, 33)>>,
   residues |-> 2,
   residue_param |-> <<Residue(1, 0, 64, 8, 2), Residue(2, 5, 500, 15, 2)>>,
   modes |-> {Mode(w, 1, All(2, 0), All(1, 1), All(1, r), <<0>>, <<1>>) :
                w \in Flags, r \in 1..2}
       \cup {Mode(1, 2, Each(2), All(2, 1), All(2, 2), <<1>>, <<0>>)}]

(* Three channels, each a submap of its own, one residue of type 2 that    *)
(* its header cuts: every submap takes the whole of it.                    *)
Three ==
  [channels |-> 3, blocksizes |-> Sizes(128, 128),
   floors |-> 1, floor_param |-> <<Floor(1, 65)>>,
   residues |-> 2,
   residue_param |-> <<Residue(2, 0, 64, 1, 1), Residue(0, 0, 64, 1, 5)>>,
   modes |-> {Mode(0, 3, Each(3), All(3, 1), All(3, r), NoPair, NoPair) : r \in 1..2}
       \cup {Mode(0, 4, [k \in 0..2 |-> IF k = 2 THEN 3 ELSE 0], All(4, 1),
                  [k \in 0..3 |-> IF k = 0 THEN 2 ELSE 1], <<0, 1>>, <<1, 2>>)}]

(* Four channels in two bundles, one residue that lies behind what a single *)
(* channel holds: nothing is set aside for it as type 0 or 1.              *)
Four ==
  [channels |-> 4, blocksizes |-> Sizes(256, 256),
   floors |-> 1, floor_param |-> <<Floor(1, 65)>>,
   residues |-> 1, residue_param |-> <<Residue(2, 128, 256, 1, 1)>>,
   modes |-> {Mode(0, 2, [k \in 0..3 |-> k \div 2], All(2, 1), All(2, 1),
                   NoPair, NoPair)}]

MCSetups == {Mono, Stereo, Three, Four}
=============================================================================
