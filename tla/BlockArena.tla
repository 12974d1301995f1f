----------------------------- MODULE BlockArena -----------------------------
(***************************************************************************)
(* The arena one packet is decoded in: how vorbis_block_init sizes it from *)
(* the codec setup (block.c) and what mapping0_inverse, the floors and the *)
(* residues take from it, packet after packet (mapping0.c, floor0.c,       *)
(* floor1.c, res012.c).  Nothing on the decode path looks at the pointer   *)
(* an allocation returns, so the size has to suffice for every packet.     *)
(*                                                                         *)
(* The bits of a packet are choices: its mode, which floors it carries,    *)
(* and how many partitions of a residue it has before it ends.             *)
(***************************************************************************)
EXTENDS Integers, FiniteSets

CONSTANTS
  Setups,     \* codec setups the unpackers let through
  PtrBytes    \* bytes of a pointer

IntBytes == 4
VIF_POSIT == 63
ARENA_ALIGN == 8

Flags == {0, 1}
Lesser(a, b) == IF a <= b THEN a ELSE b
Greater(a, b) == IF a >= b THEN a ELSE b

(* What the unpackers guarantee: block sizes in order; posts, order and    *)
(* partitions in range; every mapping names a floor and a residue for each *)
(* submap, and a submap for each channel.                                  *)
FloorType == [type : {0, 1}, size : Nat]
ResidueType ==
  [type : 0..2, begin : Nat, end : Nat, grouping : Nat \ {0}, dim : Nat \ {0}]
ChannelsOf(s) == 0..(s.channels - 1)
ModeOK(s, m) ==
  /\ m.W \in Flags /\ m.submaps \in 1..16
  /\ m.chmuxlist \in [ChannelsOf(s) -> 0..(m.submaps - 1)]
  /\ m.floorsubmap \in [0..(m.submaps - 1) -> 1..s.floors]
  /\ m.residuesubmap \in [0..(m.submaps - 1) -> 1..s.residues]
  /\ m.couples \in Nat
  /\ m.coupling_mag \in [1..m.couples -> ChannelsOf(s)]
  /\ m.coupling_ang \in [1..m.couples -> ChannelsOf(s)]
SetupOK(s) ==
  /\ s.channels \in Nat \ {0}
  /\ s.blocksizes \in [Flags -> Nat] /\ s.blocksizes[0] <= s.blocksizes[1]
  /\ s.floors \in Nat /\ s.floor_param \in [1..s.floors -> FloorType]
  /\ \A f \in 1..s.floors :
       s.floor_param[f].type = 1 => s.floor_param[f].size <= VIF_POSIT + 2
  /\ s.residues \in Nat /\ s.residue_param \in [1..s.residues -> ResidueType]
  /\ \A m \in s.modes : ModeOK(s, m)

ASSUME ArenaAssumption ==
  /\ \A s \in Setups : SetupOK(s)
  /\ PtrBytes \in Nat

VARIABLES
  setup, pc, i,
  max_floor, max_bytes_01, max_bytes_2,   \* found while the setup is measured
  capacity, used,                         \* of the arena
  null,      \* an allocation has returned NULL
  mode,      \* of the packet being decoded
  nonzero,   \* channels whose residue is decoded
  reach      \* end of what the last residue wrote, in samples of a plane

sizes == <<max_floor, max_bytes_01, max_bytes_2>>
vars == <<setup, pc, i, sizes, capacity, used, null, mode, nonzero, reach>>

Channels == ChannelsOf(setup)
pcmend == setup.blocksizes[mode.W]
Bundle(m, submap) == {c \in Channels : m.chmuxlist[c] = submap}

-----------------------------------------------------------------------------
(* vorbis_block_init: _vorbis_arena_compute_size and the one allocation.   *)

Init ==
  /\ setup \in Setups
  /\ pc = "floors" /\ i = 0
  /\ max_floor = 0 /\ max_bytes_01 = 0 /\ max_bytes_2 = 0
  /\ capacity = 0 /\ used = 0 /\ null = FALSE
  /\ mode \in setup.modes /\ nonzero = {} /\ reach = 0

FloorSize(f) ==
  IF f.type = 1 THEN (VIF_POSIT + 2) * IntBytes ELSE (f.size + 1) * IntBytes

MeasureFloor ==
  /\ pc = "floors" /\ i < setup.floors
  /\ max_floor' = Greater(max_floor, FloorSize(setup.floor_param[i + 1]))
  /\ i' = i + 1
  /\ UNCHANGED <<setup, pc, max_bytes_01, max_bytes_2,
                 capacity, used, null, mode, nonzero, reach>>

FloorsMeasured ==
  /\ pc = "floors" /\ i = setup.floors
  /\ pc' = "residues" /\ i' = 0
  /\ UNCHANGED <<setup, sizes, capacity, used, null, mode, nonzero, reach>>

Partvals(r, cap) == (Lesser(r.end, cap) - r.begin) \div r.grouping

(* One byte for every class index of the words that hold the partitions.   *)
ClassBytes(r, cap) ==
  IF Lesser(r.end, cap) > r.begin
    THEN ((Partvals(r, cap) + r.dim - 1) \div r.dim) * r.dim ELSE 0

EndCap01(s) == s.blocksizes[1] \div 2
EndCap2(s) == (s.blocksizes[1] * s.channels) \div 2

MeasureResidue ==
  /\ pc = "residues" /\ i < setup.residues
  /\ LET r == setup.residue_param[i + 1]
     IN  /\ max_bytes_01' = Greater(max_bytes_01, ClassBytes(r, EndCap01(setup)))
         /\ max_bytes_2' = Greater(max_bytes_2, ClassBytes(r, EndCap2(setup)))
  /\ i' = i + 1
  /\ UNCHANGED <<setup, pc, max_floor, capacity, used, null, mode, nonzero, reach>>

(* Mutant: one array for all residues of type 2.                           *)
Res2ArraysOne(s) == 1

Res2Arrays(s) == Lesser(s.channels, 16)

Slack(s) == (3 * s.channels + 4) * (ARENA_ALIGN - 1)

ArenaSize ==
  setup.channels * max_floor
    + setup.channels * PtrBytes + setup.channels * max_bytes_01
    + Res2Arrays(setup) * max_bytes_2
    + setup.channels * PtrBytes + setup.channels * IntBytes
    + setup.channels * IntBytes + setup.channels * PtrBytes
    + Slack(setup)

BlockInit ==
  /\ pc = "residues" /\ i = setup.residues
  /\ capacity' = ArenaSize
  /\ pc' = "ready" /\ i' = 0
  /\ UNCHANGED <<setup, sizes, used, null, mode, nonzero, reach>>

-----------------------------------------------------------------------------
(* One packet.                                                             *)

Round(bytes) == ((bytes + ARENA_ALIGN - 1) \div ARENA_ALIGN) * ARENA_ALIGN

(* Allocations in a row of that many bytes, each rounded up: if they do    *)
(* not all fit, one of them returns NULL.                                  *)
Allocate(bytes, from) ==
  /\ used' = IF from + bytes > capacity THEN from ELSE from + bytes
  /\ null' = (null \/ from + bytes > capacity)

BundleBytes ==
  Round(setup.channels * PtrBytes) + Round(setup.channels * IntBytes)
    + Round(setup.channels * IntBytes) + Round(setup.channels * PtrBytes)

(* _vorbis_block_ripcord: everything the last packet took is given back.   *)
Ripcord == 0

StartPacket ==
  /\ pc = "ready"
  /\ mode' \in setup.modes
  /\ Allocate(BundleBytes, Ripcord)
  /\ nonzero' = {} /\ reach' = 0
  /\ pc' = "decode floors" /\ i' = 0
  /\ UNCHANGED <<setup, sizes, capacity>>

FloorOf(c) == setup.floor_param[mode.floorsubmap[mode.chmuxlist[c]]]

(* inverse1: the posts floor1_unpack counted, or the order and amplitude.  *)
FloorBytes(f) == Round((IF f.type = 1 THEN f.size ELSE f.size + 1) * IntBytes)

(* The packet has no floor for channel i.                                  *)
FloorUnused ==
  /\ pc = "decode floors" /\ i < setup.channels
  /\ i' = i + 1
  /\ UNCHANGED <<setup, pc, sizes, capacity, used, null, mode, nonzero, reach>>

(* It has one, which ends early (NULL, the memory stays taken) or is read. *)
FloorUsed ==
  /\ pc = "decode floors" /\ i < setup.channels
  /\ Allocate(FloorBytes(FloorOf(i)), used)
  /\ nonzero' \in {nonzero, nonzero \cup {i}}
  /\ i' = i + 1
  /\ UNCHANGED <<setup, pc, sizes, capacity, mode, reach>>

FloorsDecoded ==
  /\ pc = "decode floors" /\ i = setup.channels
  /\ pc' = "couple" /\ i' = 0
  /\ UNCHANGED <<setup, sizes, capacity, used, null, mode, nonzero, reach>>

(* A pair of which either has a floor is decoded as a pair.                *)
Couple ==
  /\ pc = "couple" /\ i < mode.couples
  /\ LET pair == {mode.coupling_mag[i + 1], mode.coupling_ang[i + 1]}
     IN  nonzero' = IF pair \cap nonzero # {} THEN nonzero \cup pair ELSE nonzero
  /\ i' = i + 1
  /\ UNCHANGED <<setup, pc, sizes, capacity, used, null, mode, reach>>

Coupled ==
  /\ pc = "couple" /\ i = mode.couples
  /\ pc' = "decode residues" /\ i' = 0
  /\ UNCHANGED <<setup, sizes, capacity, used, null, mode, nonzero, reach>>

ResidueOf(submap) == setup.residue_param[mode.residuesubmap[submap]]

(* Where in a plane a residue of type 0 or 1 ends after p partitions.      *)
Reach01(r, p) == IF p = 0 THEN 0 ELSE r.begin + p * r.grouping

(* Mutant: partitions of the bundle are laid out in every channel.         *)
Reach2Whole(r, ch, p) == IF p = 0 THEN 0 ELSE r.begin \div ch + p * r.grouping

(* Type 2: begin and grouping count the samples of all ch channels.        *)
Reach2(r, ch, p) ==
  IF p = 0 THEN 0 ELSE r.begin \div ch + p * (r.grouping \div ch)

(* res0_inverse and res1_inverse: an array of arrays for the channels that *)
(* have something, and class indices for each.                             *)
Residue01 ==
  /\ pc = "decode residues" /\ i < mode.submaps
  /\ LET r == ResidueOf(i)
         cap == pcmend \div 2
         coded == Bundle(mode, i) \cap nonzero
         n == Cardinality(coded)
     IN  /\ r.type < 2
         /\ IF coded = {} \/ Lesser(r.end, cap) <= r.begin
              THEN UNCHANGED <<used, null>> /\ reach' = 0
              ELSE /\ Allocate(Round(n * PtrBytes) + n * Round(ClassBytes(r, cap)), used)
                   /\ \E p \in 0..Partvals(r, cap) : reach' = Reach01(r, p)
  /\ i' = i + 1
  /\ UNCHANGED <<setup, pc, sizes, capacity, mode, nonzero>>

(* res2_inverse: one array, taken before it is known that the channels of  *)
(* the bundle have anything at all.                                        *)
Residue2 ==
  /\ pc = "decode residues" /\ i < mode.submaps
  /\ LET r == ResidueOf(i)
         ch == Cardinality(Bundle(mode, i))
         cap == (pcmend * ch) \div 2
     IN  /\ r.type = 2
         /\ IF Lesser(r.end, cap) <= r.begin
              THEN UNCHANGED <<used, null>> /\ reach' = 0
              ELSE /\ Allocate(Round(ClassBytes(r, cap)), used)
                   /\ IF Bundle(mode, i) \cap nonzero = {}
                        THEN reach' = 0
                        ELSE \E p \in 0..Partvals(r, cap) : reach' = Reach2(r, ch, p)
  /\ i' = i + 1
  /\ UNCHANGED <<setup, pc, sizes, capacity, mode, nonzero>>

PacketDone ==
  /\ pc = "decode residues" /\ i = mode.submaps
  /\ pc' = "ready" /\ i' = 0
  /\ UNCHANGED <<setup, sizes, capacity, used, null, mode, nonzero, reach>>

Next ==
  \/ MeasureFloor \/ FloorsMeasured \/ MeasureResidue \/ BlockInit
  \/ StartPacket \/ FloorUnused \/ FloorUsed \/ FloorsDecoded
  \/ Couple \/ Coupled \/ Residue01 \/ Residue2 \/ PacketDone

Spec == Init /\ [][Next]_vars

-----------------------------------------------------------------------------
(* No allocation of any packet returns NULL: _vorbis_arena_compute_size    *)
(* covers the worst mix of floors, residues and submaps, rounding included.*)
ArenaSuffices == ~null

(* No residue writes behind the half block of its plane, whatever begin,   *)
(* end and grouping its header gave, for one channel or for a bundle.      *)
ResidueStaysInPlane == reach <= pcmend \div 2
=============================================================================
