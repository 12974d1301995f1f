------------------------------ MODULE DspSetup ------------------------------
(***************************************************************************)
(* Setting up the decoder for a stream whose headers were accepted         *)
(* (block.c): one arena is sized for everything, each allocation is taken  *)
(* from it without a look at the pointer, and the looks of the floors of   *)
(* type 0 are built, once per mode and submap, and cached on the floor per *)
(* block size (mapping0.c, floor0.c).  Then everything is cleared.         *)
(***************************************************************************)
EXTENDS Headers, FiniteSets

CONSTANTS
  PtrBytes,              \* bytes of a pointer,
  StateBytes,            \* of a private_state
  LookBytes,             \* and of a vorbis_look_floor0
  DSP_ARENA_SAFETY,      \* 256
  DSP_ARENA_MAX_BYTES    \* 2^31 - 1

ASSUME SetupAssumption ==
  /\ PtrBytes \in Nat /\ StateBytes \in Nat /\ LookBytes \in Nat
  /\ DSP_ARENA_SAFETY \in Nat /\ DSP_ARENA_MAX_BYTES \in Nat

VARIABLES
  keep,        \* channels the caller wants
  size,        \* what _vorbis_dsp_arena_compute_size adds up
  capacity,    \* of the arena
  used,        \* of the arena
  null,        \* an allocation has returned NULL
  ch,          \* channels whose planes are allocated
  at,          \* <<mode, submap>> to be measured, or to get its look
  look_cache,  \* by floor and block flag: samples the look is for, or Unbuilt
  trail        \* history: at and size as the looks were measured

dspVars == <<keep, size, capacity, used, null, ch, at, look_cache, trail>>
allVars == <<headerVars, dspVars>>

Channels == 0..(vi.channels - 1)
Modes == ci.count["modes"]
ModeAt(m) == ci.param["modes"][m + 1]
MapOf(m) == ci.param["maps"][ModeAt(m).mapping + 1]
FloorAt(m, s) == MapOf(m).floorsubmap[s]
Unbuilt == 0

SetupInit ==
  /\ HeadersInit /\ keep = {} /\ size = 0 /\ capacity = 0 /\ used = 0
  /\ null = FALSE /\ ch = 0 /\ at = <<0, 0>> /\ look_cache = <<>>
  /\ trail = <<>>

IntBytes == 4
ARENA_ALIGN == 8
Round(bytes) == ((bytes + ARENA_ALIGN - 1) \div ARENA_ALIGN) * ARENA_ALIGN

-----------------------------------------------------------------------------
(* _vorbis_dsp_arena_compute_size.                                         *)

KeepBytes == (vi.channels + 7) \div 8
WorkBytes == Round((vi.blocksizes[1] \div 2) * IntBytes)
TailBytes == Round((vi.blocksizes[1] \div 4) * IntBytes)
ModeBytes == Round(Modes * PtrBytes)

(* The state, the two arrays of planes and the mask.                       *)
StateSize ==
  Round(StateBytes) + 2 * Round(vi.channels * PtrBytes) + Round(KeepBytes)

FixedSize(kept) ==
  StateSize + vi.channels * WorkBytes + Cardinality(kept) * TailBytes
    + ModeBytes

(* The next submap, of the next mode behind the last.                      *)
After(p) == IF p[2] + 1 < MapOf(p[1]).submaps THEN <<p[1], p[2] + 1>>
            ELSE <<p[1] + 1, 0>>

Half(flag) == vi.blocksizes[flag] \div 2

(* Mutant: without the end mark of the map.                                *)
floor0_arena_size_unmarked(n, f) ==
  Round(LookBytes) + Round(n * IntBytes) + Round(f.barkmap * IntBytes)

(* The look of a floor 0, its map with an end mark, and its cosines.       *)
floor0_arena_size(n, f) ==
  Round(LookBytes) + Round((n + 1) * IntBytes) + Round(f.barkmap * IntBytes)

(* mapping0_arena_size: floors of type 1 and residues take nothing.        *)
SubmapSize(p) ==
  LET f == FloorAt(p[1], p[2])
  IN  IF ci.type["floors"][f + 1] = 0
      THEN floor0_arena_size(Half(ModeAt(p[1]).blockflag),
                             ci.param["floors"][f + 1])
      ELSE 0

(* vorbis_synthesis_init_ex, with the channels that are wanted.            *)
StartSetup ==
  /\ pc = "accepted"
  /\ keep' \in SUBSET Channels
  /\ size' = FixedSize(keep') /\ at' = <<0, 0>>
  /\ trail' = <<[at |-> at', size |-> size']>>
  /\ look_cache' = [x \in (0..(ci.count["floors"] - 1)) \X {0, 1} |-> Unbuilt]
  /\ pc' = "measure"
  /\ UNCHANGED <<sent, vi, section, ci, part, heap, capacity, used, null, ch>>

MeasureSubmap ==
  /\ pc = "measure" /\ at[1] < Modes
  /\ size' = size + SubmapSize(at)
  /\ at' = After(at) /\ trail' = Append(trail, [at |-> at', size |-> size'])
  /\ UNCHANGED <<headerVars, keep, capacity, used, null, ch, look_cache>>

-----------------------------------------------------------------------------
(* _vds_init.                                                              *)

Arena == <<"dsp", 0, "setup_arena">>

AllocArena ==
  /\ pc = "measure" /\ at[1] >= Modes
  /\ \/ /\ pc' = "without_dsp"
        /\ UNCHANGED <<sent, vi, section, ci, part, heap, dspVars>>
     \/ /\ size <= DSP_ARENA_MAX_BYTES - DSP_ARENA_SAFETY
        /\ heap' = heap \cup {Arena}
        /\ capacity' = size + DSP_ARENA_SAFETY /\ pc' = "state"
        /\ UNCHANGED <<sent, vi, section, ci, part, keep, size, used, null,
                       ch, at, look_cache, trail>>

(* _vorbis_setup_alloc, for the allocations of one step: the first that    *)
(* does not fit gives NULL.                                                *)
Allocate(rounded) ==
  IF used + rounded <= capacity
  THEN used' = used + rounded /\ UNCHANGED null
  ELSE null' = TRUE /\ UNCHANGED used

AllocState ==
  /\ pc = "state" /\ Allocate(StateSize) /\ pc' = "work" /\ ch' = 0
  /\ UNCHANGED <<sent, vi, section, ci, part, heap, keep, size, capacity, at,
                 look_cache, trail>>

AllocWork ==
  /\ pc = "work"
  /\ IF ch < vi.channels
     THEN Allocate(WorkBytes) /\ ch' = ch + 1 /\ UNCHANGED pc
     ELSE pc' = "tails" /\ ch' = 0 /\ UNCHANGED <<used, null>>
  /\ UNCHANGED <<sent, vi, section, ci, part, heap, keep, size, capacity, at,
                 look_cache, trail>>

AllocTails ==
  /\ pc = "tails"
  /\ IF ch < vi.channels
     THEN /\ IF ch \in keep THEN Allocate(TailBytes)
             ELSE UNCHANGED <<used, null>>
          /\ ch' = ch + 1 /\ UNCHANGED pc
     ELSE pc' = "modes" /\ UNCHANGED <<used, null, ch>>
  /\ UNCHANGED <<sent, vi, section, ci, part, heap, keep, size, capacity, at,
                 look_cache, trail>>

AllocModes ==
  /\ pc = "modes" /\ Allocate(ModeBytes) /\ pc' = "looks" /\ at' = <<0, 0>>
  /\ UNCHANGED <<sent, vi, section, ci, part, heap, keep, size, capacity, ch,
                 look_cache, trail>>

(* floor0_look, allocation by allocation.                                  *)
LookAllocs(n, f) ==
  Round(LookBytes) + Round((n + 1) * IntBytes) + Round(f.barkmap * IntBytes)

(* Mutant: a floor that has a look is passed over.                         *)
BuildLookOnce ==
  /\ pc = "looks" /\ at[1] < Modes
  /\ LET f == FloorAt(at[1], at[2])
         flag == ModeAt(at[1]).blockflag
     IN  IF ci.type["floors"][f + 1] = 0 /\ look_cache[f, 1 - flag] = Unbuilt
         THEN /\ Allocate(LookAllocs(Half(flag), ci.param["floors"][f + 1]))
              /\ look_cache' = [look_cache EXCEPT ![<<f, flag>>] = Half(flag)]
         ELSE UNCHANGED <<used, null, look_cache>>
  /\ at' = After(at)
  /\ UNCHANGED <<headerVars, keep, size, capacity, ch, trail>>

(* mapping0_look, one submap at a time.                                    *)
BuildLook ==
  /\ pc = "looks" /\ at[1] < Modes
  /\ LET f == FloorAt(at[1], at[2])
         flag == ModeAt(at[1]).blockflag
     IN  IF ci.type["floors"][f + 1] = 0
         THEN /\ Allocate(LookAllocs(Half(flag), ci.param["floors"][f + 1]))
              /\ look_cache' = [look_cache EXCEPT ![<<f, flag>>] = Half(flag)]
         ELSE UNCHANGED <<used, null, look_cache>>
  /\ at' = After(at)
  /\ UNCHANGED <<headerVars, keep, size, capacity, ch, trail>>

LooksBuilt ==
  /\ pc = "looks" /\ at[1] >= Modes /\ pc' = "ready"
  /\ UNCHANGED <<sent, vi, section, ci, part, heap, dspVars>>

-----------------------------------------------------------------------------
(* The wrapper's reset: vorbis_dsp_clear, then vorbis_info_clear.          *)

vorbis_dsp_clear ==
  /\ pc = "ready" /\ pc' = "without_dsp" /\ heap' = heap \ {Arena}
  /\ UNCHANGED <<sent, vi, section, ci, part, dspVars>>

vorbis_info_clear ==
  /\ pc = "without_dsp" /\ pc' = "cleared" /\ heap' = heap \ ClearedBlocks
  /\ vi' = NoInfo /\ ci' = ZeroedSetup
  /\ UNCHANGED <<sent, section, part, dspVars>>

SetupNext ==
  \/ HeadersNext /\ UNCHANGED dspVars
  \/ StartSetup \/ MeasureSubmap \/ AllocArena \/ AllocState \/ AllocWork
  \/ AllocTails \/ AllocModes \/ BuildLook \/ LooksBuilt
  \/ vorbis_dsp_clear \/ vorbis_info_clear

SetupSpec == SetupInit /\ [][SetupNext]_allVars

-----------------------------------------------------------------------------
(* Properties.                                                             *)

(* "for a correct mirror the return value equals the arena's final used    *)
(* watermark" (block.c:229), and no allocation on the way returns NULL.    *)
ArenaIsExact ==
  /\ ~null
  /\ pc = "ready" => used = size

(* What mapping0_inverse finds for a channel of a packet in a mode: the    *)
(* submap, a floor and a residue that exist, and if the floor is of type 0 *)
(* a look for the block size of that mode (mapping0.c:207-255).            *)
Decodable(m, c) ==
  LET map == MapOf(m)
      s == map.chmuxlist[c]
      flag == ModeAt(m).blockflag
  IN  /\ s \in 0..(map.submaps - 1)
      /\ map.floorsubmap[s] \in 0..(ci.count["floors"] - 1)
      /\ map.residuesubmap[s] \in 0..(ci.count["residues"] - 1)
      /\ ci.type["floors"][map.floorsubmap[s] + 1] = 0
           => look_cache[map.floorsubmap[s], flag] = Half(flag)

(* Headers that were accepted leave a decoder in which every packet finds  *)
(* what it needs, and the wrapper and Tremor read them alike.              *)
HeadersAreSound ==
  /\ ParsersAgree
  /\ pc = "ready" => \A m \in 0..(Modes - 1), c \in Channels : Decodable(m, c)
=============================================================================
