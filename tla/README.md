# A TLA+ model of micro-vorbis

micro-vorbis decodes an Ogg Vorbis I stream on a microcontroller: a C++ wrapper
(`OggVorbisDecoder`) feeds a cut-down Tremor (`src/tremor`) with the packets an Ogg
demuxer finds in the bytes the caller hands it. It is sequential: nothing runs
concurrently, and a call of `decode()` or `reset()` runs to completion. What makes
it hard is that its state is spread over three owners (wrapper, Tremor, caller),
that one packet can be handled by two calls, that the input is anything at all,
and that every allocation may fail.

## 1. Inventory

| Part | State it keeps | Operations | Talks to | What makes it correct |
| --- | --- | --- | --- | --- |
| `OggVorbisDecoder` (`src/ogg_vorbis_decoder.cpp`) | header state, comment magic, packet number, pending and end flags, required size, PCM format, init flags of Tremor's structures | constructors, `decode`, `reset`, getters | calls the demuxer and Tremor | pending flag and readout window agree; frames in order, once, whole; nothing leaks; no early audio |
| Synthesis state (`tremor/synthesis.c`, `block.c`) | `work`, `mdctright`, window `out_begin..out_end`, `lW`/`W`, granule position, sequence, sample count | init, synthesis, blockin, pcmavail, lapout, read, clear | reads `vorbis_info`; called by the wrapper | window inside the lap of the right two blocks; positions agree with the pages |
| Channel layout (`role_to_plane`, keep mask) | none | lookups | wrapper fixes the mask once, `lapout` obeys it on every packet | planes read were kept |
| Header unpacking (`tremor/info.c`, the unpackers of floors, residues, mapping; `registry.c`) | `vorbis_info`, codec setup: tables of types and structs | init, headerin, clear | called by the wrapper; calls the unpackers of each backend and codebook | headers in order and once; every block of a header that failed anywhere is freed once |
| Identification parser (`vorbis_header.cpp`) | none | parse, magic checks | wrapper | lets through what Tremor accepts, and reads it alike |
| Arenas (`tremor/block.c`, `block.h`) | bump pointers: one arena for the setup, one reset per packet | size, alloc, ripcord | mapping, floor, residue | what is computed from the setup covers every packet, and is exactly what the set-up takes: no allocation fails in the middle of one |
| Bit reader (`tremor/bitwise.c`) | position in the packet | look, adv, read | every unpacker and decoder | never past the packet; end is sticky |
| Codebooks (`tremor/codebook.c`) | a decode tree packed in cells of 1, 2 or 4 bytes; the values | unpack, clear, decode, decodevs/v/vv_add, decodev_set | floor, residue | a book is accepted iff its lengths make a tree; the walk stays in the table and finds the codeword; values once, in place |
| Floor 1 (`tremor/floor1.c`) | posts, their order and neighbours | unpack, inverse1, inverse2 | mapping | the neighbours are the nearest; every height has a code; the curve is drawn once, inside the table |
| Floor 0, residues, mapping | setup parameters; looks of floor 0 cached per block size | unpack, look, inverse | synthesis, arena | indices stay in the planes; channels of a bundle are served once; a packet finds the look of its mode |
| MDCT and windows (`tremor/mdct.c`) | tables | backward, shift right, unroll and lap in strips | synthesis, lapout | every sample of a frame is the right lap; ranges read were written |
| Ogg demuxer (another repository) | page and packet buffer | next packet, next data, reset | wrapper | (environment) |
| Caller | its PCM buffer | the loop the header shows | wrapper | plays the stream to its end |

The parts interact by calls only, all on the caller's thread; the shared state is
Tremor's three structures, owned by the wrapper (`TremorState`) and linked by raw
pointers (`vb` to `vd` to `vi`).

Hard behaviour: (a) a frame that does not fit is held in Tremor across calls, and
no block may be accepted over it; (b) packet numbers are counted on six return
paths in three functions, and Tremor tells a lost packet only by them; (c) the
headers allocate in three stages and any of them may fail, at any struct of any
section; both arenas are sized before they are used, in another function than where they
are used, and no allocation from them is looked at; (d) the comment header is streamed in pieces of any size; (e) granule positions come from the stream and
trim the window; (f) the end of the stream arrives with the last packet, which may
be corrupt, or not fit; (g) the readout unrolls half transforms through four loops
that hand their pointers on, from any start and for any length; (h) floor 1 draws
its lines without a division, from posts in an order of the header's choosing;
(i) a codebook's tree is grown by hand from a list of lengths, packed into cells
whose width is picked from two others, and walked near the end of a packet by a
reader that fetches ahead of it.
`PROJECT.json` lists every hazard at its line.

## 2. Modules

| Module | Models |
| --- | --- |
| `SpeakerLayout` | `role_to_plane`, the keep mask, the planes `output_pcm` reads |
| `TremorDsp` | `vorbis_dsp_state` and, one operator per entry point, synthesis, blockin, pcmavail, lapout, read, init, clear |
| `OggVorbisDecoder` | the wrapper: one action per way through `decode()`, and `reset()`; holds all properties |
| `PcmDelivery` | the abstract specification: what the caller is promised |
| `StreamPlayer` | the caller's loop around `OggVorbisDecoder`, with fairness |
| `GranulePosition` | blockin fed by an honest encoder over pages and losses |
| `MdctLap` | `mdct_unroll_lap`: its regions, what each reads, and the lap of two blocks by definition |
| `StripReadout` | a frame read in strips of any length: `vorbis_synthesis_lapout`, `_read` and the loop of `output_pcm` |
| `BlockArena` | `_vorbis_arena_compute_size`, `_vorbis_block_alloc`, the allocations of `mapping0_inverse`, both floors and the residues of a packet, and how far the residues write |
| `BitReader` | `bitwise.c`: where a reader stands and when it dies |
| `BookTree` | the markers and the growth of a decode tree, its packing into cells, the polishing of a lattice's size: the pure part of `codebook.c` |
| `Codebook` | `vorbis_book_unpack` read by read and allocation by allocation, `vorbis_book_clear` |
| `BookDecode` | the walk of `decode_packed_entry_number` and the functions that decode an entry or write vectors |
| `Headers` | both parsers of the identification header, `_vorbis_unpack_books` and every struct of the setup header |
| `DspSetup` | `_vorbis_dsp_arena_compute_size`, `_vds_init`, `mapping0_look`, `floor0_look`, and both clears |
| `Floor1` | the neighbour search of unpack, `floor1_inverse1`, `floor1_inverse2` with `render_line` |
| `TremorDspProofs`, `OggVorbisDecoderProofs`, `SynthesisProofs`, `BlockArenaProofs`, `Floor1Proofs`, `DspSetupProofs`, `CodebookProofs`, `BookDecodeProofs` | lemmas and theorems |
| `MC*` | constants for TLC |

### Correspondence

A call is one step. `decode()` is `\E size \in Offers : Decode(size)`; the action
names follow the code path: the checks before the demuxer (`DecodeNullPointer`,
`DecodeEmptyBuffer`, `DecodeOutOfMemory`), the held frame (`DecodePending`), the end
(`DecodeEndOfStream`), the demuxer's answers (`Demux...`), then one group per
packet handler. Variables carry the names of the fields without the trailing
underscore. `ret` is the result of the call with the PCM written; `heap` counts
live allocations of the three kinds and exists in no field: it is what a leak
checker would see.

Abstracted: samples are named by the block they came from (`Readout`), so that a
frame says exactly which lap of which two blocks it is; `work` and `mdctright` are
one each, since all channels hold the same block. The codec setup is one
allocation with `books` (its book count is not zero) as the only field later
checks look at; `rate` and `sample_rate` are whether they are nonzero. The order of
the guards, flags and counters is that of the code: `output_pcm` counts the packet
with or without PCM but not when the buffer is too small; an empty packet sets the
end flag and is then refused without being counted; a rejected comment piece leaves
the state in `STREAMING_COMMENT` with the magic gathered so far.

How the parts fit: `TremorDsp` is the wrapper's view of Tremor, where a frame is the
lap of two blocks and a window of it. `MdctLap` and `StripReadout` open that view: a
sample of the lap is the pair of places, in the tail of the last block and in the
half transform of this one, with the window's index that weighs them. `BlockArena`
opens "synthesis": the memory a packet takes on its way to `work`. `Floor1` opens one
stage of it, the factor every sample of the half block gets. `Headers` opens what
is "the headers are accepted or not" in `OggVorbisDecoder`, and `DspSetup` what is
"the DSP state is allocated or not". In `Headers` a codebook is a number only, which
says whether it has values; `Codebook` opens one book, and `BookDecode` uses it.

In `BlockArena` an allocation is a number of bytes, rounded as the code rounds it;
`null` becomes true when one does not fit (the code would write through it). In
`Floor1` every pass of a loop is a step, so that what holds inside the loops can be
said; the entry of the dB table stands for the factor; `out` keeps for every sample
the factors it has got. A packet without a floor (or one that ends among its codes)
draws nothing: inverse2 zeroes the half block.

In `Headers` a step is one struct, or one allocation of a struct; `sent` holds what
the packets say. A block of memory is named by the section, the struct and the field
that points to it, so that "freed by what is there" can be said: `ClearedBlocks` is
what the tables, types and counts lead `vorbis_info_clear` to. `DspSetup` goes on in
the same state: `size` is what is added up, `used` what is taken, and `trail` (a
history) the size as it stood at every submap, for the proof.

In `Codebook` a step is one read of the header with the checks that follow it, or one
turn of a loop of `_make_words`. What was allocated and not written is `Unset`.
`BookDecode` chooses the bits of an audio packet as they are walked; `spelling` and
`words` are histories, the first what the lengths say by definition (an entry takes
the lowest word that clashes with none before it), which shares nothing with the
markers of `_make_words`.

The environment chooses: what the demuxer returns, whether a packet is well formed,
which window flag and granule position it carries, which allocation fails, what
the caller passes and whether it obeys "after any other error, call reset()"
(`obedient`, one of `Obedience`). The granule positions include -1 (none) and a negative one,
which the code treats as huge and unsigned.

## 3. Runs and their bounds

- `any_caller`: every caller, also one that ignores errors. Two formats (unequal
  block sizes in mono; three channels, which the downmix folds), constructor
  requests 0, 2 and 3 (the last is normalised away), three role selections (one
  with a plane that is missing in one layout, one that is too long), granule
  positions -2, -1, 0, 3, buffers of 0 and 2 bytes, what the last frame needs, and
  `max_output_bytes()`. `MaxPackets` = 7 is three headers and four blocks: the first
  primes, the second opens the window, the third and fourth see every pair of
  flags with and without a loss before them. The magic is 2 bytes instead of 7: it
  takes two pieces to tell gathered from complete.
  Whether the caller obeys is part of the state; only for one that does is the order
  of headers guaranteed, because a rejected magic is not checked a second time. The
  run also checks the refinement of `PcmDelivery`, with `last` mapped to Tremor's
  sequence and `owed` to the readout of a held frame.
- `player`: liveness. `WF(PlayerNext)` is the caller's own loop: it calls again until
  END_OF_STREAM; nothing is assumed of the decoder. Input arrives (`MaxPieces` calls
  may end inside a page). Buffers start at 2 bytes, below every frame but one.
- `granule_position`: six blocks of 4 or 16 samples, up to 3 cut from the start, up to
  a block of padding, any split into pages, one loss.
- `strip_readout`: every frame of every pair of blocks with sizes 8 and 8, 8 and 16, 8
  and 32, 32 and 32: the window may start and stop anywhere in the lap, and is read in
  strips of at most 3 samples (256 in the code), which divides no region: every loop
  of `mdct_unroll_lap` is entered in its midst, left early and skipped.
- `block_arena`: four setups. Mono with floors of both types and a residue whose end
  lies behind the block; stereo coupled in one bundle, and uncoupled in two submaps;
  three channels in three submaps, and in four of which two are empty; four channels
  in two bundles that share a residue lying behind what one channel holds. A packet
  may end at any floor and in any residue, and any channel may have no floor. Block
  sizes are 64 to 256, large enough for `begin`, `end` and grouping to cross each other.
- `floor1`: lists of zero to three inner posts, in three of the orders three can have,
  multipliers with 86 and 64 steps (86 is no power of two, so heights can be read that
  are out of range), a half block that the last post lies before, at and behind;
  heights and codes that leave each post unused, wrap to either side, run out of range,
  and the end of the packet in the first two.
- `book_decode`: books of up to five entries with every list of lengths up to 3 bits
  and every way to leave entries out or to run ordered; a book as deep as a word has
  bits, whose last codeword has the top bit of a long; every mapping and every pair
  of widths of nodes and leaves, with values in the leaf, as an index, and in `q_val`;
  lattices of 7 to 64 entries around a full one, in 0 to 5 dimensions. Bytes have four
  bits and words four bytes (`ByteBits`, `WordBytes`; `MaxLength` = `LongBits` = 16), so
  that five entries meet every width that takes hundreds with bytes of eight. Packets
  of 2 and 9 bytes end inside a word and after several. Vectors above
  `DECODE_VEC_STACK` = 2 go to the heap. Calls: one per function, with lengths that
  the dimension does and does not divide, and two channels.
- `dsp_setup`: identification headers with each fault alone and with each value of
  rate and block sizes around its limits (16 rates stand for 2^32; `LongMax` = 7 makes
  half of them negative, as on ESP32); set-ups with one or two books, floors of both
  types and one too many, residues of all types and one too many, mappings and modes
  that name what is there and what is not; and two floors, maps and modes that share
  each other in every way, so that a look is built never, once and several times. The
  cap of the arena (5000 for 2^31 - 1) stops some of them. Any read and any allocation
  may fail.
- `narrow_nodes`: a code bug. On real widths, a book of 130 entries with leaves of one
  byte gets nodes of one byte, whose numbers reach the mark of a leaf (see `findings`).
- `required_bytes`, `end_reported`, `lazy_player` show three places where a comment and
  the code differ (see `findings` in `PROJECT.json`).

Fairness is assumed in two places: the caller's own loop in `player`, and `WF(Unpack)` in
`book_decode`: the one thread that unpacks a book is not stopped in it, so that
`UnpackEnds` says that every loop of it ends, that of the lattice's guess above all.

In the runs of the decoder block sizes are 4, 8 and 16 where Vorbis has 64 to 8192: blockin uses only their
quarters and their order, which `BlockSizesOK` states and the proofs take in general.

Deadlock is checked wherever calls can always be made; the player and the encoder
stop when their stream is over, the readout when the frame is read, a book and a
set-up when they are cleared.

## 4. What is proved

`OggVorbisDecoderProofs` proves, for all constants that satisfy `FormatsAssumption`
(block sizes positive, divisible by four, in order; 1 to 255 channels) and
`CallerAssumption` (typing), every invariant of `any_caller` and both its action
properties. The inductive invariant `IInv` adds to them

- `InfoInv`: what `vi` holds in each header state, and that the format's block size is
  the stream's long block;
- `IdentificationInv`: before identification nothing is allocated;
- `DspInv`, `BlockInv`: in DECODING the structures exist, the mask covers the planes
  read, the window obeys `WindowOK`, the held lap is coherent;
- `SizeInv`: a required size never exceeds `max_output_bytes`.

Why they are needed: `DecodeNeverFails` follows only from `PendingIffUnread`, since
the guard on the pending flag protects blockin; that in turn needs `WindowOK` for
"nothing pending means nothing unread"; and `SafeBuffer` needs the window to be no
longer than half a long block, which is `WindowOK` with the order of the block sizes.
`TremorDspProofs` proves these facts of each operator of `TremorDsp`, where the
granule arithmetic is; the module above uses them by name. One lemma per group of
actions then shows the step, and `Inductive` puts them together. `HeadersAreChecked`
needs one more, `MagicInv`: for a caller that obeys, a magic that is whole and was not
reported is right; it is not part of `IInv`, and its own induction uses `TypeOK` only.

The same module proves the refinement, `Spec => DeliversPcm`: one lemma per group of
actions names the step of `PcmDelivery` it is (`Nothing`, `Open`, `Accept...`, `Deliver`,
`Finish`, `StartOver`). What it takes from `IInv`: a block is accepted only with nothing
owed (`PendingIffUnread`), its number is beyond the last one's
(`PacketCountTracksSequence`), and the frame it finishes is made of the last two blocks
and within half a long block (`DspOK`).

The caller's loop of `StreamPlayer` is proved about there too, since every call it makes
is one of the decoder's (`PlayerDecodes`): `LoopDelivers` carries the refinement over to
the loop. `LoopLeavesNothing` (`NothingIsLeftBehind`) has the
invariant `StreamInv`: the decoder has its end flag exactly when the stream has no packet
left, and is then behind its headers; and a call that comes back without reading
leaves a held frame held. `OneRetrySuffices` (`OneRetryIsEnough`) has `BufferInv`: once a
call was refused for its buffer, the caller has what the decoder asked for, and the
frame still to be read needs no more. It assumes `FirstBuffer > 0`: `lazy_player` shows
that a caller who starts with an empty buffer is refused twice.

`SynthesisProofs` has what comes out of the synthesis state and where it stands. For
every pair of block sizes, every cut of the start, every length of the stream, split into
pages and number of losses, the three properties of `granule_position`. The invariant is `Counting`, in parts: `Numbered` (the number of the
block decoded last is behind the next packet's, and right behind it when nothing was
lost; nothing of the window is unread when the next block comes); `InStep` (when the
block decoded last is the encoder's last, Tremor has its flag and, if it has any
position, its position); `Lossless` (without a loss, Tremor knows a position from the
first page on, has played all samples before, and those up to the position after); and
`Behind` (after a gap what was played, with the quarter of the block that is to lap,
never exceeds what was made with the encoder's). The last is what makes `NeverPlaysMore`
inductive: the block before a gap may be longer than the lost ones, and laps with the
one behind it as if they had been neighbours. `BlockinTells` puts
`vorbis_synthesis_blockin` into one equation for the window and one for the position.

In the same module, for all block sizes that `BlockSizesOK` lets through, `UnrollIsLap`
shows region by region that what `mdct_unroll_lap` reads for sample k of a lap is what
the definition of the lap says, and `PcmIsTheLap` carries it over the strips (the
invariant: what was put out is the lap from the first sample up to `out_begin`).
`StripsReadInside` adds that no place is outside the tail, the transform or the window.

`BlockArenaProofs`: for every setup that `SetupOK` and `ModeOK` describe (what the
unpackers let through: any number of channels, 1 to 16 submaps), `ArenaAlwaysSuffices` and
`ResiduesStayInPlane`. The invariant is `Types /\ Measured /\ Budget`. `Measured`: the
maxima cover the floors and residues looked at so far. `Budget`: after n floors at most
`FloorBound(n)` bytes are used, and when the submaps before i have been served, with
s channels in them, at most `ResidueBound(s, min(s, i))`; the last bound is the computed
capacity. The step needs that the submaps partition the channels, so that the channels
served never exceed those there are (`SubmapsPartition`), and that the class bytes of
a residue grow with its cap (`ClassBytesMonotone`).

`Floor1Proofs`: for every list of posts unpack lets through, every multiplier and block
size, all five properties of the run. The invariant relates search, pen and what is
drawn: `Searching` (lo and hi are the nearest of the posts before k), `Rests`, `Passed`
and `Ahead` (the pen rests on a post in use, no post in use that was passed is behind
it, all left are), `Pen` (steps * run + error = rise * samples, `OnLine`), and `Drawn`
(exactly the samples up to the pen, each by `Curve`). `OneMoreStep` is the arithmetic of
render_line; `CurveBetween` and `CurveBehind` say what the definition of the curve
gives between two posts in use and behind the last; `UnwrapIsOnto` that the codes of a
post reach every height but the predicted one.

`DspSetupProofs`: for every packet that `HeadersAssumption` types, and every size of
pointers and structs. `HInv` is the invariant of the headers: `Types`, `Lists` (a type for
every struct, and one more for the one being unpacked), `InOrder` (sections before this
one are full, those behind it empty), `Ranges` (what the unpackers checked of maps and
modes), and `Memory` (the blocks are those that `ClearedBlocks` and the unfinished struct
lead to); `HeadersAreOwned` follows. `SInv` is that of the set-up: `Sizes`; `Measured` (the
trail goes from submap to submap, each entry the one before plus what its submap takes);
`Filled` (at each allocation `used` is what the formula had added by that point: at a
submap the trail's entry for the same submap); and `Looked` (every floor of type 0 of a
submap already passed has the look for that mode's flag). The same walk done twice,
once adding and once taking, is in step because `After` depends on the place alone.
`ArenaIsExactly` and `HeadersSound` follow.

`CodebookProofs`: for every book, width, packet and call, `MemoryOwned`, `QuantvalsExact`
and `AcceptedIffTree`. `BookDecodeProofs` goes on from there: on real widths
(`RealWidths`: bytes of 8 bits, words of 4 bytes) `WalkStaysInTable`, and
`DecodesTheCodeword` but for the books of `narrow_nodes`. `Pointers` says which pointers of the book are set at which step
(and which type of leaf goes with which mapping), `Heap` which blocks there are, `Served`
that calls come to accepted books.

`LatticeIsExact` is about the loop of `_book_maptype1_quantvals`. The code cuts its two
products short before they can overflow. `SaturatedTells` says that a power cut short is
on the same side of `entries` as the power itself, so that every verdict of the loop is
right; `Searching` adds that the guess stays positive (`PolishKeeps`: only a power past
the entries brings it down, and that of 1 is none). `entries` below 2^24, the width of
its field, is what keeps the cut above it (`ShapeAssumption`).

`AcceptsTrees` is about `_make_words`. What the markers mean is stated by `Good`: the
marker of a length that is odd is a word of that length which is free; any other hangs,
as twice the marker one shorter. The free words below a length are then a sum over the
odd markers, `FreeBy(n)` for words of n bits, and what a step of the loop does to the
markers (take one, bump those above it until one is odd, hang those behind on it) has
one meaning, `MarkersMove`: afterwards the markers are good again, and `FreeBy(MaxLength)`
is less by 2^(MaxLength - length) exactly. `Planting` is the invariant that follows: what is
free and the `Measure` of the entries planted add up to 2^MaxLength. Then `LeftOver` and
`NoneLeftOver` turn the code's last check (an odd marker is left) into the sum of the
definition `IsTree`, and `UnfitIsNoTree` shows that a length whose marker has overflowed
finds no free word, so that no list with this beginning is a tree. `OneWord` is the
exception for the book of one word, and `Lists` counts the entries in use from the list
(`Tally`, which is exact: the table is as large as that count allows). Nothing but
`WordBits` <= 32 is assumed of the widths, as the marker is an `ogg_uint32_t`.

The last part of `AcceptedIffTree` is about the table: a tree never runs out of nodes.
`Growth` is its invariant. Between two words there is a `Way` for each odd marker: nodes
from the root along all but the last bit of its word, to a node that has nothing on its
right, another node for every marker (`Placed`). The nodes are then one fewer than leaves
and open places together (`Base`). Within a word, `Chased` says how far it is: its bits are
those of the free word it hangs from and zeros after (`TakenBits`), so it goes along that
word's way, out of its end, and down nodes that are each new and on the left of the last.
`ChaseGoesOn` takes a step of that. `PlantGrows` ends it: the nodes it made are the open
places of the markers it set (`FreedBits`, `PlacesMove`), and it never meets a leaf or a
node that is not its own. What is left is to count: in a list that is a tree each odd
marker takes at least one of the words still to come (`EnoughWords`, from the list's end
back), so that leaves and places are never more than the entries in use, and `NodesSuffice`
follows for both sizes of the table.

`WalkIsSafe` takes the grown tree through its packing. `Shaped` adds to `Growth` what the
words of the tree hold: each side of a node is a leaf, a place still open, or a node
further on (`Grown`), with one leaf more than nodes once no place is open (`WholeTree`).
`Sizing` is what the mapping decided on: the widths of cells, fewer than 2^24 entries, and
that a node's number can be told from a leaf (`NodeSized`). Where leaves take two cells,
`NodeStarts` counts from the end; `StartsAre` turns it around (node k starts at 2k and the
leaves before it), `HalvedCells` says what is in each cell then, and `StartsFit` that the
last start is below the mark. `Sound(cells, nodes)` is what the walk needs of a table:
from each of these nodes either bit leads to a written cell, which is a leaf, whose low
half is there too, or another of the nodes. Each of the three layouts gives one, and
`Walkable` keeps the walk on it. The widths are needed since `determine_node_bytes`
compares a size with `leafwidth*4` bits, which is half a leaf only if bytes have 8.
`NodesAreFit` states the same of the numbers of nodes where leaves hold entries or have
two cells. The others are those of `narrow_nodes`: there a node may look like a leaf,
which ends a walk early, at a wrong value, but not outside the table.

`DecodesCodewords` joins the two ends: what `Codewords` says of the lengths, entry by
entry and without markers or tree, and where a walk of the packed table comes out.
`Spelt` carries the first into the tree while it grows. The words taken and the free words
that hang from odd markers part the words of `MaxLength` bits (`Parted`), so the lowest word
of a length that clashes with none is the one its marker names (`LowestIsTaken`), which is
the one the code takes; `LeadsTo` says that a codeword's bits lead from the root to its
leaf, and `Keeps` that planting another never moves it. `Standing` is this when the last
word is in, and `Settled` keeps it through the packing.
`Follows` compares table with tree: node k has a place (`Place`), and either bit finds
there (`Found`) a leaf's number, whole again from its halves where it has two cells, or
the place of the next node. `Numbered` has the width for that. The walk is `Decoding`:
the bits so far lead along nodes of the tree (`Walked`), of which the walk is at the last.
While it is on a node no codeword has ended (`NoneSpelledYet`); at a leaf exactly the
leaf's codeword has (`LeafSpells`), since a path is begun by a codeword or by a word that is
still free, and those lead to no leaf (`NoHoleReached`);
and `Reader` has that a skip of bits which are left takes them and any other leaves the
reader dead, so that a walk that comes to an end without a leaf has been through all the
bits there were. The theorem is about books whose nodes can be told from leaves
(`Addressed`): all but those of `narrow_nodes`, where it would not be true. Of the books
of one entry it says what the property says of them, with the word that was never written
free.

These are inductions over numbers (a power over its exponent, a measure over its list),
which the library's theorems offer with an operator as a parameter only. They are done
with sets instead: `LeastNumber` takes a least element from the well-foundedness of `<`,
and `InductiveSet` says that a set with 0 and with every successor has all numbers.
`PowersExist` and `SumsExist` show with it that the functions the definitions recurse by
are there at all.

Only model-checked:

- `ValuesInPlace`: `DecodesCodewords` gives the entry of each walk, but the property is
  about the whole call, with sums over the vectors written so far and the fields of packed
  values; and `DecodesTheCodeword` for the books of `narrow_nodes`.
- everything temporal in `player` and `book_decode`: liveness under fairness is beyond the
  prover.

## 5. Findings and remarks

`findings` in `PROJECT.json` lists four places where a comment and the code differ, each
with the run that shows it. Smaller things met on the way, none of which breaks a
property:

- A codeword of 32 bits whose last bit is one is lost where a long has 32 bits: the look
  at it is negative like a failed one, so that 31 bits are looked at and the walk ends
  without a leaf. `DecodesTheCodeword` excepts it. The comment at `codebook.c:757` says
  that a valid stream never gets there.
- A book of one entry has a node of which only one word is written (`codebook.c:168`), and
  a packet can hold the other bit. What is read then is free in the model (`Strays`);
  `WalkStaysInTable` excepts the book, and `DecodesTheCodeword` still holds the reader to
  the bits walked. The comment at `codebook.c:757` calls such a packet corrupt.
- A book of two or more entries with a single one in use is refused unless its codeword
  has one bit, although the check for trees that are not full excepts such books.
- The check `q_pack*dim > 32` (`codebook.c:610`) never fires: no lattice has more vectors
  than the book has entries, fewer than 2^24. A sparse book of mapping 2 reads values for
  its entries in use only.
- The wrapper's parser takes rates of 2^31 and more, which Tremor refuses where a long has
  32 bits; `ParsersAgree` says so.
- `backends.h` says that `look_cache` is NULL until `mapping0_look` runs; `floor0_unpack`
  leaves it as malloc does. It is never read before it is built (`HeadersAreSound`).
- `_vorbis_unpack_info` returns without clearing for a version other than 0; the
  wrapper's parser refuses such a header first.

## 6. Not modelled, and what could follow

- The body of the comment header: the wrapper never unpacks one, it feeds Tremor an
  empty comment packet.
- Residues: the digits of the classes and the passes over the partitions; the classes and
  books of floor 1. `BlockArena` has their allocations and their reach.
- Proofs: the values a call writes (`ValuesInPlace`), for which `Decoding` has the entry
  of each walk; what is missing is the packing of values into leaves and their order.

Left out for good: the arithmetic of samples (MDCT, windows, residue values, the scale and
offset of decoded values, downmix gains, the curve of floor 0 with its division by
toBARK(0) at rate 1), because its correctness is numerical; 32-bit overflow of `out_begin`,
which needs more than 2^31 samples in one page; the demuxer, which is another
repository; build files, scripts and examples.
