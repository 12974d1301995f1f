----------------------------- MODULE TremorDsp -----------------------------
(***************************************************************************)
(* Tremor's per-stream synthesis state, vorbis_dsp_state, as the wrapper   *)
(* drives it: one operator per entry point of synthesis.c and block.c,     *)
(* each a function from the state before the call to the state after it.   *)
(*                                                                         *)
(* The samples themselves are abstracted to where they came from.  A       *)
(* channel's work plane holds the half transform of one block, named by    *)
(* the block's packet number and window flag; its mdctright tail holds the *)
(* right half of one block, cut at the size mdct_shift_right was given.    *)
(* All channels hold the same block, so one work and one mdctright stand   *)
(* for all of them.                                                        *)
(*                                                                         *)
(* bs is codec_setup_info.blocksizes: bs[0] the short block, bs[1] the     *)
(* long one.                                                               *)
(***************************************************************************)
EXTENDS Integers

Flags == {0, 1}

(* A half transform, the tail of one, and a keep mask of up to 255 planes. *)
BlockType == [seq : Int, W : Flags]
TailType  == [seq : Int, W : Flags, cut : Flags]
KeepType  == SUBSET (0..254)

(* vorbis_dsp_state, the sample count of its private_state included.       *)
DspType ==
  [setup_arena : BOOLEAN, channel_keep : KeepType,
   work : BlockType, mdctright : TailType,
   out_begin : Int, out_end : Int, lW : Flags, W : Flags,
   granulepos : Int, sequence : Int, sample_count : Int,
   eofflag : BOOLEAN]

(* What a packet tells synthesis and blockin.                              *)
PacketType ==
  [decodable : BOOLEAN, W : Flags, granulepos : Int, eos : BOOLEAN]

(* Block sizes _vorbis_unpack_info lets through: powers of two from 64, in  *)
(* order.  All that is used of them here is that a quarter is whole.       *)
BlockSizesOK(bs) ==
  /\ bs \in [Flags -> Nat]
  /\ \A w \in Flags : bs[w] > 0 /\ bs[w] % 4 = 0
  /\ bs[0] <= bs[1]

NoBlock == [seq |-> -1, W |-> 0]
NoTail  == [seq |-> -1, W |-> 0, cut |-> 0]

Lesser(a, b) == IF a <= b THEN a ELSE b

(* The state _vds_init and vorbis_synthesis_restart leave behind.          *)
StartedDsp(keep) ==
  [setup_arena |-> TRUE, channel_keep |-> keep,
   work |-> NoBlock, mdctright |-> NoTail,
   out_begin |-> -1, out_end |-> -1, lW |-> 0, W |-> 0,
   granulepos |-> -1, sequence |-> -1, sample_count |-> -1,
   eofflag |-> FALSE]

(* All bytes zero: before the first stream, after vorbis_dsp_clear, and    *)
(* after a _vds_init whose arena could not be allocated.                   *)
ZeroedDsp ==
  [setup_arena |-> FALSE, channel_keep |-> {},
   work |-> NoBlock, mdctright |-> NoTail,
   out_begin |-> 0, out_end |-> 0, lW |-> 0, W |-> 0,
   granulepos |-> 0, sequence |-> 0, sample_count |-> 0,
   eofflag |-> FALSE]

-----------------------------------------------------------------------------
(* Mutant: the planes are written before the packet is known to be good.   *)
SynthesisDecodesFirst(v, p, packetno) ==
  LET decoded == [v EXCEPT !.work = [seq |-> packetno, W |-> p.W]]
  IN  IF ~p.decodable
        THEN decoded
        ELSE [decoded EXCEPT !.mdctright =
                [seq |-> v.work.seq, W |-> v.work.W, cut |-> v.W]]

(* vorbis_synthesis: save the tail of the block now in work, cut at the    *)
(* size of the last block accepted, then decode packet p over work.  A     *)
(* packet refused before that point (not audio, mode out of range, or      *)
(* truncated window flags) leaves the state alone.                         *)
Synthesis(v, p, packetno) ==
  IF ~p.decodable
    THEN v
    ELSE [v EXCEPT
            !.mdctright = [seq |-> v.work.seq, W |-> v.work.W, cut |-> v.W],
            !.work = [seq |-> packetno, W |-> p.W]]

-----------------------------------------------------------------------------
(* vorbis_synthesis_blockin, in the order of its parts.                    *)

Unread(v) == v.out_begin > -1 /\ v.out_begin < v.out_end

(* A new block is refused while samples of the previous one are unread.    *)
BlockinAccepts(v) == ~Unread(v)

(* Mutant: half of the previous block instead of a quarter.                *)
SpanOfHalf(bs, v) == bs[v.lW] \div 2 + bs[v.W] \div 4

(* The samples two lapped blocks finish: a quarter of each.                *)
Span(bs, v) == bs[v.lW] \div 4 + bs[v.W] \div 4

(* The readout window is closed before the first block, and inside the lap *)
(* of the last two afterwards.                                             *)
WindowOK(bs, v) ==
  \/ v.out_begin = -1 /\ v.out_end = -1
  \/ /\ 0 <= v.out_begin /\ v.out_begin <= v.out_end
     /\ v.out_end <= Span(bs, v)

(* Mutant: a lost packet goes unnoticed.                                   *)
TurnIgnoringGaps(v, p, packetno) ==
  LET lost == v.sequence = -1
  IN  [v EXCEPT !.lW = v.W,
                !.W = p.W,
                !.sequence = packetno,
                !.granulepos = IF lost THEN -1 ELSE @,
                !.sample_count = IF lost THEN -1 ELSE @]

(* Shift the window flags; a block out of sequence loses the count.        *)
Turn(v, p, packetno) ==
  LET lost == v.sequence = -1 \/ v.sequence + 1 # packetno
  IN  [v EXCEPT !.lW = v.W,
                !.W = p.W,
                !.sequence = packetno,
                !.granulepos = IF lost THEN -1 ELSE @,
                !.sample_count = IF lost THEN -1 ELSE @]

(* Mutant: the first block is readable at once.                            *)
OpenWindowAtOnce(bs, v) ==
  [v EXCEPT !.out_begin = 0, !.out_end = Span(bs, v)]

(* The first block only primes the overlap; every later one is readable.   *)
OpenWindow(bs, v) ==
  [v EXCEPT !.out_begin = 0,
            !.out_end = IF v.out_begin = -1 THEN 0 ELSE Span(bs, v)]

CountSamples(bs, v) ==
  [v EXCEPT !.sample_count = IF @ = -1 THEN 0 ELSE @ + Span(bs, v)]

(* A granule position below zero is a huge unsigned one: nothing to trim.  *)
Excess(count, granulepos) == IF granulepos < 0 THEN 0 ELSE count - granulepos

TrimEnd(v, extra) ==
  [v EXCEPT !.out_end = @ - Lesser(extra, v.out_end - v.out_begin)]

(* Mutant: the start is not held back to the end of the window.            *)
TrimBeginPastEnd(v, extra) == [v EXCEPT !.out_begin = @ + extra]

TrimBegin(v, extra) ==
  [v EXCEPT !.out_begin = Lesser(@ + extra, v.out_end)]

(* No position yet: take the packet's, and on a short page drop what goes  *)
(* beyond it, from the end if the stream ends here, else from the start.   *)
TrackFirstGranule(v, p) ==
  LET extra == Excess(v.sample_count, p.granulepos)
      here  == [v EXCEPT !.granulepos = p.granulepos]
  IN  IF p.granulepos = -1 THEN v
      ELSE IF v.sample_count <= p.granulepos THEN here
      ELSE IF p.eos THEN TrimEnd(here, extra)
      ELSE TrimBegin(here, extra)

(* Mutant: the padding of the last packet is played.                       *)
TrackNextGranuleUntrimmed(bs, v, p) ==
  [v EXCEPT !.granulepos = IF p.granulepos = -1
                             THEN @ + Span(bs, v) ELSE p.granulepos]

(* A position is known: advance it, believe the packet's if it has one,    *)
(* and on the last packet drop the padding that goes beyond it.            *)
TrackNextGranule(bs, v, p) ==
  LET reached == v.granulepos + Span(bs, v)
      here    == [v EXCEPT !.granulepos = IF p.granulepos = -1
                                            THEN reached ELSE p.granulepos]
  IN  IF p.granulepos # -1 /\ reached > p.granulepos /\ p.eos
        THEN TrimEnd(here, Excess(reached, p.granulepos))
        ELSE here

TrackGranule(bs, v, p) ==
  IF v.granulepos = -1
    THEN TrackFirstGranule(v, p)
    ELSE TrackNextGranule(bs, v, p)

Blockin(bs, v, p, packetno) ==
  LET opened  == OpenWindow(bs, Turn(v, p, packetno))
      tracked == TrackGranule(bs, CountSamples(bs, opened), p)
  IN  [tracked EXCEPT !.eofflag = @ \/ p.eos]

-----------------------------------------------------------------------------
(* The readout: how much is pending, what it is made of, and taking it.    *)

PcmAvail(v) == IF Unread(v) THEN v.out_end - v.out_begin ELSE 0

(* What lapout reconstructs: samples from..to of the lap of the tail with  *)
(* the block now in work.                                                  *)
Readout(v) ==
  [prev |-> v.mdctright.seq, cur |-> v.work.seq,
   from |-> v.out_begin, to |-> v.out_end]

(* vorbis_synthesis_lapout refuses a channel that was not kept.            *)
LapoutAccepts(v, ch) == ch \in v.channel_keep

(* The strips of at most 64 samples the wrapper drains the window in, each *)
(* followed by a vorbis_synthesis_read, add up to the whole window.        *)
Drain(v) == [v EXCEPT !.out_begin = @ + PcmAvail(v)]
=============================================================================
