---------------------------- MODULE StripReadout ----------------------------
(***************************************************************************)
(* output_pcm's loop over one frame: strips of at most LAPOUT_CHUNK        *)
(* samples, each put together by vorbis_synthesis_lapout out of the two    *)
(* blocks and then taken by vorbis_synthesis_read.  A strip may begin and  *)
(* end anywhere in the four regions of the lap, the frame may be trimmed   *)
(* at both ends, and a strip may be put together more than once (once per  *)
(* output channel, and again after a buffer that was too small).           *)
(***************************************************************************)
EXTENDS MdctLap

CONSTANTS
  BlockPairs,    \* pairs of block sizes a stream may have
  LAPOUT_CHUNK   \* samples of one strip (64 in the code)

ASSUME StripAssumption ==
  /\ \A bs \in BlockPairs : BlockSizesOK(bs)
  /\ LAPOUT_CHUNK \in Nat \ {0}

VARIABLES
  bs, lW, W,            \* block sizes; window flags of the two blocks
  first,                \* out_begin when the frame was opened
  out_begin, out_end,   \* what is left of the frame
  pcm                   \* the samples put out

stripVars == <<bs, lW, W, first, out_begin, out_end, pcm>>

StripInit ==
  /\ bs \in BlockPairs /\ lW \in Flags /\ W \in Flags
  /\ out_end \in 0..(bs[lW] \div 4 + bs[W] \div 4)
  /\ first \in 0..out_end
  /\ out_begin = first
  /\ pcm = [k \in Upto(0) |-> None]

(* Mutant: every strip is a whole one.                                     *)
ChunkWhole == LAPOUT_CHUNK

(* The length of the next strip: the last one may be shorter.              *)
Chunk == Lesser(out_end - out_begin, LAPOUT_CHUNK)

Strip ==
  /\ out_begin < out_end
  /\ LET done  == out_begin - first
         strip == UnrollLap(bs, lW, W, out_begin, out_begin + Chunk)
     IN  pcm' = [k \in Upto(done + Chunk) |->
                   IF k < done THEN pcm[k] ELSE strip[k - done]]
  /\ out_begin' = out_begin + Chunk
  /\ UNCHANGED <<bs, lW, W, first, out_end>>

StripSpec == StripInit /\ [][Strip]_stripVars

-----------------------------------------------------------------------------
(* Wherever the strips are cut and the frame is trimmed, every sample of   *)
(* the frame is the lap of the two blocks at its place, with the right     *)
(* factors, and comes out once and in order.                               *)
PcmIsLapped ==
  /\ out_begin <= out_end
  /\ pcm = [k \in Upto(out_begin - first) |-> Lapped(bs, lW, W, first + k)]

(* No strip reads outside the tail, the half transform or the window.      *)
PcmReadsInside ==
  \A k \in DOMAIN pcm : ReadsInside(bs, lW, W, pcm[k])
=============================================================================
