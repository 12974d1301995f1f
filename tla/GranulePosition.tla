-------------------------- MODULE GranulePosition --------------------------
(***************************************************************************)
(* vorbis_synthesis_blockin fed with the blocks of an encoder that numbers *)
(* its samples honestly: does the PCM that comes out agree, sample for     *)
(* sample, with the granule positions the pages carry?                     *)
(*                                                                         *)
(* The encoder's side is an assumption about the input, not code: a page   *)
(* carries the position of the last block that ends in it, the first page  *)
(* may claim fewer samples than its blocks make (the start of the stream   *)
(* was cut), and so may the last (its padding).  Packets get lost between  *)
(* the two: Tremor refuses a corrupt one, and the wrapper counts it.       *)
(***************************************************************************)
EXTENDS TremorDsp

CONSTANTS
  BlockSizes,  \* codec_setup_info.blocksizes
  MaxSkip,     \* samples cut from the start of the stream, at most
  MaxBlocks,   \* bound on the blocks of the stream
  MaxLost      \* bound on the packets that are lost

ASSUME EncoderAssumption ==
  /\ BlockSizesOK(BlockSizes)
  /\ MaxSkip \in Nat /\ MaxBlocks \in Nat /\ MaxLost \in Nat

VARIABLES
  skip,      \* samples cut from the start
  flag,      \* window flag of the encoder's last block, -1 before the first
  made,      \* samples the encoder's blocks have made
  marked,    \* position of the last page, -1 before the first
  packetno,  \* number of the next packet
  lost,      \* packets lost so far
  ended,     \* the last packet has been sent
  vd,        \* Tremor's state
  played     \* samples read out

vars == <<skip, flag, made, marked, packetno, lost, ended, vd, played>>

Init ==
  /\ skip \in 0..MaxSkip
  /\ flag = -1 /\ made = 0 /\ marked = -1
  /\ packetno = 3 /\ lost = 0 /\ ended = FALSE
  /\ vd = StartedDsp({0}) /\ played = 0

(* The samples the encoder's next block makes, of flag W.                  *)
Makes(W) ==
  IF flag = -1 THEN 0 ELSE BlockSizes[flag] \div 4 + BlockSizes[W] \div 4

(* The positions a page that ends with that block may carry, or -1 if none *)
(* does.  The cut of the start fits into the last block of the first page, *)
(* the padding into the last block of the last; a stream of one page has   *)
(* no cut, for its position says where it ends.                            *)
Marks(W, eos) ==
  LET here  == made + Makes(W) - skip
      first == marked = -1
  IN  IF eos
        THEN {g \in Nat \cap ((here - Makes(W))..here) :
                g >= marked /\ (first => skip = 0)}
        ELSE {-1} \cup {g \in Nat \cap {here} : first => skip <= Makes(W)}

(* handle_audio_packet and output_pcm on one block, into a big enough      *)
(* buffer: everything readable is read out at once.                        *)
Play(p) ==
  \E v \in {Blockin(BlockSizes, Synthesis(vd, p, packetno), p, packetno)} :
    /\ vd' = Drain(v)
    /\ played' = played + PcmAvail(v)

Send(W, g, eos) ==
  /\ ~ended
  /\ packetno < MaxBlocks + 3
  /\ g \in Marks(W, eos)
  /\ flag' = W /\ made' = made + Makes(W)
  /\ marked' = IF g = -1 THEN marked ELSE g
  /\ packetno' = packetno + 1
  /\ ended' = eos
  /\ Play([decodable |-> TRUE, W |-> W, granulepos |-> g, eos |-> eos])
  /\ UNCHANGED <<skip, lost>>

(* The packet arrives corrupt: it is counted and otherwise ignored.        *)
Lose(W, g) ==
  /\ ~ended
  /\ packetno < MaxBlocks + 3 /\ lost < MaxLost
  /\ g \in Marks(W, FALSE)
  /\ flag' = W /\ made' = made + Makes(W)
  /\ marked' = IF g = -1 THEN marked ELSE g
  /\ packetno' = packetno + 1 /\ lost' = lost + 1
  /\ vd' = Synthesis(vd, [decodable |-> FALSE], packetno)
  /\ UNCHANGED <<skip, ended, played>>

Positions == -1..(MaxBlocks * BlockSizes[1])

Next ==
  \/ \E W \in Flags, g \in Positions, eos \in BOOLEAN : Send(W, g, eos)
  \/ \E W \in Flags, g \in Positions : Lose(W, g)

Spec == Init /\ [][Next]_vars

-----------------------------------------------------------------------------
(* As long as no packet was lost, the samples read out are those the pages *)
(* count, from the first page on and to the last sample of the stream,     *)
(* however the blocks fall into pages.                                     *)
PlayedAsMarked ==
  lost = 0 /\ vd.granulepos # -1 => played = vd.granulepos

(* Whenever Tremor believes it knows the position of the block it decoded  *)
(* last, it is the encoder's: a lost packet costs it the count until the   *)
(* next page, and does not leave it wrong.                                 *)
PositionIsTrue ==
  vd.granulepos # -1 /\ vd.sequence = packetno - 1 =>
    IF ended THEN vd.granulepos = marked ELSE vd.granulepos = made - skip

(* Even with packets lost, no more samples are read out than were made.    *)
NeverPlaysMore == played <= made

=============================================================================
