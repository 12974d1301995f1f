-------------------------- MODULE OggVorbisDecoder --------------------------
(***************************************************************************)
(* OggVorbisDecoder (src/ogg_vorbis_decoder.cpp): the streaming wrapper    *)
(* that takes packets from the Ogg demuxer, walks the three Vorbis headers *)
(* and drives Tremor, over every sequence of decode() and reset() calls.   *)
(*                                                                         *)
(* A call runs to completion on the caller's thread, so one call is one    *)
(* step.  What the demuxer makes of the input bytes, what a packet holds,  *)
(* and which allocations succeed are choices of the environment.           *)
(***************************************************************************)
EXTENDS SpeakerLayout, TremorDsp, FiniteSets

CONSTANTS
  Formats,          \* identification headers: [channels, blocksizes]
  ChannelRequests,  \* arguments of the downmix constructor
  RoleSelections,   \* arguments of the channel-selecting constructor
  Granules,         \* granule positions a packet may carry
  OutputSizes,      \* bytes of output buffer a caller may offer
  MagicLen,         \* bytes of packet type and "vorbis" (7 in the code)
  MaxPackets,       \* bound on the packets of one stream
  Obedience         \* TRUE: callers that reset() after any other error

ASSUME FormatsAssumption ==
  /\ Formats \subseteq [channels : 1..255, blocksizes : [Flags -> Nat]]
  /\ \A f \in Formats : BlockSizesOK(f.blocksizes)

ASSUME CallerAssumption ==
  /\ ChannelRequests \subseteq 0..255
  /\ RoleSelections \subseteq Seq(SpeakerRole)
  /\ Granules \subseteq Int /\ -1 \in Granules
  /\ OutputSizes \subseteq Nat
  /\ MagicLen \in Nat \ {0} /\ MaxPackets \in Nat
  /\ Obedience \subseteq BOOLEAN

VARIABLES
  sel, requested_channels,               \* configuration, kept by reset()
  obedient,                              \* the caller resets after errors
  state, comment_magic_len, comment_magic_buf,
  pcm_format, packet_count, required_output_bytes,
  received_eos, has_pending_pcm,
  ogg_demuxer, tremor,                   \* lazily allocated; init flags
  vi, vd, vb,                            \* Tremor's three structures
  heap,                                  \* live allocations of each kind
  ret                                    \* what the last call returned

config  == <<sel, requested_channels, obedient>>
comment == <<comment_magic_len, comment_magic_buf>>
audio   == <<required_output_bytes, received_eos, has_pending_pcm>>
lib     == <<vi, vd, vb, heap>>
vars    == <<config, state, comment, pcm_format, packet_count, audio,
             ogg_demuxer, tremor, lib, ret>>

-----------------------------------------------------------------------------
(* Results.                                                                *)

Codes == {"SUCCESS", "STREAM_INFO_READY", "NEED_MORE_DATA", "END_OF_STREAM",
          "OUTPUT_BUFFER_TOO_SMALL", "INPUT_INVALID", "ALLOCATION_FAILED",
          "DECODE_FAILED"}

(* Every error but OUTPUT_BUFFER_TOO_SMALL calls for a reset().            *)
Fatal == {"INPUT_INVALID", "ALLOCATION_FAILED", "DECODE_FAILED"}

NoFrame == [prev |-> -1, cur |-> -1, from |-> 0, to |-> 0]

(* ret.offered is the buffer size of a call that wrote PCM into its buffer *)
(* or found it too small; ret.frame is the PCM written.                    *)
Outcome(code, bytes, offered, frame) ==
  [code |-> code, bytes_written |-> bytes, offered |-> offered,
   frame |-> frame]

Return(code) == ret' = Outcome(code, 0, 0, NoFrame)

-----------------------------------------------------------------------------
(* PcmFormat and the sizes derived from it.                                *)

NoFormat == [sample_rate |-> FALSE, max_block_size |-> 0, num_channels |-> 0]

bytes_per_sample == 2

max_output_bytes ==
  (pcm_format.max_block_size \div 2) * pcm_format.num_channels
    * bytes_per_sample

(* The output bytes of the frame pending in v.                             *)
FrameBytes(v) == PcmAvail(v) * pcm_format.num_channels * bytes_per_sample

-----------------------------------------------------------------------------
(* vorbis_info.  rate stands for vi.rate # 0; codec_setup for the setup    *)
(* struct and every table that hangs off it.                               *)

ZeroedInfo ==
  [codec_setup |-> FALSE, rate |-> FALSE, comment_header_seen |-> FALSE,
   books |-> FALSE, channels |-> 0, blocksizes |-> [w \in Flags |-> 0]]

One(b) == IF b THEN 1 ELSE 0

NoFlags == [allocated |-> FALSE, info_initialized |-> FALSE,
            dsp_initialized |-> FALSE, block_initialized |-> FALSE]

-----------------------------------------------------------------------------
(* The constructors normalise their arguments and allocate nothing.        *)

Init ==
  /\ \/ /\ sel = <<>>
        /\ \E c \in ChannelRequests :
             requested_channels = IF c <= 2 THEN c ELSE 0
     \/ /\ requested_channels = 0
        /\ \E roles \in RoleSelections :
             sel = IF Len(roles) \in 1..8 THEN roles ELSE <<>>
  /\ obedient \in Obedience
  /\ state = "EXPECT_IDENTIFICATION"
  /\ comment_magic_len = 0 /\ comment_magic_buf = TRUE
  /\ pcm_format = NoFormat /\ packet_count = 0
  /\ required_output_bytes = 0
  /\ received_eos = FALSE /\ has_pending_pcm = FALSE
  /\ ogg_demuxer = FALSE /\ tremor = NoFlags
  /\ vi = ZeroedInfo /\ vd = ZeroedDsp /\ vb = FALSE
  /\ heap = [codec_setup |-> 0, setup_arena |-> 0, block_arena |-> 0]
  /\ ret = Outcome("NEED_MORE_DATA", 0, 0, NoFrame)

-----------------------------------------------------------------------------
(* Mutant: the end-of-stream flag survives.                                *)
ResetKeepsEos ==
  /\ state' = "EXPECT_IDENTIFICATION"
  /\ vi' = ZeroedInfo /\ vd' = ZeroedDsp /\ vb' = FALSE
  /\ heap' = [k \in DOMAIN heap |-> 0]
  /\ tremor' = [NoFlags EXCEPT !.allocated = tremor.allocated]
  /\ comment_magic_len' = 0 /\ pcm_format' = NoFormat
  /\ packet_count' = 0 /\ required_output_bytes' = 0
  /\ has_pending_pcm' = FALSE
  /\ Return("NEED_MORE_DATA")
  /\ UNCHANGED <<config, comment_magic_buf, received_eos, ogg_demuxer>>

(* reset(): clear Tremor's structures in order, each if its flag is set,   *)
(* then every field but the configuration.                                 *)

Reset ==
  LET block == tremor.block_initialized
      dsp   == tremor.dsp_initialized
      info  == tremor.info_initialized
  IN  /\ vb' = (vb /\ ~block)
      /\ vd' = IF dsp THEN ZeroedDsp ELSE vd
      /\ vi' = IF info THEN ZeroedInfo ELSE vi
      /\ heap' = [block_arena |-> heap.block_arena - One(block /\ vb),
                  setup_arena |-> heap.setup_arena - One(dsp /\ vd.setup_arena),
                  codec_setup |-> heap.codec_setup - One(info /\ vi.codec_setup)]
      /\ tremor' = [NoFlags EXCEPT !.allocated = tremor.allocated]
      /\ state' = "EXPECT_IDENTIFICATION"
      /\ comment_magic_len' = 0
      /\ pcm_format' = NoFormat
      /\ packet_count' = 0
      /\ required_output_bytes' = 0
      /\ received_eos' = FALSE
      /\ has_pending_pcm' = FALSE
      /\ Return("NEED_MORE_DATA")
      /\ UNCHANGED <<config, comment_magic_buf, ogg_demuxer>>

-----------------------------------------------------------------------------
(* decode(), down to the point where it asks the demuxer for a packet.     *)

MayCall == obedient => ret.code \notin Fatal

(* The sizes a caller offers: some of its own, what the last packet needs, *)
(* and what is enough for any packet.  The headers do without a buffer.    *)
Offers ==
  IF state = "DECODING"
    THEN OutputSizes \cup {required_output_bytes, max_output_bytes}
    ELSE {0}

(* A null input is always refused, a null output once decoding.            *)
DecodeNullPointer ==
  /\ MayCall
  /\ Return("INPUT_INVALID")
  /\ UNCHANGED <<config, state, comment, pcm_format, packet_count, audio,
                 ogg_demuxer, tremor, lib>>

DecodeEmptyBuffer(size) ==
  /\ MayCall
  /\ state = "DECODING" /\ size = 0
  /\ Return("OUTPUT_BUFFER_TOO_SMALL")
  /\ UNCHANGED <<config, state, comment, pcm_format, packet_count, audio,
                 ogg_demuxer, tremor, lib>>

(* The parameters are accepted but the demuxer, or Tremor's state after    *)
(* it, cannot be allocated.                                                *)
DecodeOutOfMemory(size) ==
  /\ MayCall
  /\ state = "DECODING" => size > 0
  /\ ~ogg_demuxer \/ ~tremor.allocated
  /\ \/ ~ogg_demuxer /\ UNCHANGED ogg_demuxer
     \/ ~tremor.allocated /\ ogg_demuxer' = TRUE
  /\ Return("ALLOCATION_FAILED")
  /\ UNCHANGED <<config, state, comment, pcm_format, packet_count, audio,
                 tremor, lib>>

(* The parameters are accepted and the two lazy allocations are made, if   *)
(* they were not already.  flags is the TremorState to carry on with.      *)
flags == [tremor EXCEPT !.allocated = TRUE]

Entered(size) ==
  /\ MayCall
  /\ state = "DECODING" => size > 0
  /\ ogg_demuxer' = TRUE

-----------------------------------------------------------------------------
(* output_pcm on the synthesis state v, into a buffer of size bytes.       *)

(* Nothing to deliver: the first block of a stream, or all trimmed away.   *)
OutputNothing(v) ==
  /\ PcmAvail(v) = 0
  /\ vd' = v
  /\ packet_count' = packet_count + 1
  /\ Return("NEED_MORE_DATA")
  /\ UNCHANGED <<required_output_bytes, has_pending_pcm>>

(* Mutant: the packet is counted although its samples are still here.      *)
OutputTooSmallCounts(v, size) ==
  /\ PcmAvail(v) > 0
  /\ size < FrameBytes(v)
  /\ vd' = v
  /\ required_output_bytes' = FrameBytes(v)
  /\ has_pending_pcm' = TRUE
  /\ packet_count' = packet_count + 1
  /\ ret' = Outcome("OUTPUT_BUFFER_TOO_SMALL", 0, size, NoFrame)

(* Mutant: the caller is not told what the frame needs.                    *)
OutputTooSmallUnannounced(v, size) ==
  /\ PcmAvail(v) > 0
  /\ size < FrameBytes(v)
  /\ vd' = v
  /\ has_pending_pcm' = TRUE
  /\ ret' = Outcome("OUTPUT_BUFFER_TOO_SMALL", 0, size, NoFrame)
  /\ UNCHANGED <<packet_count, required_output_bytes>>

(* The samples stay in the synthesis state for the next call.              *)
OutputTooSmall(v, size) ==
  /\ PcmAvail(v) > 0
  /\ size < FrameBytes(v)
  /\ vd' = v
  /\ required_output_bytes' = FrameBytes(v)
  /\ has_pending_pcm' = TRUE
  /\ ret' = Outcome("OUTPUT_BUFFER_TOO_SMALL", 0, size, NoFrame)
  /\ UNCHANGED packet_count

(* Mutant: the frame goes out but stays pending.                           *)
OutputFrameStaysPending(v, size) ==
  /\ PcmAvail(v) > 0
  /\ size >= FrameBytes(v)
  /\ vd' = Drain(v)
  /\ required_output_bytes' = FrameBytes(v)
  /\ packet_count' = packet_count + 1
  /\ ret' = Outcome("SUCCESS", FrameBytes(v), size, Readout(v))
  /\ UNCHANGED has_pending_pcm

(* Mutant: samples are counted where bytes are meant.                      *)
OutputFrameInSamples(v, size) ==
  /\ PcmAvail(v) > 0
  /\ size >= FrameBytes(v)
  /\ vd' = Drain(v)
  /\ required_output_bytes' = FrameBytes(v)
  /\ has_pending_pcm' = FALSE
  /\ packet_count' = packet_count + 1
  /\ ret' = Outcome("SUCCESS", PcmAvail(v) * pcm_format.num_channels, size,
                    Readout(v))

OutputFrame(v, size) ==
  /\ PcmAvail(v) > 0
  /\ size >= FrameBytes(v)
  /\ vd' = Drain(v)
  /\ required_output_bytes' = FrameBytes(v)
  /\ has_pending_pcm' = FALSE
  /\ packet_count' = packet_count + 1
  /\ ret' = Outcome("SUCCESS", FrameBytes(v), size, Readout(v))

OutputPcm(v, size) ==
  OutputNothing(v) \/ OutputTooSmall(v, size) \/ OutputFrame(v, size)

(* A call after TOO_SMALL delivers the frame held back, and takes no input.*)
DecodePending(size) ==
  /\ Entered(size) /\ tremor' = flags
  /\ has_pending_pcm
  /\ OutputPcm(vd, size)
  /\ UNCHANGED <<config, state, comment, pcm_format, received_eos,
                 vi, vb, heap>>

(* Mutant: the end is reported before a frame held back is looked for.     *)
DecodeEndOfStreamFirst(size) ==
  /\ Entered(size) /\ tremor' = flags
  /\ received_eos
  /\ Return("END_OF_STREAM")
  /\ UNCHANGED <<config, state, comment, pcm_format, packet_count, audio,
                 lib>>

(* The stream is over.                                                     *)
DecodeEndOfStream(size) ==
  /\ Entered(size) /\ tremor' = flags
  /\ ~has_pending_pcm /\ received_eos
  /\ Return("END_OF_STREAM")
  /\ UNCHANGED <<config, state, comment, pcm_format, packet_count, audio,
                 lib>>

(* Mutant: a new packet is taken although a frame is held back.            *)
DemuxingOverPending(size) == Entered(size) /\ ~received_eos

(* Mutant: packets after the last one are taken.                           *)
DemuxingPastEnd(size) == Entered(size) /\ ~has_pending_pcm

(* The call gets as far as the demuxer.                                    *)
Demuxing(size) == Entered(size) /\ ~has_pending_pcm /\ ~received_eos

-----------------------------------------------------------------------------
(* The demuxer has no packet to give.                                      *)

InComment == state \in {"EXPECT_COMMENT", "STREAMING_COMMENT"}

DemuxNeedsMore(size) ==
  /\ Demuxing(size) /\ tremor' = flags
  /\ Return("NEED_MORE_DATA")
  /\ UNCHANGED <<config, state, comment, pcm_format, packet_count, audio,
                 lib>>

DemuxFails(size) ==
  /\ Demuxing(size) /\ tremor' = flags
  /\ \E code \in {"ALLOCATION_FAILED", "INPUT_INVALID"} : Return(code)
  /\ UNCHANGED <<config, state, comment, pcm_format, packet_count, audio,
                 lib>>

(* A packet over the demuxer's 128 KB cap is dropped: one lost frame, or a *)
(* header the stream cannot do without.                                    *)
DemuxSkipsPacket(size) ==
  /\ Demuxing(size) /\ tremor' = flags
  /\ ~InComment
  /\ Return(IF state = "DECODING" THEN "NEED_MORE_DATA" ELSE "INPUT_INVALID")
  /\ UNCHANGED <<config, state, comment, pcm_format, packet_count, audio,
                 lib>>

-----------------------------------------------------------------------------
(* handle_identification_packet.  well_formed: is_vorbis_identification    *)
(* and parse_vorbis_identification accept the packet.                      *)

NoPosition == {0, -1}

IdentificationInvalid(size) ==
  /\ Demuxing(size) /\ tremor' = flags
  /\ state = "EXPECT_IDENTIFICATION"
  /\ \E is_bos, well_formed \in BOOLEAN, granulepos \in Granules :
       ~is_bos \/ ~well_formed \/ granulepos \notin NoPosition
  /\ Return("INPUT_INVALID")
  /\ UNCHANGED <<config, state, comment, pcm_format, packet_count, audio,
                 lib>>

(* The packet is acceptable: vorbis_info_init zeroes vi and asks for a     *)
(* codec_setup, which may be refused.                                      *)
IdentificationOutOfMemory(size) ==
  /\ Demuxing(size) /\ tremor' = [flags EXCEPT !.info_initialized = TRUE]
  /\ state = "EXPECT_IDENTIFICATION"
  /\ vi' = ZeroedInfo
  /\ Return("ALLOCATION_FAILED")
  /\ UNCHANGED <<config, state, comment, pcm_format, packet_count, audio,
                 vd, vb, heap>>

(* Tremor refuses what the wrapper's own parser let through (a rate that   *)
(* is negative in a 32-bit long) and clears vi again.                      *)
IdentificationRefused(size) ==
  /\ Demuxing(size) /\ tremor' = [flags EXCEPT !.info_initialized = TRUE]
  /\ state = "EXPECT_IDENTIFICATION"
  /\ vi' = ZeroedInfo
  /\ Return("INPUT_INVALID")
  /\ UNCHANGED <<config, state, comment, pcm_format, packet_count, audio,
                 vd, vb, heap>>

IdentificationAccepted(f, size) ==
  /\ Demuxing(size) /\ tremor' = [flags EXCEPT !.info_initialized = TRUE]
  /\ state = "EXPECT_IDENTIFICATION"
  /\ packet_count < MaxPackets
  /\ vi' = [ZeroedInfo EXCEPT !.codec_setup = TRUE,
                              !.rate = TRUE,
                              !.channels = f.channels,
                              !.blocksizes = f.blocksizes]
  /\ pcm_format' =
       [sample_rate |-> TRUE,
        max_block_size |-> f.blocksizes[1],
        num_channels |-> OutputChannels(sel, requested_channels, f.channels)]
  /\ heap' = [heap EXCEPT !.codec_setup = @ + 1]
  /\ packet_count' = packet_count + 1
  /\ state' = "EXPECT_COMMENT"
  /\ Return("NEED_MORE_DATA")
  /\ UNCHANGED <<config, comment, audio, vd, vb>>

-----------------------------------------------------------------------------
(* stream_vorbis_comment on one piece of the comment packet.  matches: the *)
(* bytes of the piece that fall into the magic are the right ones.         *)

Chunks == [length : 0..MagicLen, matches : BOOLEAN, last_on_page : BOOLEAN,
           granulepos : Granules, end_of_packet : BOOLEAN]

CommentHeaderin == vi.rate /\ ~vi.comment_header_seen

MagicHave == IF state = "EXPECT_COMMENT" THEN 0 ELSE comment_magic_len

(* Mutant: a piece is copied whole, beyond the end of the buffer.          *)
MagicLenUnbounded(c) == MagicHave + c.length

(* The first MagicLen bytes are gathered, over as many pieces as it takes. *)
MagicLenWith(c) == Lesser(MagicHave + c.length, MagicLen)

MagicBufWith(c) ==
  /\ MagicHave > 0 => comment_magic_buf
  /\ MagicLenWith(c) > MagicHave => c.matches

(* Mutant: a comment packet may end before its magic is complete.          *)
CommentInvalidUnlessShort(c) ==
  \/ MagicHave < MagicLen /\ MagicLenWith(c) = MagicLen /\ ~MagicBufWith(c)
  \/ c.last_on_page /\ c.granulepos \notin NoPosition

CommentInvalid(c) ==
  \/ MagicHave < MagicLen /\ MagicLenWith(c) = MagicLen /\ ~MagicBufWith(c)
  \/ c.last_on_page /\ c.granulepos \notin NoPosition
  \/ c.end_of_packet /\ MagicLenWith(c) < MagicLen

(* The piece is invalid: the magic so far is kept, and the state with it.  *)
CommentRejected(c) ==
  /\ CommentInvalid(c)
  /\ state' = "STREAMING_COMMENT"
  /\ Return("INPUT_INVALID")
  /\ UNCHANGED <<packet_count, vi>>

CommentContinues(c) ==
  /\ ~CommentInvalid(c) /\ ~c.end_of_packet
  /\ state' = "STREAMING_COMMENT"
  /\ Return("NEED_MORE_DATA")
  /\ UNCHANGED <<packet_count, vi>>

(* The packet is complete: Tremor is fed an empty comment packet instead.  *)
CommentCompletes(c) ==
  /\ ~CommentInvalid(c) /\ c.end_of_packet
  /\ packet_count < MaxPackets
  /\ IF CommentHeaderin
       THEN /\ vi' = [vi EXCEPT !.comment_header_seen = TRUE]
            /\ packet_count' = packet_count + 1
            /\ state' = "EXPECT_SETUP"
            /\ Return("NEED_MORE_DATA")
       ELSE /\ state' = "STREAMING_COMMENT"
            /\ Return("INPUT_INVALID")
            /\ UNCHANGED <<packet_count, vi>>

StreamComment(c, size) ==
  /\ Demuxing(size) /\ tremor' = flags
  /\ InComment
  /\ comment_magic_len' = MagicLenWith(c)
  /\ comment_magic_buf' = MagicBufWith(c)
  /\ CommentRejected(c) \/ CommentContinues(c) \/ CommentCompletes(c)
  /\ UNCHANGED <<config, pcm_format, audio, vd, vb, heap>>

-----------------------------------------------------------------------------
(* handle_setup_packet.                                                    *)

Setup(size) == Demuxing(size) /\ state = "EXPECT_SETUP"

(* vorbis_synthesis_headerin takes a setup header only after the other two *)
(* and only once.                                                          *)
SetupHeaderin ==
  vi.rate /\ vi.comment_header_seen /\ vi.codec_setup /\ ~vi.books

(* Wrong magic, a granule position, or out of order for Tremor.            *)
SetupInvalid(size) ==
  /\ Setup(size) /\ tremor' = flags
  /\ \E well_formed \in BOOLEAN, granulepos \in Granules :
       ~well_formed \/ granulepos \notin NoPosition \/ ~SetupHeaderin
  /\ Return("INPUT_INVALID")
  /\ UNCHANGED <<config, state, comment, pcm_format, packet_count, audio,
                 lib>>

(* Unpacking fails, for want of memory too: Tremor clears vi, and with it  *)
(* everything unpacked so far.                                             *)
SetupUnpackFails(size) ==
  /\ Setup(size) /\ tremor' = flags
  /\ SetupHeaderin
  /\ vi' = ZeroedInfo
  /\ heap' = [heap EXCEPT !.codec_setup = @ - 1]
  /\ Return("INPUT_INVALID")
  /\ UNCHANGED <<config, state, comment, pcm_format, packet_count, audio,
                 vd, vb>>

SetupDspOutOfMemory(size) ==
  /\ Setup(size) /\ tremor' = flags
  /\ SetupHeaderin
  /\ vi' = [vi EXCEPT !.books = TRUE]
  /\ vd' = ZeroedDsp
  /\ Return("ALLOCATION_FAILED")
  /\ UNCHANGED <<config, state, comment, pcm_format, packet_count, audio,
                 vb, heap>>

(* Mutant: both flags are set only when everything has been allocated.     *)
SetupBlockOutOfMemoryUnflagged(size) ==
  /\ Setup(size) /\ tremor' = flags
  /\ SetupHeaderin
  /\ vi' = [vi EXCEPT !.books = TRUE]
  /\ vd' = StartedDsp(KeepMask(sel, vi.channels))
  /\ vb' = FALSE
  /\ heap' = [heap EXCEPT !.setup_arena = @ + 1]
  /\ Return("ALLOCATION_FAILED")
  /\ UNCHANGED <<config, state, comment, pcm_format, packet_count, audio>>

SetupBlockOutOfMemory(size) ==
  /\ Setup(size) /\ tremor' = [flags EXCEPT !.dsp_initialized = TRUE]
  /\ SetupHeaderin
  /\ vi' = [vi EXCEPT !.books = TRUE]
  /\ vd' = StartedDsp(KeepMask(sel, vi.channels))
  /\ vb' = FALSE
  /\ heap' = [heap EXCEPT !.setup_arena = @ + 1]
  /\ Return("ALLOCATION_FAILED")
  /\ UNCHANGED <<config, state, comment, pcm_format, packet_count, audio>>

SetupAccepted(size) ==
  /\ Setup(size) /\ tremor' = [flags EXCEPT !.dsp_initialized = TRUE,
                                      !.block_initialized = TRUE]
  /\ SetupHeaderin
  /\ packet_count < MaxPackets
  /\ vi' = [vi EXCEPT !.books = TRUE]
  /\ vd' = StartedDsp(KeepMask(sel, vi.channels))
  /\ vb' = TRUE
  /\ heap' = [heap EXCEPT !.setup_arena = @ + 1, !.block_arena = @ + 1]
  /\ packet_count' = packet_count + 1
  /\ state' = "DECODING"
  /\ Return("STREAM_INFO_READY")
  /\ UNCHANGED <<config, comment, pcm_format, audio>>

-----------------------------------------------------------------------------
(* handle_audio_packet.  decodable: vorbis_synthesis reads an audio packet *)
(* with a mode of the stream and whole window flags; W is that mode's.     *)

AudioPackets == [decodable : {TRUE}, W : Flags, granulepos : Granules,
                 eos : BOOLEAN]

BadPacket(eos) ==
  [decodable |-> FALSE, W |-> 0, granulepos |-> -1, eos |-> eos]

Audio(size) == Demuxing(size) /\ state = "DECODING" /\ tremor' = flags

(* A packet of no bytes is an error, and may still be the last one.        *)
AudioEmpty(eos, size) ==
  /\ Audio(size)
  /\ received_eos' = (received_eos \/ eos)
  /\ Return("INPUT_INVALID")
  /\ UNCHANGED <<config, state, comment, pcm_format, packet_count,
                 required_output_bytes, has_pending_pcm, lib>>

(* Mutant: the end is not seen on a packet that is skipped.                *)
AudioSkippedForgetsEos(eos, size) ==
  /\ Audio(size)
  /\ packet_count < MaxPackets
  /\ vd' = Synthesis(vd, BadPacket(eos), packet_count)
  /\ packet_count' = packet_count + 1
  /\ Return("NEED_MORE_DATA")
  /\ UNCHANGED <<config, state, comment, pcm_format, audio, vi, vb, heap>>

(* A packet Tremor cannot decode is skipped, but counted.                  *)
AudioSkipped(eos, size) ==
  /\ Audio(size)
  /\ packet_count < MaxPackets
  /\ received_eos' = (received_eos \/ eos)
  /\ vd' = Synthesis(vd, BadPacket(eos), packet_count)
  /\ packet_count' = packet_count + 1
  /\ Return("NEED_MORE_DATA")
  /\ UNCHANGED <<config, state, comment, pcm_format, required_output_bytes,
                 has_pending_pcm, vi, vb, heap>>

(* Blockin refuses the block: an error, and the packet is counted.         *)
BlockRefused(v) ==
  /\ vd' = v
  /\ packet_count' = packet_count + 1
  /\ Return("DECODE_FAILED")
  /\ UNCHANGED <<required_output_bytes, has_pending_pcm>>

(* Synthesis, blockin, and the output of whatever it made readable.        *)
AudioDecoded(p, size) ==
  /\ Audio(size)
  /\ packet_count < MaxPackets
  /\ received_eos' = (received_eos \/ p.eos)
  /\ \E made \in {Synthesis(vd, p, packet_count)} :
       IF BlockinAccepts(made)
         THEN \E v \in {Blockin(vi.blocksizes, made, p, packet_count)} :
                OutputPcm(v, size)
         ELSE BlockRefused(made)
  /\ UNCHANGED <<config, state, comment, pcm_format, vi, vb, heap>>

-----------------------------------------------------------------------------

Prologue(size) ==
  DecodeNullPointer \/ DecodeEmptyBuffer(size) \/ DecodeOutOfMemory(size)

Demuxer(size) ==
  DemuxNeedsMore(size) \/ DemuxFails(size) \/ DemuxSkipsPacket(size)

Identification(size) ==
  \/ IdentificationInvalid(size) \/ IdentificationOutOfMemory(size)
  \/ IdentificationRefused(size)
  \/ \E f \in Formats : IdentificationAccepted(f, size)

Comment(size) == \E c \in Chunks : StreamComment(c, size)

SetupHeader(size) ==
  \/ SetupInvalid(size) \/ SetupUnpackFails(size)
  \/ SetupDspOutOfMemory(size) \/ SetupBlockOutOfMemory(size)
  \/ SetupAccepted(size)

AudioPacket(size) ==
  \/ \E eos \in BOOLEAN : AudioEmpty(eos, size) \/ AudioSkipped(eos, size)
  \/ \E p \in AudioPackets : AudioDecoded(p, size)

Decode(size) ==
  \/ Prologue(size) \/ DecodePending(size) \/ DecodeEndOfStream(size)
  \/ Demuxer(size) \/ Identification(size) \/ Comment(size)
  \/ SetupHeader(size) \/ AudioPacket(size)

Next == Reset \/ \E size \in Offers : Decode(size)

Spec == Init /\ [][Next]_vars

-----------------------------------------------------------------------------
(* Type correctness.                                                       *)

InfoType ==
  [codec_setup : BOOLEAN, rate : BOOLEAN, comment_header_seen : BOOLEAN,
   books : BOOLEAN, channels : 0..255, blocksizes : [Flags -> Nat]]

FrameType == [prev : Int, cur : Int, from : Int, to : Int]

OutcomeType ==
  [code : Codes, bytes_written : Nat, offered : Nat, frame : FrameType]

FormatType ==
  [sample_rate : BOOLEAN, max_block_size : Nat, num_channels : 0..255]

TremorType ==
  [allocated : BOOLEAN, info_initialized : BOOLEAN,
   dsp_initialized : BOOLEAN, block_initialized : BOOLEAN]

States == {"EXPECT_IDENTIFICATION", "EXPECT_COMMENT", "STREAMING_COMMENT",
           "EXPECT_SETUP", "DECODING"}

(* Every variable of the decoder keeps its type through every call.        *)
TypeOK ==
  /\ sel \in Seq(SpeakerRole) /\ Len(sel) <= 8
  /\ requested_channels \in 0..2 /\ obedient \in BOOLEAN
  /\ state \in States
  /\ comment_magic_len \in 0..MagicLen /\ comment_magic_buf \in BOOLEAN
  /\ pcm_format \in FormatType
  /\ packet_count \in Nat /\ required_output_bytes \in Nat
  /\ received_eos \in BOOLEAN /\ has_pending_pcm \in BOOLEAN
  /\ ogg_demuxer \in BOOLEAN
  /\ tremor \in TremorType
  /\ vi \in InfoType /\ vd \in DspType /\ vb \in BOOLEAN
  /\ heap \in [codec_setup : Nat, setup_arena : Nat, block_arena : Nat]
  /\ ret \in OutcomeType

-----------------------------------------------------------------------------
(* Safety.                                                                 *)

(* The pending flag of the wrapper and the readout window of Tremor are    *)
(* two records of one fact, kept by different files: PCM is pending        *)
(* exactly when the window holds unread samples.                           *)
PendingIffUnread ==
  IF state = "DECODING"
    THEN has_pending_pcm <=> PcmAvail(vd) > 0
    ELSE ~has_pending_pcm /\ PcmAvail(vd) = 0

(* vorbis_synthesis_blockin never refuses a block, so that decode() never  *)
(* reports DECODE_FAILED: no packet is decoded over unread samples.        *)
DecodeNeverFails == ret.code # "DECODE_FAILED"

(* A buffer of max_output_bytes() is enough for every packet: no trim and  *)
(* no pair of block sizes makes a window longer than half a long block.    *)
SafeBuffer ==
  /\ required_output_bytes <= max_output_bytes
  /\ ret.code = "OUTPUT_BUFFER_TOO_SMALL" => ret.offered < max_output_bytes

(* The readout window lies inside the lap of the last two blocks, or the   *)
(* stream is being primed: lapout never reads outside its planes.          *)
WindowInsideLap ==
  state = "DECODING" => WindowOK(vi.blocksizes, vd)

(* What lapout reads is coherent: work holds the block blockin accepted    *)
(* last, and mdctright the tail of the one accepted before it, cut at the  *)
(* size of the block it came from.  Packets Tremor refused in between do   *)
(* not disturb either.                                                     *)
LapCoherent ==
  PcmAvail(vd) > 0 =>
    /\ vd.work = [seq |-> vd.sequence, W |-> vd.W]
    /\ vd.mdctright.seq \in 0..(vd.sequence - 1)
    /\ vd.mdctright.W = vd.lW /\ vd.mdctright.cut = vd.lW

(* Every packet has a number of its own: the count stays on a packet until *)
(* its samples are out, and has passed it afterwards.  Otherwise Tremor    *)
(* would see a gap where there is none, or none where there is one.        *)
PacketCountTracksSequence ==
  state = "DECODING" =>
    IF has_pending_pcm THEN vd.sequence = packet_count
                       ELSE vd.sequence < packet_count

(* output_pcm asks lapout only for channels that handle_setup_packet had   *)
(* kept: else the strip would be left unwritten and garbage be played.     *)
LapoutNeverRejected ==
  state = "DECODING" =>
    \A ch \in PlanesRead(sel, requested_channels, vi.channels) :
      LapoutAccepts(vd, ch)

(* No allocation is lost or freed twice, whichever stage of the headers    *)
(* failed: what is live is what the next reset() will free.                *)
HeapIsOwned ==
  heap = [codec_setup |-> One(tremor.info_initialized /\ vi.codec_setup),
          setup_arena |-> One(tremor.dsp_initialized /\ vd.setup_arena),
          block_arena |-> One(tremor.block_initialized /\ vb)]

(* Before a stream is identified nothing of an earlier one is left, so     *)
(* that a reset decoder behaves like a new one.                            *)
FreshUntilIdentified ==
  state = "EXPECT_IDENTIFICATION" =>
    /\ vi = ZeroedInfo /\ vd = ZeroedDsp /\ ~vb
    /\ \A k \in DOMAIN heap : heap[k] = 0
    /\ pcm_format = NoFormat /\ packet_count = 0
    /\ required_output_bytes = 0 /\ ~received_eos /\ ~has_pending_pcm

(* Audio is decoded only after three accepted headers: the comment magic   *)
(* has been seen whole, in however many pieces it came, and was right.     *)
(* Only for a caller that resets after an error: one that carries on gets  *)
(* past this check.                                                        *)
HeadersValidated ==
  obedient /\ state \in {"EXPECT_SETUP", "DECODING"} =>
    /\ comment_magic_len = MagicLen /\ comment_magic_buf
    /\ state = "DECODING" => vi.comment_header_seen /\ vi.books

-----------------------------------------------------------------------------
(* Action properties.                                                      *)

HeldOrDelivered ==
  has_pending_pcm =>
    \/ has_pending_pcm' /\ vd' = vd
       /\ required_output_bytes' = required_output_bytes
    \/ /\ ret'.code = "SUCCESS"
       /\ ret'.frame = Readout(vd)
       /\ ret'.bytes_written = required_output_bytes
    \/ state' = "EXPECT_IDENTIFICATION"

(* A frame that did not fit stays exactly as it is, whatever calls follow, *)
(* until one of them delivers it whole, at the size that was announced, or *)
(* the stream is reset.                                                    *)
HeldFrameStays == [][HeldOrDelivered]_vars

NothingAfterTheEnd ==
  /\ ret'.code = "END_OF_STREAM" => PcmAvail(vd) = 0
  /\ received_eos /\ PcmAvail(vd) = 0 /\ received_eos' => vd' = vd

(* END_OF_STREAM is reported with nothing left to deliver, and whatever    *)
(* is called after it but reset(), no packet is decoded any more.          *)
EndOfStreamIsFinal == [][NothingAfterTheEnd]_vars

-----------------------------------------------------------------------------
(* What comments say of the code, and the runs refute.                     *)

(* ogg_vorbis_decoder.h on get_required_output_bytes(): the value is the   *)
(* need of the most recently processed audio packet, updated each time one *)
(* is processed, whether decoding succeeded or failed.                     *)
RequiredBytesFollowPackets ==
  [][state = "DECODING" /\ state' = "DECODING" /\ packet_count' # packet_count
       => required_output_bytes' = ret'.bytes_written]_vars

(* decode() on the guard at its end-of-stream flag: once the last packet   *)
(* has been decoded, completion is reported on every subsequent call (that *)
(* is given its pointers).                                                 *)
EndReportedOnEveryCall ==
  [][ret.code = "END_OF_STREAM" /\ received_eos'
       => ret'.code \in {"END_OF_STREAM", "INPUT_INVALID"}]_vars

-----------------------------------------------------------------------------
(* The decoder delivers PCM as PcmDelivery promises.                       *)

Set(frame) == {frame} \ {NoFrame}

Delivery ==
  INSTANCE PcmDelivery WITH
    limit     <- pcm_format.max_block_size \div 2,
    last      <- IF state = "DECODING" THEN vd.sequence ELSE -1,
    owed      <- IF has_pending_pcm THEN {Readout(vd)} ELSE {},
    ended     <- received_eos,
    delivered <- Set(ret.frame),
    done      <- ret.code = "END_OF_STREAM"

(* Every step of the wrapper and of Tremor below it is one of PcmDelivery: *)
(* frames in order, each whole, once and before the next block is taken,   *)
(* and the end only after the last.                                        *)
DeliversPcm == Delivery!Spec
=============================================================================
