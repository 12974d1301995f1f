----------------------- MODULE OggVorbisDecoderProofs -----------------------
(***************************************************************************)
(* Proofs that the safety properties of OggVorbisDecoder hold for every    *)
(* stream format, channel configuration, granule position, buffer size and *)
(* caller.  They follow from one inductive invariant, IInv.                *)
(***************************************************************************)
EXTENDS StreamPlayer, TremorDspProofs, SequenceTheorems

(* What the identification header left behind, while vi is set.            *)
StreamOK ==
  /\ BlockSizesOK(vi.blocksizes) /\ vi.channels \in 1..255
  /\ pcm_format.max_block_size = vi.blocksizes[1]
  /\ pcm_format.num_channels =
       OutputChannels(sel, requested_channels, vi.channels)

InfoInv ==
  /\ ~tremor.info_initialized => vi = ZeroedInfo
  /\ vi.codec_setup <=> vi.rate
  /\ vi.books => vi.rate
  /\ vi.rate => StreamOK

IdentificationInv ==
  state = "EXPECT_IDENTIFICATION" =>
    /\ vi = ZeroedInfo /\ pcm_format = NoFormat /\ packet_count = 0
    /\ required_output_bytes = 0 /\ ~received_eos

(* The planes, window and counts of a synthesis state between two calls.   *)
DspOK(v) ==
  /\ v.setup_arena /\ v.channel_keep = KeepMask(sel, vi.channels)
  /\ WindowOK(vi.blocksizes, v)
  /\ v.work = [seq |-> v.sequence, W |-> v.W]
  /\ v.mdctright.W = v.lW /\ v.mdctright.cut = v.lW
  /\ v.sequence >= -1
  /\ v.out_begin = -1 <=> v.sequence = -1
  /\ v.mdctright.seq >= -1
  /\ v.sequence > -1 => v.mdctright.seq < v.sequence
  /\ PcmAvail(v) > 0 => v.mdctright.seq >= 0

DspInv ==
  /\ ~tremor.dsp_initialized => vd = ZeroedDsp
  /\ tremor.dsp_initialized => vi.books /\ DspOK(vd)
  /\ state = "DECODING" => tremor.dsp_initialized

BlockInv ==
  /\ tremor.block_initialized <=> state = "DECODING"
  /\ vb <=> tremor.block_initialized

(* What was announced for a frame held back is what it takes.              *)
SizeInv == has_pending_pcm => required_output_bytes = FrameBytes(vd)

IInv ==
  /\ TypeOK /\ InfoInv /\ IdentificationInv /\ DspInv /\ BlockInv
  /\ HeapIsOwned /\ PendingIffUnread /\ PacketCountTracksSequence
  /\ SizeInv /\ SafeBuffer /\ DecodeNeverFails

-----------------------------------------------------------------------------
(* Pieces of the state.                                                    *)

LEMMA OutcomeTyped ==
  ASSUME NEW code \in Codes, NEW bytes \in Nat, NEW offered \in Nat,
         NEW frame \in FrameType
  PROVE  /\ Outcome(code, bytes, offered, frame) \in OutcomeType
         /\ Outcome(code, bytes, offered, frame).code = code
         /\ Outcome(code, bytes, offered, frame).bytes_written = bytes
         /\ Outcome(code, bytes, offered, frame).offered = offered
         /\ Outcome(code, bytes, offered, frame).frame = frame
BY DEF Outcome, OutcomeType

LEMMA NoFrameTyped == NoFrame \in FrameType
BY DEF NoFrame, FrameType

LEMMA ReturnTyped ==
  ASSUME NEW code \in Codes, Return(code)
  PROVE  ret' \in OutcomeType /\ ret'.code = code /\ ret'.offered = 0
BY OutcomeTyped, NoFrameTyped DEF Return

LEMMA DspConstantsTyped ==
  /\ ZeroedDsp \in DspType
  /\ ~ZeroedDsp.setup_arena
  /\ PcmAvail(ZeroedDsp) = 0
  /\ \A keep \in KeepType :
       /\ StartedDsp(keep) \in DspType
       /\ StartedDsp(keep).setup_arena
       /\ PcmAvail(StartedDsp(keep)) = 0
<1> DEFINE none == -1
           zero == 0
<1>1. none \in Int /\ zero \in Int /\ zero \in Flags
  BY DEF Flags
<1>2. NoBlock \in BlockType /\ NoTail \in TailType
  BY <1>1 DEF NoBlock, NoTail, BlockType, TailType
<1>3. {} \in KeepType
  BY DEF KeepType
<1>4. ZeroedDsp \in DspType
  <2>1. ZeroedDsp =
          [setup_arena |-> FALSE, channel_keep |-> {},
           work |-> NoBlock, mdctright |-> NoTail,
           out_begin |-> zero, out_end |-> zero, lW |-> zero, W |-> zero,
           granulepos |-> zero, sequence |-> zero, sample_count |-> zero,
           eofflag |-> FALSE]
    BY DEF ZeroedDsp
  <2> HIDE DEF zero
  <2> QED
    BY <1>1, <1>2, <1>3, <2>1 DEF DspType
<1>5. ~ZeroedDsp.setup_arena /\ PcmAvail(ZeroedDsp) = 0
  BY DEF ZeroedDsp, PcmAvail, Unread
<1>6. ASSUME NEW keep \in KeepType
      PROVE  StartedDsp(keep) \in DspType
  <2>1. StartedDsp(keep) =
          [setup_arena |-> TRUE, channel_keep |-> keep,
           work |-> NoBlock, mdctright |-> NoTail,
           out_begin |-> none, out_end |-> none, lW |-> zero, W |-> zero,
           granulepos |-> none, sequence |-> none, sample_count |-> none,
           eofflag |-> FALSE]
    BY DEF StartedDsp
  <2> HIDE DEF none, zero
  <2> QED
    BY <1>1, <1>2, <2>1 DEF DspType
<1>7. ASSUME NEW keep \in KeepType
      PROVE  StartedDsp(keep).setup_arena /\ PcmAvail(StartedDsp(keep)) = 0
  BY DEF StartedDsp, PcmAvail, Unread
<1> QED
  BY <1>4, <1>5, <1>6, <1>7

LEMMA ZeroedInfoTyped ==
  /\ ZeroedInfo \in InfoType
  /\ ~ZeroedInfo.codec_setup /\ ~ZeroedInfo.rate /\ ~ZeroedInfo.books
<1> DEFINE none == [w \in Flags |-> 0]
           zero == 0
<1>1. none \in [Flags -> Nat] /\ zero \in 0..255
  OBVIOUS
<1>2. ZeroedInfo =
        [codec_setup |-> FALSE, rate |-> FALSE, comment_header_seen |-> FALSE,
         books |-> FALSE, channels |-> zero, blocksizes |-> none]
  BY DEF ZeroedInfo
<1> HIDE DEF none, zero
<1> QED
  BY <1>1, <1>2 DEF InfoType

LEMMA NoFormatTyped == NoFormat \in FormatType
<1> DEFINE zero == 0
<1>1. zero \in Nat /\ zero \in 0..255
  OBVIOUS
<1>2. NoFormat = [sample_rate |-> FALSE, max_block_size |-> zero,
                  num_channels |-> zero]
  BY DEF NoFormat
<1> HIDE DEF zero
<1> QED
  BY <1>1, <1>2 DEF FormatType

(* Which planes: kept ones are planes of the stream, and read ones kept.   *)
LEMMA PlanesOfStream ==
  ASSUME NEW role, NEW channels \in 1..255
  PROVE  PlanesOf(role, channels) \subseteq 0..(channels - 1)
BY DEF PlanesOf

LEMMA KeepMaskTyped ==
  ASSUME NEW s \in Seq(SpeakerRole), NEW channels \in 1..255
  PROVE  /\ KeepMask(s, channels) \in KeepType
         /\ KeepMask(s, channels) \subseteq 0..(channels - 1)
<1>1. KeepMask(s, channels) \subseteq 0..(channels - 1)
  BY PlanesOfStream DEF KeepMask
<1>2. 0..(channels - 1) \subseteq 0..254
  OBVIOUS
<1> QED
  BY <1>1, <1>2 DEF KeepType

LEMMA PlanesReadAreKept ==
  ASSUME NEW s \in Seq(SpeakerRole), NEW requested, NEW channels \in 1..255
  PROVE  PlanesRead(s, requested, channels) \subseteq KeepMask(s, channels)
<1>1. CASE s # <<>>
  <2>1. OutputChannels(s, requested, channels) = Len(s)
    BY <1>1 DEF OutputChannels
  <2> QED
    BY <1>1, <2>1 DEF PlanesRead, KeepMask
<1>2. CASE s = <<>>
  <2>1. KeepMask(s, channels) = 0..(channels - 1)
    BY <1>2 DEF KeepMask
  <2>2. \/ PlanesRead(s, requested, channels) =
             0..((IF channels < 8 THEN channels ELSE 8) - 1)
        \/ PlanesRead(s, requested, channels) = 0..(channels - 1)
    BY <1>2 DEF PlanesRead
  <2> QED
    BY <2>1, <2>2
<1> QED
  BY <1>1, <1>2

LEMMA LenInRange ==
  ASSUME NEW s
  PROVE  Len(s) \in 1..8 <=> Len(s) \in Nat \ {0} /\ Len(s) <= 8
<1> DEFINE n == Len(s)
<1> HIDE DEF n
<1>1. n \in 1..8 <=> n \in Nat \ {0} /\ n <= 8
  OBVIOUS
<1> QED
  BY <1>1 DEF n

LEMMA OutputChannelsTyped ==
  ASSUME NEW s \in Seq(SpeakerRole), Len(s) <= 8, NEW requested \in 0..2,
         NEW channels \in 1..255
  PROVE  OutputChannels(s, requested, channels) \in 1..255
<1>1. CASE s # <<>>
  <2>1. Len(s) \in Nat \ {0}
    BY <1>1, EmptySeq
  <2>2. Len(s) \in 1..8
    BY <2>1, LenInRange
  <2> QED
    BY <1>1, <2>2 DEF OutputChannels
<1> QED
  BY <1>1 DEF OutputChannels

-----------------------------------------------------------------------------
(* The initial state.                                                      *)

LEMMA InitInv == Init => IInv
<1> SUFFICES ASSUME Init PROVE IInv
  OBVIOUS
<1> USE CallerAssumption DEF Init
<1>1. sel \in Seq(SpeakerRole) /\ Len(sel) <= 8 /\ requested_channels \in 0..2
  <2>1. CASE sel = <<>>
    <3>1. Len(sel) = 0 /\ sel \in Seq(SpeakerRole)
      BY <2>1, EmptySeq
    <3> QED
      BY <3>1
  <2>2. CASE sel # <<>>
    <3>1. requested_channels = 0
      BY <2>2
    <3>2. PICK roles \in RoleSelections :
            sel = IF Len(roles) \in 1..8 THEN roles ELSE <<>>
      BY <2>2
    <3>3. sel = roles /\ Len(roles) \in 1..8
      BY <2>2, <3>2
    <3>4. Len(sel) <= 8
      BY <3>3, LenInRange
    <3> QED
      BY <3>1, <3>3, <3>4
  <2> QED
    BY <2>1, <2>2
<1>2. TypeOK
  <2> DEFINE zero == 0
  <2>1. zero \in Nat /\ zero \in 0..MagicLen
    OBVIOUS
  <2>2. tremor \in TremorType
    BY DEF NoFlags, TremorType
  <2>3. ret \in OutcomeType
    BY OutcomeTyped, NoFrameTyped DEF Codes
  <2>4. /\ state \in States /\ comment_magic_buf \in BOOLEAN
        /\ received_eos \in BOOLEAN /\ has_pending_pcm \in BOOLEAN
        /\ ogg_demuxer \in BOOLEAN /\ vb \in BOOLEAN
    BY DEF States
  <2>5. /\ comment_magic_len = zero /\ packet_count = zero
        /\ required_output_bytes = zero
        /\ heap = [codec_setup |-> zero, setup_arena |-> zero,
                   block_arena |-> zero]
    OBVIOUS
  <2> HIDE DEF zero
  <2>6. heap \in [codec_setup : Nat, setup_arena : Nat, block_arena : Nat]
    BY <2>1, <2>5
  <2>7. pcm_format \in FormatType
    BY NoFormatTyped
  <2> QED
    BY <1>1, <2>1, <2>2, <2>3, <2>4, <2>5, <2>6, <2>7, ZeroedInfoTyped,
       DspConstantsTyped DEF TypeOK
<1>3. InfoInv /\ IdentificationInv
  BY ZeroedInfoTyped DEF InfoInv, IdentificationInv
<1>4. DspInv /\ BlockInv
  BY DEF DspInv, BlockInv, NoFlags
<1>5. HeapIsOwned
  BY DEF HeapIsOwned, NoFlags, One
<1>6. PendingIffUnread /\ PacketCountTracksSequence /\ SizeInv
  BY DspConstantsTyped DEF PendingIffUnread, PacketCountTracksSequence, SizeInv
<1>7. DecodeNeverFails /\ SafeBuffer
  <2>1. ret.code = "NEED_MORE_DATA"
    BY OutcomeTyped, NoFrameTyped DEF Codes
  <2>2. max_output_bytes = 0
    BY DEF max_output_bytes, NoFormat, bytes_per_sample
  <2> QED
    BY <2>1, <2>2 DEF DecodeNeverFails, SafeBuffer
<1> QED
  BY <1>2, <1>3, <1>4, <1>5, <1>6, <1>7 DEF IInv

-----------------------------------------------------------------------------
(* Sizes in bytes: what is pending fits the largest buffer asked for.      *)

LEMMA ScaleMonotone ==
  ASSUME NEW a \in Nat, NEW c \in Nat, NEW k \in Nat, a <= c
  PROVE  a * k * 2 \in Nat /\ c * k * 2 \in Nat /\ a * k * 2 <= c * k * 2
<1> DEFINE d == c - a
<1>1. d \in Nat /\ c = a + d
  OBVIOUS
<1> HIDE DEF d
<1>2. c * k = a * k + d * k
  BY <1>1
<1>3. a * k \in Nat /\ d * k \in Nat
  BY <1>1
<1> QED
  BY <1>2, <1>3

LEMMA ScalePositive ==
  ASSUME NEW c \in Nat, NEW k \in Nat, c > 0, k > 0
  PROVE  c * k * 2 > 0
<1>1. c * k > 0
  OBVIOUS
<1> QED
  BY <1>1

LEMMA FrameFits ==
  ASSUME TypeOK, StreamOK, NEW v \in DspType, WindowOK(vi.blocksizes, v)
  PROVE  /\ FrameBytes(v) \in Nat
         /\ FrameBytes(v) <= max_output_bytes
         /\ max_output_bytes \in Nat /\ max_output_bytes > 0
<1> DEFINE half == pcm_format.max_block_size \div 2
           num  == pcm_format.num_channels
           pcm  == PcmAvail(v)
<1>1. num \in 1..255
  <2>1. /\ sel \in Seq(SpeakerRole) /\ Len(sel) <= 8
        /\ requested_channels \in 0..2 /\ vi.channels \in 1..255
    BY DEF StreamOK, TypeOK
  <2>2. OutputChannels(sel, requested_channels, vi.channels) \in 1..255
    BY <2>1, OutputChannelsTyped
  <2> QED
    BY <2>2 DEF StreamOK
<1>2. half \in Nat /\ half > 0
  <2>1. BlockSizesOK(vi.blocksizes)
    BY DEF StreamOK
  <2>2. /\ vi.blocksizes[1] \in Nat /\ vi.blocksizes[1] > 0
        /\ vi.blocksizes[1] % 4 = 0
    BY <2>1 DEF BlockSizesOK, Flags
  <2>3. \A b \in Nat : b > 0 /\ b % 4 = 0 => b \div 2 \in Nat /\ b \div 2 > 0
    OBVIOUS
  <2> QED
    BY <2>2, <2>3 DEF StreamOK
<1>3. pcm \in Nat /\ pcm <= half
  BY PcmAvailBound DEF StreamOK
<1>4. /\ FrameBytes(v) = pcm * num * 2
      /\ max_output_bytes = half * num * 2
  BY DEF FrameBytes, max_output_bytes, bytes_per_sample
<1> HIDE DEF half, num, pcm
<1>5. num \in Nat /\ num > 0
  BY <1>1
<1> QED
  BY <1>2, <1>3, <1>4, <1>5, ScaleMonotone, ScalePositive

-----------------------------------------------------------------------------
(* A call that decodes nothing and takes no header: only its result, the   *)
(* lazy allocations, the comment magic and the end-of-stream flag change.  *)

LEMMA FlagsTyped ==
  ASSUME tremor \in TremorType
  PROVE  /\ flags \in TremorType
         /\ flags.info_initialized = tremor.info_initialized
         /\ flags.dsp_initialized = tremor.dsp_initialized
         /\ flags.block_initialized = tremor.block_initialized
BY DEF flags, TremorType

LEMMA QuietKeeps ==
  ASSUME IInv,
         UNCHANGED <<config, pcm_format, packet_count, required_output_bytes,
                     has_pending_pcm, lib>>,
         tremor' \in {tremor, flags},
         ogg_demuxer' \in BOOLEAN,
         comment_magic_len' \in 0..MagicLen, comment_magic_buf' \in BOOLEAN,
         state' = state \/ (InComment /\ state' = "STREAMING_COMMENT"),
         \/ received_eos' = received_eos
         \/ state = "DECODING" /\ received_eos' \in BOOLEAN,
         ret' \in OutcomeType, ret'.code # "DECODE_FAILED",
         ret'.code = "OUTPUT_BUFFER_TOO_SMALL" => ret'.offered < max_output_bytes
  PROVE  IInv'
<1> USE DEF config, lib
<1>1. /\ tremor' \in TremorType
      /\ tremor'.info_initialized = tremor.info_initialized
      /\ tremor'.dsp_initialized = tremor.dsp_initialized
      /\ tremor'.block_initialized = tremor.block_initialized
  BY FlagsTyped DEF IInv, TypeOK
<1>2. /\ state' \in States
      /\ state' = "DECODING" <=> state = "DECODING"
      /\ state' = "EXPECT_IDENTIFICATION" <=> state = "EXPECT_IDENTIFICATION"
  BY DEF IInv, TypeOK, States, InComment
<1>3. max_output_bytes' = max_output_bytes
  BY DEF max_output_bytes, bytes_per_sample
<1>4. TypeOK'
  BY <1>1, <1>2 DEF IInv, TypeOK
<1>5. InfoInv' /\ IdentificationInv'
  BY <1>1, <1>2 DEF IInv, InfoInv, IdentificationInv, StreamOK
<1>6. DspInv' /\ BlockInv'
  BY <1>1, <1>2 DEF IInv, DspInv, BlockInv, DspOK
<1>7. HeapIsOwned'
  BY <1>1 DEF IInv, HeapIsOwned
<1>8. PendingIffUnread' /\ PacketCountTracksSequence'
  BY <1>2 DEF IInv, PendingIffUnread, PacketCountTracksSequence
<1>9. SizeInv'
  BY DEF IInv, SizeInv, FrameBytes, bytes_per_sample
<1>10. SafeBuffer' /\ DecodeNeverFails'
  BY <1>3 DEF IInv, SafeBuffer, DecodeNeverFails
<1> QED
  BY <1>4, <1>5, <1>6, <1>7, <1>8, <1>9, <1>10 DEF IInv

LEMMA DecodingState ==
  ASSUME IInv, state = "DECODING"
  PROVE  /\ TypeOK /\ StreamOK /\ DspOK(vd)
         /\ tremor.dsp_initialized /\ tremor.block_initialized
         /\ vi.books /\ vi.rate /\ vi.codec_setup /\ vb
BY DEF IInv, DspInv, BlockInv, InfoInv

LEMMA PrologueKeeps ==
  ASSUME IInv, NEW size \in Nat, Prologue(size)
  PROVE  IInv'
<1> USE DEF config, lib, comment, audio, Codes
<1>1. CASE DecodeNullPointer
  <2>1. ret' \in OutcomeType /\ ret'.code = "INPUT_INVALID"
    BY <1>1, ReturnTyped DEF DecodeNullPointer
  <2> QED
    BY <1>1, <2>1, QuietKeeps DEF DecodeNullPointer, IInv, TypeOK
<1>2. CASE DecodeEmptyBuffer(size)
  <2>1. ret' \in OutcomeType /\ ret'.code = "OUTPUT_BUFFER_TOO_SMALL"
        /\ ret'.offered = 0
    BY <1>2, ReturnTyped DEF DecodeEmptyBuffer
  <2>2. state = "DECODING"
    BY <1>2 DEF DecodeEmptyBuffer
  <2>3. 0 < max_output_bytes
    BY <2>2, DecodingState, FrameFits DEF TypeOK, DspOK
  <2> QED
    BY <1>2, <2>1, <2>3, QuietKeeps DEF DecodeEmptyBuffer, IInv, TypeOK
<1>3. CASE DecodeOutOfMemory(size)
  <2>1. ret' \in OutcomeType /\ ret'.code = "ALLOCATION_FAILED"
    BY <1>3, ReturnTyped DEF DecodeOutOfMemory
  <2> QED
    BY <1>3, <2>1, QuietKeeps DEF DecodeOutOfMemory, IInv, TypeOK
<1> QED
  BY <1>1, <1>2, <1>3 DEF Prologue

LEMMA NothingTakenKeeps ==
  ASSUME IInv, NEW size \in Nat,
         \/ DecodeEndOfStream(size) \/ Demuxer(size)
         \/ IdentificationInvalid(size) \/ SetupInvalid(size)
         \/ \E eos \in BOOLEAN : AudioEmpty(eos, size)
  PROVE  IInv'
<1> USE DEF config, lib, comment, audio
<1> DEFINE calm ==
      ret' \in OutcomeType
      /\ ret'.code \notin {"DECODE_FAILED", "OUTPUT_BUFFER_TOO_SMALL"}
<1>1. \A code \in Codes \ {"DECODE_FAILED", "OUTPUT_BUFFER_TOO_SMALL"} :
        Return(code) => calm
  BY ReturnTyped
<1> HIDE DEF calm
<1>2. /\ {"NEED_MORE_DATA", "END_OF_STREAM", "INPUT_INVALID",
          "ALLOCATION_FAILED"}
         \subseteq Codes \ {"DECODE_FAILED", "OUTPUT_BUFFER_TOO_SMALL"}
  BY DEF Codes
<1>3. CASE \/ DecodeEndOfStream(size) \/ Demuxer(size)
           \/ IdentificationInvalid(size) \/ SetupInvalid(size)
  <2>1. calm
    BY <1>1, <1>2, <1>3
       DEF DecodeEndOfStream, Demuxer, DemuxNeedsMore, DemuxFails,
           DemuxSkipsPacket, IdentificationInvalid, SetupInvalid
  <2>2. /\ ogg_demuxer' = TRUE /\ tremor' = flags
        /\ UNCHANGED <<config, state, comment, pcm_format, packet_count,
                       audio, lib>>
    BY <1>3
       DEF DecodeEndOfStream, Demuxer, DemuxNeedsMore, DemuxFails,
           DemuxSkipsPacket, IdentificationInvalid, SetupInvalid, Setup,
           Demuxing, Entered
  <2> QED
    BY <2>1, <2>2, QuietKeeps DEF calm, IInv, TypeOK
<1>4. ASSUME NEW eos \in BOOLEAN, AudioEmpty(eos, size)
      PROVE  IInv'
  <2>1. calm
    BY <1>1, <1>2, <1>4 DEF AudioEmpty
  <2>2. /\ ogg_demuxer' = TRUE /\ tremor' = flags
        /\ state = "DECODING" /\ received_eos' \in BOOLEAN
        /\ UNCHANGED <<config, state, comment, pcm_format, packet_count,
                       required_output_bytes, has_pending_pcm, lib>>
    BY <1>4 DEF AudioEmpty, Audio, Demuxing, Entered, IInv, TypeOK
  <2> QED
    BY <2>1, <2>2, QuietKeeps DEF calm, IInv, TypeOK
<1> QED
  BY <1>3, <1>4

-----------------------------------------------------------------------------
(* The header packets.                                                     *)

(* The magic gathered never outgrows its buffer.                           *)
LEMMA MagicTyped ==
  ASSUME TypeOK, NEW c \in Chunks
  PROVE  MagicLenWith(c) \in 0..MagicLen /\ MagicBufWith(c) \in BOOLEAN
<1>1. MagicLen \in Nat /\ MagicHave \in 0..MagicLen /\ c.length \in 0..MagicLen
  BY CallerAssumption DEF TypeOK, MagicHave, Chunks
<1>2. MagicLenWith(c) \in 0..MagicLen
  BY <1>1 DEF MagicLenWith, Lesser
<1> QED
  BY <1>2 DEF MagicBufWith

LEMMA CommentKeeps ==
  ASSUME IInv, NEW size \in Nat, Comment(size)
  PROVE  IInv'
<1> USE DEF config, lib, comment, audio, Codes
<1>1. PICK c \in Chunks : StreamComment(c, size)
  BY DEF Comment
<1>2. /\ comment_magic_len' \in 0..MagicLen /\ comment_magic_buf' \in BOOLEAN
      /\ ogg_demuxer' = TRUE /\ tremor' = flags /\ InComment
      /\ UNCHANGED <<sel, requested_channels, obedient, pcm_format,
                     required_output_bytes, received_eos, has_pending_pcm,
                     vd, vb, heap>>
  BY <1>1, MagicTyped DEF StreamComment, Demuxing, Entered, IInv
<1>3. /\ ret' \in OutcomeType
      /\ ret'.code \notin {"DECODE_FAILED", "OUTPUT_BUFFER_TOO_SMALL"}
  BY <1>1, ReturnTyped
     DEF StreamComment, CommentRejected, CommentContinues, CommentCompletes
<1>4. CASE state' = "STREAMING_COMMENT" /\ UNCHANGED <<packet_count, vi>>
  BY <1>2, <1>3, <1>4, QuietKeeps
<1>5. CASE /\ state' = "EXPECT_SETUP" /\ packet_count' = packet_count + 1
           /\ vi' = [vi EXCEPT !.comment_header_seen = TRUE]
           /\ CommentHeaderin
  <2>1. /\ vi' \in InfoType /\ vi'.codec_setup = vi.codec_setup
        /\ vi'.rate = vi.rate /\ vi'.books = vi.books
        /\ vi'.channels = vi.channels /\ vi'.blocksizes = vi.blocksizes
    BY <1>5 DEF IInv, TypeOK, InfoType
  <2>2. /\ tremor' \in TremorType
        /\ tremor'.info_initialized = tremor.info_initialized
        /\ tremor'.dsp_initialized = tremor.dsp_initialized
        /\ tremor'.block_initialized = tremor.block_initialized
    BY <1>2, FlagsTyped DEF IInv, TypeOK
  <2>3. state \in {"EXPECT_COMMENT", "STREAMING_COMMENT"}
    BY <1>2 DEF InComment
  <2>4. TypeOK'
    BY <1>2, <1>3, <1>5, <2>1, <2>2 DEF IInv, TypeOK, States
  <2>5. InfoInv'
    <3>1. StreamOK' <=> StreamOK
      BY <1>2, <2>1 DEF StreamOK
    <3>2. tremor.info_initialized
      BY <1>5, ZeroedInfoTyped DEF IInv, InfoInv, CommentHeaderin
    <3> QED
      BY <2>1, <2>2, <3>1, <3>2 DEF IInv, InfoInv
  <2>6. DspInv'
    BY <1>2, <1>5, <2>1, <2>2 DEF IInv, DspInv, DspOK
  <2>7. IdentificationInv' /\ BlockInv' /\ HeapIsOwned'
    BY <1>2, <1>5, <2>1, <2>2, <2>3
       DEF IInv, IdentificationInv, BlockInv, HeapIsOwned
  <2>8. PendingIffUnread' /\ PacketCountTracksSequence' /\ SizeInv'
    BY <1>2, <1>5, <2>3
       DEF IInv, PendingIffUnread, PacketCountTracksSequence, SizeInv
  <2>9. SafeBuffer' /\ DecodeNeverFails'
    BY <1>2, <1>3
       DEF IInv, SafeBuffer, DecodeNeverFails, max_output_bytes,
           bytes_per_sample
  <2> QED
    BY <2>4, <2>5, <2>6, <2>7, <2>8, <2>9 DEF IInv
<1> QED
  BY <1>1, <1>4, <1>5
     DEF StreamComment, CommentRejected, CommentContinues, CommentCompletes

LEMMA ResetKeeps ==
  ASSUME IInv, Reset
  PROVE  IInv'
<1> USE DEF config, Codes
<1>1. vi' = ZeroedInfo /\ vd' = ZeroedDsp
  BY DEF Reset, IInv, InfoInv, DspInv
<1>2. vb' = FALSE
  BY DEF Reset, IInv, BlockInv, TypeOK
<1>3. /\ tremor' \in TremorType
      /\ ~tremor'.info_initialized /\ ~tremor'.dsp_initialized
      /\ ~tremor'.block_initialized
  BY DEF Reset, NoFlags, IInv, TypeOK, TremorType
<1>4. heap' = [codec_setup |-> 0, setup_arena |-> 0, block_arena |-> 0]
  <2>1. /\ One(tremor.info_initialized /\ vi.codec_setup) \in Int
        /\ One(tremor.dsp_initialized /\ vd.setup_arena) \in Int
        /\ One(tremor.block_initialized /\ vb) \in Int
    BY DEF One
  <2>2. /\ heap.codec_setup = One(tremor.info_initialized /\ vi.codec_setup)
        /\ heap.setup_arena = One(tremor.dsp_initialized /\ vd.setup_arena)
        /\ heap.block_arena = One(tremor.block_initialized /\ vb)
    BY DEF IInv, HeapIsOwned
  <2> QED
    BY <2>1, <2>2 DEF Reset
<1>5. /\ ret' \in OutcomeType /\ ret'.code = "NEED_MORE_DATA"
  BY ReturnTyped DEF Reset
<1>6. /\ state' = "EXPECT_IDENTIFICATION" /\ comment_magic_len' = 0
      /\ pcm_format' = NoFormat /\ packet_count' = 0
      /\ required_output_bytes' = 0 /\ received_eos' = FALSE
      /\ has_pending_pcm' = FALSE
      /\ UNCHANGED <<sel, requested_channels, obedient, comment_magic_buf, ogg_demuxer>>
  BY DEF Reset
<1>7. TypeOK'
  <2> DEFINE zero == 0
  <2>1. zero \in Nat /\ zero \in 0..MagicLen
    BY CallerAssumption
  <2>2. heap' = [codec_setup |-> zero, setup_arena |-> zero,
                 block_arena |-> zero]
    BY <1>4
  <2>3. comment_magic_len' \in 0..MagicLen
    BY <1>6, <2>1
  <2> HIDE DEF zero
  <2>4. heap' \in [codec_setup : Nat, setup_arena : Nat, block_arena : Nat]
    BY <2>1, <2>2
  <2>5. state' \in States
    BY <1>6 DEF States
  <2> QED
    BY <1>1, <1>2, <1>3, <1>5, <1>6, <2>3, <2>4, <2>5, NoFormatTyped,
       ZeroedInfoTyped, DspConstantsTyped DEF IInv, TypeOK
<1>8. InfoInv' /\ IdentificationInv'
  BY <1>1, <1>3, <1>6, ZeroedInfoTyped DEF InfoInv, IdentificationInv
<1>9. DspInv' /\ BlockInv'
  BY <1>1, <1>2, <1>3, <1>6 DEF DspInv, BlockInv
<1>10. HeapIsOwned'
  BY <1>3, <1>4 DEF HeapIsOwned, One
<1>11. PendingIffUnread' /\ PacketCountTracksSequence' /\ SizeInv'
  BY <1>1, <1>6, DspConstantsTyped
     DEF PendingIffUnread, PacketCountTracksSequence, SizeInv
<1>12. SafeBuffer' /\ DecodeNeverFails'
  <2>1. max_output_bytes' = 0
    BY <1>6 DEF max_output_bytes, NoFormat, bytes_per_sample
  <2> QED
    BY <1>5, <1>6, <2>1 DEF SafeBuffer, DecodeNeverFails
<1> QED
  BY <1>7, <1>8, <1>9, <1>10, <1>11, <1>12 DEF IInv

(* The identification packet cannot be taken, but vi has been initialised. *)
LEMMA IdentificationFailsKeeps ==
  ASSUME IInv, NEW size \in Nat,
         IdentificationOutOfMemory(size) \/ IdentificationRefused(size)
  PROVE  IInv'
<1> USE DEF config, comment, audio, Codes
<1>1. /\ vi' = ZeroedInfo /\ ogg_demuxer' = TRUE
      /\ tremor' = [flags EXCEPT !.info_initialized = TRUE]
      /\ state = "EXPECT_IDENTIFICATION"
      /\ UNCHANGED <<config, state, comment, pcm_format, packet_count, audio,
                     vd, vb, heap>>
  BY DEF IdentificationOutOfMemory, IdentificationRefused, Demuxing, Entered
<1>2. vi = ZeroedInfo
  BY <1>1 DEF IInv, IdentificationInv
<1>3. /\ tremor' \in TremorType
      /\ tremor'.info_initialized
      /\ tremor'.dsp_initialized = tremor.dsp_initialized
      /\ tremor'.block_initialized = tremor.block_initialized
  BY <1>1, FlagsTyped DEF IInv, TypeOK, TremorType
<1>4. /\ ret' \in OutcomeType
      /\ ret'.code \notin {"DECODE_FAILED", "OUTPUT_BUFFER_TOO_SMALL"}
  BY ReturnTyped DEF IdentificationOutOfMemory, IdentificationRefused
<1>5. TypeOK'
  BY <1>1, <1>2, <1>3, <1>4 DEF IInv, TypeOK
<1>6. InfoInv' /\ IdentificationInv'
  BY <1>1, <1>2, <1>3, ZeroedInfoTyped DEF IInv, InfoInv, IdentificationInv
<1>7. DspInv' /\ BlockInv'
  BY <1>1, <1>2, <1>3 DEF IInv, DspInv, BlockInv, DspOK
<1>8. HeapIsOwned'
  <2>1. ~vi.codec_setup
    BY <1>2, ZeroedInfoTyped
  <2> QED
    BY <1>1, <1>2, <1>3, <2>1 DEF IInv, HeapIsOwned, One
<1>9. PendingIffUnread' /\ PacketCountTracksSequence' /\ SizeInv'
  BY <1>1 DEF IInv, PendingIffUnread, PacketCountTracksSequence, SizeInv,
              FrameBytes
<1>10. SafeBuffer' /\ DecodeNeverFails'
  BY <1>1, <1>4 DEF IInv, SafeBuffer, DecodeNeverFails, max_output_bytes,
                    bytes_per_sample
<1> QED
  BY <1>5, <1>6, <1>7, <1>8, <1>9, <1>10 DEF IInv

LEMMA FormatTaken ==
  ASSUME NEW f \in Formats, TypeOK
  PROVE  /\ f.channels \in 1..255 /\ f.channels \in 0..255
         /\ f.blocksizes \in [Flags -> Nat]
         /\ f.blocksizes[1] \in Nat /\ BlockSizesOK(f.blocksizes)
         /\ OutputChannels(sel, requested_channels, f.channels) \in 0..255
<1>1. f \in [channels : 1..255, blocksizes : [Flags -> Nat]]
      /\ BlockSizesOK(f.blocksizes)
  BY FormatsAssumption
<1>2. f.channels \in 1..255 /\ f.channels \in 0..255
  BY <1>1
<1>3. OutputChannels(sel, requested_channels, f.channels) \in 1..255
  BY <1>2, OutputChannelsTyped DEF TypeOK
<1>4. OutputChannels(sel, requested_channels, f.channels) \in 0..255
  BY <1>3
<1> QED
  BY <1>1, <1>2, <1>4 DEF Flags

LEMMA IdentificationAcceptedKeeps ==
  ASSUME IInv, NEW size \in Nat, NEW f \in Formats,
         IdentificationAccepted(f, size)
  PROVE  IInv'
<1> USE DEF config, comment, audio, Codes
<1> DEFINE num == OutputChannels(sel, requested_channels, f.channels)
<1>1. /\ ogg_demuxer' = TRUE /\ state = "EXPECT_IDENTIFICATION"
      /\ tremor' = [flags EXCEPT !.info_initialized = TRUE]
      /\ state' = "EXPECT_COMMENT" /\ packet_count' = packet_count + 1
      /\ heap' = [heap EXCEPT !.codec_setup = @ + 1]
      /\ vi' = [ZeroedInfo EXCEPT !.codec_setup = TRUE, !.rate = TRUE,
                                  !.channels = f.channels,
                                  !.blocksizes = f.blocksizes]
      /\ pcm_format' = [sample_rate |-> TRUE,
                        max_block_size |-> f.blocksizes[1],
                        num_channels |-> num]
      /\ UNCHANGED <<sel, requested_channels, obedient, comment_magic_len,
                     comment_magic_buf, required_output_bytes, received_eos,
                     has_pending_pcm, vd, vb>>
  BY DEF IdentificationAccepted, Demuxing, Entered
<1>2. /\ f.channels \in 1..255 /\ f.channels \in 0..255
      /\ f.blocksizes \in [Flags -> Nat] /\ f.blocksizes[1] \in Nat
      /\ BlockSizesOK(f.blocksizes) /\ num \in 0..255
  BY FormatTaken DEF IInv
<1> HIDE DEF num
<1>3. /\ vi = ZeroedInfo /\ ~tremor.dsp_initialized
      /\ ~tremor.block_initialized /\ packet_count = 0
      /\ required_output_bytes = 0
  BY <1>1, ZeroedInfoTyped DEF IInv, IdentificationInv, DspInv, BlockInv
<1>4. /\ tremor' \in TremorType /\ tremor'.info_initialized
      /\ ~tremor'.dsp_initialized /\ ~tremor'.block_initialized
  BY <1>1, <1>3, FlagsTyped DEF IInv, TypeOK, TremorType
<1>5. /\ ret' \in OutcomeType /\ ret'.code = "NEED_MORE_DATA"
  BY ReturnTyped DEF IdentificationAccepted
<1>6. /\ vi' \in InfoType /\ vi'.codec_setup /\ vi'.rate /\ ~vi'.books
      /\ vi'.channels = f.channels /\ vi'.blocksizes = f.blocksizes
  BY <1>1, <1>2, ZeroedInfoTyped DEF InfoType
<1>7. /\ pcm_format' \in FormatType
      /\ pcm_format'.max_block_size = f.blocksizes[1]
      /\ pcm_format'.num_channels = num
  BY <1>1, <1>2 DEF FormatType
<1>8. /\ heap' \in [codec_setup : Nat, setup_arena : Nat, block_arena : Nat]
      /\ heap' = [codec_setup |-> 1, setup_arena |-> 0, block_arena |-> 0]
  <2>1. heap = [codec_setup |-> 0, setup_arena |-> 0, block_arena |-> 0]
    BY <1>3, ZeroedInfoTyped DEF IInv, HeapIsOwned, One
  <2>2. heap \in [codec_setup : Nat, setup_arena : Nat, block_arena : Nat]
    BY DEF IInv, TypeOK
  <2> QED
    BY <1>1, <2>1, <2>2
<1>9. TypeOK'
  BY <1>1, <1>4, <1>5, <1>6, <1>7, <1>8 DEF IInv, TypeOK, States
<1>10. InfoInv' /\ IdentificationInv'
  BY <1>1, <1>2, <1>4, <1>6, <1>7
     DEF InfoInv, IdentificationInv, StreamOK, num
<1>11. DspInv' /\ BlockInv' /\ HeapIsOwned'
  BY <1>1, <1>3, <1>4, <1>6, <1>8
     DEF IInv, DspInv, BlockInv, HeapIsOwned, One
<1>12. PendingIffUnread' /\ PacketCountTracksSequence' /\ SizeInv'
  BY <1>1 DEF IInv, PendingIffUnread, PacketCountTracksSequence, SizeInv
<1>13. SafeBuffer' /\ DecodeNeverFails'
  <2>1. max_output_bytes' \in Nat
    <3> DEFINE half == pcm_format'.max_block_size \div 2
               out  == pcm_format'.num_channels
    <3>1. half \in Nat /\ out \in Nat
      BY <1>2, <1>7
    <3>2. max_output_bytes' = half * out * 2
      BY DEF max_output_bytes, bytes_per_sample
    <3> HIDE DEF half, out
    <3> QED
      BY <3>1, <3>2, ScaleMonotone
  <2> QED
    BY <1>1, <1>3, <1>5, <2>1 DEF SafeBuffer, DecodeNeverFails
<1> QED
  BY <1>9, <1>10, <1>11, <1>12, <1>13 DEF IInv

(* The setup header: what it finds, and what each way of leaving it leaves *)
(* behind.                                                                 *)
LEMMA SetupFinds ==
  ASSUME IInv, state = "EXPECT_SETUP", SetupHeaderin
  PROVE  /\ vi.rate /\ vi.codec_setup /\ ~vi.books /\ StreamOK
         /\ tremor.info_initialized /\ ~tremor.dsp_initialized
         /\ ~tremor.block_initialized /\ ~vb /\ vd = ZeroedDsp
         /\ ~has_pending_pcm
         /\ heap = [codec_setup |-> 1, setup_arena |-> 0, block_arena |-> 0]
<1>1. vi.rate /\ vi.codec_setup /\ ~vi.books
  BY DEF SetupHeaderin
<1>2. tremor.info_initialized /\ StreamOK
  BY <1>1, ZeroedInfoTyped DEF IInv, InfoInv
<1>3. ~tremor.dsp_initialized /\ vd = ZeroedDsp
  BY <1>1 DEF IInv, DspInv
<1>4. ~tremor.block_initialized /\ ~vb
  BY DEF IInv, BlockInv
<1>5. ~has_pending_pcm
  BY DEF IInv, PendingIffUnread
<1> QED
  BY <1>1, <1>2, <1>3, <1>4, <1>5 DEF IInv, HeapIsOwned, One

LEMMA StartedDspOK ==
  ASSUME TypeOK, vi.channels \in 1..255
  PROVE  LET v == StartedDsp(KeepMask(sel, vi.channels))
         IN  v \in DspType /\ DspOK(v) /\ PcmAvail(v) = 0 /\ v.sequence = -1
<1> DEFINE keep == KeepMask(sel, vi.channels)
           v == StartedDsp(keep)
<1>1. keep \in KeepType
  BY KeepMaskTyped DEF TypeOK
<1> HIDE DEF keep
<1>2. /\ v.setup_arena /\ v.channel_keep = keep
      /\ v.work = [seq |-> -1, W |-> 0]
      /\ v.mdctright = [seq |-> -1, W |-> 0, cut |-> 0]
      /\ v.out_begin = -1 /\ v.out_end = -1 /\ v.lW = 0 /\ v.W = 0
      /\ v.sequence = -1
  BY DEF StartedDsp, NoBlock, NoTail
<1>3. v \in DspType /\ PcmAvail(v) = 0
  BY <1>1, DspConstantsTyped
<1> HIDE DEF v
<1>4. /\ v.work = [seq |-> v.sequence, W |-> v.W]
      /\ v.mdctright.W = v.lW /\ v.mdctright.cut = v.lW
      /\ v.mdctright.seq = -1
  BY <1>2
<1>5. WindowOK(vi.blocksizes, v)
  BY <1>2 DEF WindowOK
<1>6. DspOK(v)
  BY <1>2, <1>3, <1>4, <1>5 DEF DspOK, keep
<1> QED
  BY <1>2, <1>3, <1>6 DEF v, keep

LEMMA SetupFailsKeeps ==
  ASSUME IInv, NEW size \in Nat,
         SetupUnpackFails(size) \/ SetupDspOutOfMemory(size)
  PROVE  IInv'
<1> USE DEF config, comment, audio, Codes
<1>1. /\ state = "EXPECT_SETUP" /\ SetupHeaderin
      /\ ogg_demuxer' = TRUE /\ tremor' = flags
      /\ UNCHANGED <<config, state, comment, pcm_format, packet_count, audio,
                     vb>>
  BY DEF SetupUnpackFails, SetupDspOutOfMemory, Setup, Demuxing, Entered
<1>2. /\ vi.rate /\ vi.codec_setup /\ ~vi.books /\ StreamOK
      /\ tremor.info_initialized /\ ~tremor.dsp_initialized
      /\ ~tremor.block_initialized /\ ~vb /\ vd = ZeroedDsp
      /\ ~has_pending_pcm
      /\ heap = [codec_setup |-> 1, setup_arena |-> 0, block_arena |-> 0]
  BY <1>1, SetupFinds
<1>3. /\ ret' \in OutcomeType
      /\ ret'.code \notin {"DECODE_FAILED", "OUTPUT_BUFFER_TOO_SMALL"}
  BY ReturnTyped DEF SetupUnpackFails, SetupDspOutOfMemory
<1>4. /\ tremor' \in TremorType /\ tremor'.info_initialized
      /\ ~tremor'.dsp_initialized /\ ~tremor'.block_initialized
  BY <1>1, <1>2, FlagsTyped DEF IInv, TypeOK
<1>5. vd' = ZeroedDsp
  BY <1>2 DEF SetupUnpackFails, SetupDspOutOfMemory
<1>6. CASE SetupUnpackFails(size)
  <2>1. /\ vi' = ZeroedInfo
        /\ heap' = [heap EXCEPT !.codec_setup = @ - 1]
    BY <1>6 DEF SetupUnpackFails
  <2> DEFINE zero == 0
  <2>2. heap' = [codec_setup |-> zero, setup_arena |-> zero,
                 block_arena |-> zero] /\ zero \in Nat
    BY <1>2, <2>1
  <2>3. HeapIsOwned'
    BY <1>4, <2>1, <2>2, ZeroedInfoTyped DEF HeapIsOwned, One
  <2> HIDE DEF zero
  <2>4. TypeOK'
    BY <1>1, <1>3, <1>4, <1>5, <2>1, <2>2, ZeroedInfoTyped, DspConstantsTyped
       DEF IInv, TypeOK
  <2>5. InfoInv' /\ IdentificationInv'
    BY <1>1, <1>4, <2>1, ZeroedInfoTyped DEF InfoInv, IdentificationInv
  <2> QED
    <3>1. DspInv' /\ BlockInv'
      BY <1>1, <1>2, <1>4, <1>5 DEF DspInv, BlockInv
    <3>2. PendingIffUnread' /\ PacketCountTracksSequence' /\ SizeInv'
      BY <1>1, <1>2, <1>5, DspConstantsTyped
         DEF PendingIffUnread, PacketCountTracksSequence, SizeInv
    <3>3. SafeBuffer' /\ DecodeNeverFails'
      BY <1>1, <1>3
         DEF IInv, SafeBuffer, DecodeNeverFails, max_output_bytes,
             bytes_per_sample
    <3> QED
      BY <2>3, <2>4, <2>5, <3>1, <3>2, <3>3 DEF IInv
<1>7. CASE SetupDspOutOfMemory(size)
  <2>1. vi' = [vi EXCEPT !.books = TRUE] /\ heap' = heap
    BY <1>7 DEF SetupDspOutOfMemory
  <2>2. /\ vi' \in InfoType /\ vi'.codec_setup = vi.codec_setup
        /\ vi'.rate = vi.rate /\ vi'.books
        /\ vi'.channels = vi.channels /\ vi'.blocksizes = vi.blocksizes
    BY <2>1 DEF IInv, TypeOK, InfoType
  <2>3. HeapIsOwned'
    BY <1>2, <1>4, <2>1, <2>2 DEF HeapIsOwned, One
  <2>4. TypeOK'
    BY <1>1, <1>3, <1>4, <1>5, <2>1, <2>2, DspConstantsTyped
       DEF IInv, TypeOK
  <2>5. StreamOK'
    BY <1>1, <1>2, <2>2 DEF StreamOK
  <2>6. InfoInv' /\ IdentificationInv'
    BY <1>1, <1>2, <1>4, <2>2, <2>5 DEF InfoInv, IdentificationInv
  <2> QED
    <3>1. DspInv' /\ BlockInv'
      BY <1>1, <1>2, <1>4, <1>5 DEF DspInv, BlockInv
    <3>2. PendingIffUnread' /\ PacketCountTracksSequence' /\ SizeInv'
      BY <1>1, <1>2, <1>5, DspConstantsTyped
         DEF PendingIffUnread, PacketCountTracksSequence, SizeInv
    <3>3. SafeBuffer' /\ DecodeNeverFails'
      BY <1>1, <1>3
         DEF IInv, SafeBuffer, DecodeNeverFails, max_output_bytes,
             bytes_per_sample
    <3> QED
      BY <2>3, <2>4, <2>6, <3>1, <3>2, <3>3 DEF IInv
<1> QED
  BY <1>6, <1>7

LEMMA SetupStartsKeeps ==
  ASSUME IInv, NEW size \in Nat,
         SetupBlockOutOfMemory(size) \/ SetupAccepted(size)
  PROVE  IInv'
<1> USE DEF config, comment, audio, Codes
<1> DEFINE v == StartedDsp(KeepMask(sel, vi.channels))
<1>1. /\ state = "EXPECT_SETUP" /\ SetupHeaderin /\ ogg_demuxer' = TRUE
      /\ vi' = [vi EXCEPT !.books = TRUE] /\ vd' = v
      /\ UNCHANGED <<config, comment, pcm_format, audio>>
  BY DEF SetupBlockOutOfMemory, SetupAccepted, Setup, Demuxing, Entered
<1>2. /\ vi.rate /\ vi.codec_setup /\ ~vi.books /\ StreamOK
      /\ tremor.info_initialized /\ ~tremor.dsp_initialized
      /\ ~tremor.block_initialized /\ ~vb /\ vd = ZeroedDsp
      /\ ~has_pending_pcm
      /\ heap = [codec_setup |-> 1, setup_arena |-> 0, block_arena |-> 0]
  BY <1>1, SetupFinds
<1>3. v \in DspType /\ DspOK(v) /\ PcmAvail(v) = 0 /\ v.sequence = -1
  BY <1>2, StartedDspOK DEF IInv, StreamOK
<1> HIDE DEF v
<1>4. /\ ret' \in OutcomeType
      /\ ret'.code \notin {"DECODE_FAILED", "OUTPUT_BUFFER_TOO_SMALL"}
  BY ReturnTyped DEF SetupBlockOutOfMemory, SetupAccepted
<1>5. /\ vi' \in InfoType /\ vi'.codec_setup /\ vi'.rate /\ vi'.books
      /\ vi'.channels = vi.channels /\ vi'.blocksizes = vi.blocksizes
  BY <1>1, <1>2 DEF IInv, TypeOK, InfoType
<1>6. /\ tremor' \in TremorType /\ tremor'.info_initialized
      /\ tremor'.dsp_initialized
      /\ \/ /\ SetupBlockOutOfMemory(size)
            /\ ~tremor'.block_initialized /\ vb' = FALSE
            /\ state' = "EXPECT_SETUP" /\ packet_count' = packet_count
            /\ heap' = [heap EXCEPT !.setup_arena = @ + 1]
         \/ /\ SetupAccepted(size)
            /\ tremor'.block_initialized /\ vb' = TRUE
            /\ state' = "DECODING" /\ packet_count' = packet_count + 1
            /\ heap' = [heap EXCEPT !.setup_arena = @ + 1,
                                    !.block_arena = @ + 1]
  BY <1>1, <1>2, FlagsTyped
     DEF SetupBlockOutOfMemory, SetupAccepted, Setup, IInv, TypeOK, TremorType
<1>7. heap' \in [codec_setup : Nat, setup_arena : Nat, block_arena : Nat]
  <2>1. heap \in [codec_setup : Nat, setup_arena : Nat, block_arena : Nat]
    BY DEF IInv, TypeOK
  <2> DEFINE s == heap.setup_arena + 1
             b == heap.block_arena + 1
  <2>2. s \in Nat /\ b \in Nat
    BY <2>1
  <2>3. \/ heap' = [heap EXCEPT !.setup_arena = s]
        \/ heap' = [heap EXCEPT !.setup_arena = s, !.block_arena = b]
    BY <1>6
  <2> HIDE DEF s, b
  <2> QED
    BY <2>1, <2>2, <2>3
<1>8. TypeOK'
  <2>1. /\ state' \in States /\ vb' \in BOOLEAN
        /\ packet_count' \in Nat
    <3>1. /\ state' \in {"EXPECT_SETUP", "DECODING"}
          /\ vb' \in BOOLEAN
          /\ packet_count' \in {packet_count, packet_count + 1}
      BY <1>6
    <3> QED
      BY <3>1 DEF IInv, TypeOK, States
  <2> QED
    BY <1>1, <1>3, <1>4, <1>5, <1>6, <1>7, <2>1 DEF IInv, TypeOK
<1>9. InfoInv' /\ IdentificationInv'
  <2>1. StreamOK'
    BY <1>1, <1>2, <1>5 DEF StreamOK
  <2> QED
    BY <1>5, <1>6, <2>1 DEF InfoInv, IdentificationInv
<1>10. DspInv' /\ BlockInv'
  <2>1. DspOK(vd)'
    BY <1>1, <1>3, <1>5 DEF DspOK
  <2> QED
    BY <1>5, <1>6, <2>1 DEF DspInv, BlockInv
<1>11. HeapIsOwned'
  <2>1. vd'.setup_arena
    BY <1>1, <1>3 DEF DspOK
  <2>2. CASE SetupBlockOutOfMemory(size) /\ ~tremor'.block_initialized
    <3>1. heap' = [codec_setup |-> 1, setup_arena |-> 1, block_arena |-> 0]
      BY <1>2, <2>2 DEF SetupBlockOutOfMemory
    <3> QED
      BY <1>5, <1>6, <2>1, <2>2, <3>1 DEF HeapIsOwned, One
  <2>3. CASE SetupAccepted(size) /\ tremor'.block_initialized /\ vb' = TRUE
    <3>1. heap' = [heap EXCEPT !.setup_arena = @ + 1, !.block_arena = @ + 1]
      BY <2>3 DEF SetupAccepted
    <3>2. /\ heap'.codec_setup = heap.codec_setup
          /\ heap'.setup_arena = heap.setup_arena + 1
          /\ heap'.block_arena = heap.block_arena + 1
      BY <3>1 DEF IInv, TypeOK
    <3>3. heap.codec_setup = 1 /\ heap.setup_arena = 0 /\ heap.block_arena = 0
      BY <1>2
    <3>4. /\ heap'.codec_setup = 1 /\ heap'.setup_arena = 1
          /\ heap'.block_arena = 1
      BY <3>2, <3>3
    <3>5. heap' = [codec_setup |-> heap'.codec_setup,
                   setup_arena |-> heap'.setup_arena,
                   block_arena |-> heap'.block_arena]
      BY <1>7
    <3>6. /\ heap'.codec_setup = One(tremor'.info_initialized /\ vi'.codec_setup)
          /\ heap'.setup_arena = One(tremor'.dsp_initialized /\ vd'.setup_arena)
          /\ heap'.block_arena = One(tremor'.block_initialized /\ vb')
      BY <1>5, <1>6, <2>1, <2>3, <3>4 DEF One
    <3> QED
      BY <3>5, <3>6 DEF HeapIsOwned
  <2> QED
    BY <1>6, <2>2, <2>3
<1>12. PendingIffUnread' /\ PacketCountTracksSequence' /\ SizeInv'
  <2>1. packet_count \in Nat
    BY DEF IInv, TypeOK
  <2> QED
    BY <1>1, <1>2, <1>3, <1>6, <2>1
       DEF PendingIffUnread, PacketCountTracksSequence, SizeInv
<1>13. SafeBuffer' /\ DecodeNeverFails'
  BY <1>1, <1>4
     DEF IInv, SafeBuffer, DecodeNeverFails, max_output_bytes,
         bytes_per_sample
<1> QED
  BY <1>8, <1>9, <1>10, <1>11, <1>12, <1>13 DEF IInv

-----------------------------------------------------------------------------
(* Audio: what output_pcm leaves behind, for a block just accepted and for *)
(* a frame held back alike.                                                *)

LEMMA DrainOK ==
  ASSUME NEW v \in DspType, DspOK(v)
  PROVE  Drain(v) \in DspType /\ DspOK(Drain(v)) /\ PcmAvail(Drain(v)) = 0
         /\ Drain(v).sequence = v.sequence
<1> DEFINE d == Drain(v)
<1>1. /\ d \in DspType /\ SameBlocks(d, v) /\ PcmAvail(d) = 0
      /\ d.out_end = v.out_end
      /\ d.out_begin = IF Unread(v) THEN v.out_end ELSE v.out_begin
  BY DrainEmpties
<1> HIDE DEF d
<1>2. v.out_begin \in Int /\ v.out_end \in Int /\ v.sequence \in Int
  BY DEF DspType
<1>3. WindowOK(vi.blocksizes, d)
  <2>1. Span(vi.blocksizes, d) = Span(vi.blocksizes, v)
    BY <1>1 DEF SameBlocks, Span
  <2> QED
    BY <1>1, <1>2, <2>1 DEF DspOK, WindowOK, Unread
<1>4. d.out_begin = -1 <=> v.out_begin = -1
  BY <1>1, <1>2 DEF Unread
<1>5. DspOK(d)
  BY <1>1, <1>3, <1>4 DEF DspOK, SameBlocks
<1> QED
  BY <1>1, <1>5 DEF d, SameBlocks

LEMMA OutputKeeps ==
  ASSUME IInv, state = "DECODING", NEW size \in Nat,
         NEW v \in DspType, DspOK(v), v.sequence = packet_count,
         has_pending_pcm => PcmAvail(v) > 0,
         OutputPcm(v, size),
         UNCHANGED <<config, state, comment, pcm_format, vi, vb, heap>>,
         ogg_demuxer' = TRUE, tremor' = flags, received_eos' \in BOOLEAN
  PROVE  IInv'
<1> USE DEF config, comment, Codes
<1>1. /\ TypeOK /\ StreamOK /\ DspOK(vd) /\ vi.rate /\ vi.codec_setup
      /\ vi.books /\ tremor.dsp_initialized /\ tremor.block_initialized /\ vb
  BY DecodingState
<1>2. /\ tremor' \in TremorType
      /\ tremor'.info_initialized = tremor.info_initialized
      /\ tremor'.dsp_initialized /\ tremor'.block_initialized
  BY <1>1, FlagsTyped DEF TypeOK
<1>3. /\ FrameBytes(v) \in Nat /\ FrameBytes(v) <= max_output_bytes
      /\ max_output_bytes \in Nat /\ packet_count \in Nat
  BY <1>1, FrameFits DEF DspOK, TypeOK
<1>4. max_output_bytes' = max_output_bytes
  BY DEF max_output_bytes, bytes_per_sample
<1>5. /\ Drain(v) \in DspType /\ DspOK(Drain(v)) /\ PcmAvail(Drain(v)) = 0
      /\ Drain(v).sequence = v.sequence
  BY DrainOK
<1>6. /\ vd' \in DspType /\ DspOK(vd') /\ vd'.sequence = packet_count
      /\ packet_count' = IF has_pending_pcm' THEN packet_count
                                             ELSE packet_count + 1
      /\ has_pending_pcm' \in BOOLEAN
      /\ has_pending_pcm' <=> PcmAvail(vd') > 0
      /\ has_pending_pcm' => required_output_bytes' = FrameBytes(vd')
      /\ required_output_bytes' \in {required_output_bytes, FrameBytes(v)}
      /\ ret' \in OutcomeType /\ ret'.code # "DECODE_FAILED"
      /\ ret'.code = "OUTPUT_BUFFER_TOO_SMALL" =>
           ret'.offered = size /\ size < FrameBytes(v)
  <2>1. CASE OutputNothing(v)
    <3>1. ret' \in OutcomeType /\ ret'.code = "NEED_MORE_DATA"
      BY <2>1, ReturnTyped DEF OutputNothing
    <3>2. ~(PcmAvail(v) > 0)
      BY <2>1 DEF OutputNothing
    <3> QED
      BY <1>1, <2>1, <3>1, <3>2 DEF OutputNothing, TypeOK
  <2>2. CASE OutputTooSmall(v, size)
    <3>1. /\ ret' \in OutcomeType /\ ret'.code = "OUTPUT_BUFFER_TOO_SMALL"
          /\ ret'.offered = size
      <4> DEFINE none == 0
      <4>1. none \in Nat /\ ret' = Outcome("OUTPUT_BUFFER_TOO_SMALL", none,
                                         size, NoFrame)
        BY <2>2 DEF OutputTooSmall
      <4> HIDE DEF none
      <4> QED
        BY <4>1, OutcomeTyped, NoFrameTyped
    <3> QED
      BY <2>2, <3>1 DEF OutputTooSmall
  <2>3. CASE OutputFrame(v, size)
    <3>1. Readout(v) \in FrameType
      BY DEF Readout, FrameType, DspType, BlockType, TailType
    <3>2. ret' \in OutcomeType /\ ret'.code = "SUCCESS"
      BY <1>3, <2>3, <3>1, OutcomeTyped DEF OutputFrame
    <3>3. /\ vd' = Drain(v) /\ has_pending_pcm' = FALSE
          /\ packet_count' = packet_count + 1
          /\ required_output_bytes' = FrameBytes(v)
      BY <2>3 DEF OutputFrame
    <3>4. /\ vd' \in DspType /\ DspOK(vd') /\ vd'.sequence = packet_count
          /\ PcmAvail(vd') = 0
      BY <1>5, <3>3
    <3>5. packet_count' = IF has_pending_pcm' THEN packet_count
                                              ELSE packet_count + 1
      BY <3>3
    <3>6. /\ has_pending_pcm' \in BOOLEAN
          /\ has_pending_pcm' <=> PcmAvail(vd') > 0
      <4>1. ~(PcmAvail(vd') > 0)
        BY <3>4
      <4>2. ~has_pending_pcm' /\ has_pending_pcm' \in BOOLEAN
        BY <3>3
      <4> QED
        BY <4>1, <4>2
    <3>8. /\ has_pending_pcm' => required_output_bytes' = FrameBytes(vd')
          /\ required_output_bytes' \in {required_output_bytes, FrameBytes(v)}
      BY <3>3
    <3>7. /\ ret' \in OutcomeType /\ ret'.code # "DECODE_FAILED"
          /\ ret'.code = "OUTPUT_BUFFER_TOO_SMALL" =>
               ret'.offered = size /\ size < FrameBytes(v)
      BY <3>2
    <3> QED
      BY <3>4, <3>5, <3>6, <3>7, <3>8
  <2> QED
    BY <2>1, <2>2, <2>3 DEF OutputPcm
<1>7. /\ required_output_bytes' \in Nat
      /\ required_output_bytes' <= max_output_bytes
      /\ packet_count' \in Nat
      /\ ret'.code = "OUTPUT_BUFFER_TOO_SMALL" => ret'.offered < max_output_bytes
  <2>1. /\ required_output_bytes \in Nat
        /\ required_output_bytes <= max_output_bytes
    BY DEF IInv, TypeOK, SafeBuffer
  <2> QED
    BY <1>3, <1>6, <2>1
<1>8. TypeOK'
  BY <1>1, <1>2, <1>6, <1>7 DEF TypeOK
<1>9. InfoInv' /\ IdentificationInv'
  BY <1>1, <1>2 DEF IInv, InfoInv, IdentificationInv, StreamOK
<1>10. DspInv' /\ BlockInv'
  <2>1. DspOK(vd)'
    BY <1>6 DEF DspOK
  <2> QED
    BY <1>1, <1>2, <2>1 DEF DspInv, BlockInv
<1>11. HeapIsOwned'
  <2>1. vd.setup_arena /\ vd'.setup_arena
    BY <1>1, <1>6 DEF DspOK
  <2> QED
    BY <1>1, <1>2, <2>1 DEF IInv, HeapIsOwned, One
<1>12. PendingIffUnread' /\ PacketCountTracksSequence'
  BY <1>3, <1>6 DEF PendingIffUnread, PacketCountTracksSequence
<1>13. SizeInv'
  <2>1. FrameBytes(vd)' = FrameBytes(vd')
    BY DEF FrameBytes, bytes_per_sample
  <2> QED
    BY <1>6, <2>1 DEF SizeInv
<1>14. SafeBuffer' /\ DecodeNeverFails'
  BY <1>4, <1>6, <1>7 DEF SafeBuffer, DecodeNeverFails
<1> QED
  BY <1>8, <1>9, <1>10, <1>11, <1>12, <1>13, <1>14 DEF IInv

LEMMA DecodePendingKeeps ==
  ASSUME IInv, NEW size \in Nat, DecodePending(size)
  PROVE  IInv'
<1>1. /\ ogg_demuxer' = TRUE /\ tremor' = flags /\ has_pending_pcm
      /\ OutputPcm(vd, size)
      /\ UNCHANGED <<config, state, comment, pcm_format, received_eos,
                     vi, vb, heap>>
  BY DEF DecodePending, Entered
<1>2. state = "DECODING" /\ PcmAvail(vd) > 0
  BY <1>1 DEF IInv, PendingIffUnread
<1>3. vd \in DspType /\ DspOK(vd) /\ received_eos' \in BOOLEAN
  BY <1>1, <1>2, DecodingState DEF TypeOK
<1>4. vd.sequence = packet_count
  BY <1>1, <1>2 DEF IInv, PacketCountTracksSequence
<1> QED
  BY <1>1, <1>2, <1>3, <1>4, OutputKeeps

LEMMA AudioSkippedKeeps ==
  ASSUME IInv, NEW size \in Nat, NEW eos \in BOOLEAN, AudioSkipped(eos, size)
  PROVE  IInv'
<1> USE DEF config, comment, Codes
<1>1. /\ ogg_demuxer' = TRUE /\ tremor' = flags /\ ~has_pending_pcm
      /\ state = "DECODING" /\ packet_count' = packet_count + 1
      /\ vd' = Synthesis(vd, BadPacket(eos), packet_count)
      /\ UNCHANGED <<config, state, comment, pcm_format,
                     required_output_bytes, has_pending_pcm, vi, vb, heap>>
      /\ received_eos' = (received_eos \/ eos)
  BY DEF AudioSkipped, Audio, Demuxing, Entered
<1>2. /\ TypeOK /\ StreamOK /\ DspOK(vd)
      /\ vi.books /\ tremor.dsp_initialized /\ tremor.block_initialized
  BY <1>1, DecodingState
<1>3. vd' = vd
  <2> DEFINE none == -1
  <2>1. none \in Int /\ BadPacket(eos) =
          [decodable |-> FALSE, W |-> 0, granulepos |-> none, eos |-> eos]
    BY DEF BadPacket
  <2> HIDE DEF none
  <2>2. BadPacket(eos).decodable = FALSE
    BY <2>1
  <2> QED
    BY <1>1, <2>2 DEF Synthesis
<1>4. /\ tremor' \in TremorType
      /\ tremor'.info_initialized = tremor.info_initialized
      /\ tremor'.dsp_initialized /\ tremor'.block_initialized
  BY <1>1, <1>2, FlagsTyped DEF TypeOK
<1>5. /\ ret' \in OutcomeType /\ ret'.code = "NEED_MORE_DATA"
  BY ReturnTyped DEF AudioSkipped
<1>6. TypeOK'
  <2>1. received_eos' \in BOOLEAN
    BY <1>1, <1>2 DEF TypeOK
  <2> QED
    BY <1>1, <1>2, <1>3, <1>4, <1>5, <2>1 DEF TypeOK
<1>7. InfoInv' /\ IdentificationInv'
  BY <1>1, <1>4 DEF IInv, InfoInv, IdentificationInv, StreamOK
<1>8. DspInv' /\ BlockInv'
  BY <1>1, <1>2, <1>3, <1>4 DEF IInv, DspInv, BlockInv, DspOK
<1>9. HeapIsOwned'
  BY <1>1, <1>2, <1>3, <1>4 DEF IInv, HeapIsOwned, One
<1>10. PendingIffUnread' /\ PacketCountTracksSequence' /\ SizeInv'
  <2>1. packet_count \in Nat /\ vd.sequence \in Int
    BY <1>2 DEF TypeOK, DspType
  <2> QED
    BY <1>1, <1>3, <2>1
       DEF IInv, PendingIffUnread, PacketCountTracksSequence, SizeInv
<1>11. SafeBuffer' /\ DecodeNeverFails'
  BY <1>1, <1>5
     DEF IInv, SafeBuffer, DecodeNeverFails, max_output_bytes,
         bytes_per_sample
<1> QED
  BY <1>6, <1>7, <1>8, <1>9, <1>10, <1>11 DEF IInv

(* A block is taken with the window empty, laps with the one accepted      *)
(* before it, and carries a number that has not been used.                 *)
LEMMA BlockTaken ==
  ASSUME NEW v \in DspType, DspOK(v), ~Unread(v), BlockSizesOK(vi.blocksizes),
         NEW n \in Nat, v.sequence < n,
         NEW p \in PacketType, p.decodable
  PROVE  LET made == Synthesis(v, p, n)
             b    == Blockin(vi.blocksizes, made, p, n)
         IN  /\ BlockinAccepts(made)
             /\ b \in DspType /\ DspOK(b) /\ b.sequence = n
             /\ b.mdctright.seq = v.sequence
<1> DEFINE made == Synthesis(v, p, n)
           b    == Blockin(vi.blocksizes, made, p, n)
<1>1. /\ made \in DspType
      /\ made.out_begin = v.out_begin /\ made.out_end = v.out_end
      /\ made.lW = v.lW /\ made.W = v.W /\ made.sequence = v.sequence
      /\ made.setup_arena = v.setup_arena
      /\ made.channel_keep = v.channel_keep
      /\ made.work = [seq |-> n, W |-> p.W]
      /\ made.mdctright = [seq |-> v.work.seq, W |-> v.work.W, cut |-> v.W]
  BY SynthesisKeeps
<1> HIDE DEF made
<1>2. BlockinAccepts(made)
  BY <1>1 DEF BlockinAccepts, Unread
<1>3. /\ b \in DspType
      /\ Readable(b, IF made.out_begin = -1
                       THEN 0 ELSE Span(vi.blocksizes, b))
      /\ b.lW = made.W /\ b.W = p.W /\ b.sequence = n
      /\ b.work = made.work /\ b.mdctright = made.mdctright
      /\ b.setup_arena = made.setup_arena
      /\ b.channel_keep = made.channel_keep
  BY <1>1, BlockinReadable
<1> HIDE DEF b
<1>4. /\ b.work = [seq |-> b.sequence, W |-> b.W]
      /\ b.mdctright.seq = v.sequence
      /\ b.mdctright.W = b.lW /\ b.mdctright.cut = b.lW
  <2>1. v.work.seq = v.sequence /\ v.work.W = v.W
    BY DEF DspOK
  <2> QED
    BY <1>1, <1>3, <2>1
<1>5. /\ b.out_begin \in Int /\ b.out_end \in Int /\ v.sequence \in Int
      /\ v.sequence >= -1 /\ (v.out_begin = -1 <=> v.sequence = -1)
  BY <1>3 DEF DspType, DspOK
<1>6. Span(vi.blocksizes, b) \in Nat
  BY <1>3, SpanBound
<1>7. WindowOK(vi.blocksizes, b) /\ b.out_begin # -1
  BY <1>3, <1>5, <1>6 DEF Readable, WindowOK
<1>8. PcmAvail(b) > 0 => v.sequence >= 0
  <2>1. CASE v.out_begin = -1
    <3>1. 0 <= b.out_begin /\ b.out_begin <= b.out_end /\ b.out_end <= 0
      BY <1>1, <1>3, <2>1 DEF Readable
    <3> QED
      BY <1>5, <3>1 DEF PcmAvail, Unread
  <2>2. CASE v.out_begin # -1
    BY <1>5, <2>2
  <2> QED
    BY <2>1, <2>2
<1>9. b.setup_arena /\ b.channel_keep = KeepMask(sel, vi.channels)
  BY <1>1, <1>3 DEF DspOK
<1>10. DspOK(b)
  BY <1>3, <1>4, <1>5, <1>7, <1>8, <1>9 DEF DspOK
<1> QED
  BY <1>2, <1>3, <1>4, <1>10 DEF made, b

LEMMA AudioDecodedKeeps ==
  ASSUME IInv, NEW size \in Nat, NEW p \in AudioPackets,
         AudioDecoded(p, size)
  PROVE  IInv'
<1> DEFINE made == Synthesis(vd, p, packet_count)
           b    == Blockin(vi.blocksizes, made, p, packet_count)
<1>1. /\ ogg_demuxer' = TRUE /\ tremor' = flags /\ ~has_pending_pcm
      /\ state = "DECODING" /\ received_eos' = (received_eos \/ p.eos)
      /\ UNCHANGED <<config, state, comment, pcm_format, vi, vb, heap>>
  BY DEF AudioDecoded, Audio, Demuxing, Entered
<1>2. /\ vd \in DspType /\ DspOK(vd) /\ BlockSizesOK(vi.blocksizes)
      /\ packet_count \in Nat
  BY <1>1, DecodingState DEF TypeOK, StreamOK
<1>3. ~Unread(vd)
  <2>1. PcmAvail(vd) > 0 <=> Unread(vd)
    BY <1>2, PcmAvailBound DEF DspOK
  <2> QED
    BY <1>1, <2>1 DEF IInv, PendingIffUnread
<1>4. vd.sequence < packet_count
  BY <1>1 DEF IInv, PacketCountTracksSequence
<1>5. p \in PacketType /\ p.decodable
  BY CallerAssumption DEF AudioPackets, PacketType
<1>6. /\ BlockinAccepts(made)
      /\ b \in DspType /\ DspOK(b) /\ b.sequence = packet_count
  BY <1>2, <1>3, <1>4, <1>5, BlockTaken
<1>7. OutputPcm(b, size)
  BY <1>6 DEF AudioDecoded
<1>8. received_eos' \in BOOLEAN
  BY <1>1 DEF IInv, TypeOK, AudioPackets
<1> HIDE DEF made, b
<1> QED
  BY <1>1, <1>6, <1>7, <1>8, OutputKeeps

-----------------------------------------------------------------------------
(* The invariant is inductive.                                             *)

LEMMA OffersTyped ==
  ASSUME TypeOK, NEW size \in Offers
  PROVE  size \in Nat
<1> DEFINE half == pcm_format.max_block_size \div 2
           num  == pcm_format.num_channels
<1>1. half \in Nat /\ num \in Nat
  <2>1. pcm_format.max_block_size \in Nat /\ num \in 0..255
    BY DEF TypeOK, FormatType
  <2> QED
    BY <2>1
<1>2. max_output_bytes = half * num * 2
  BY DEF max_output_bytes, bytes_per_sample
<1> HIDE DEF half, num
<1>3. max_output_bytes \in Nat
  BY <1>1, <1>2, ScaleMonotone
<1> QED
  BY <1>3, CallerAssumption DEF Offers, TypeOK

LEMMA DecodeKeeps ==
  ASSUME IInv, NEW size \in Nat, Decode(size)
  PROVE  IInv'
<1>1. CASE Prologue(size)
  BY <1>1, PrologueKeeps
<1>2. CASE DecodePending(size)
  BY <1>2, DecodePendingKeeps
<1>3. CASE DecodeEndOfStream(size) \/ Demuxer(size)
  BY <1>3, NothingTakenKeeps
<1>4. CASE Identification(size)
  BY <1>4, NothingTakenKeeps, IdentificationFailsKeeps,
     IdentificationAcceptedKeeps DEF Identification
<1>5. CASE Comment(size)
  BY <1>5, CommentKeeps
<1>6. CASE SetupHeader(size)
  BY <1>6, NothingTakenKeeps, SetupFailsKeeps, SetupStartsKeeps
     DEF SetupHeader
<1>7. CASE AudioPacket(size)
  BY <1>7, NothingTakenKeeps, AudioSkippedKeeps, AudioDecodedKeeps
     DEF AudioPacket
<1> QED
  BY <1>1, <1>2, <1>3, <1>4, <1>5, <1>6, <1>7 DEF Decode

LEMMA StepInv == IInv /\ [Next]_vars => IInv'
<1> SUFFICES ASSUME IInv, [Next]_vars PROVE IInv'
  OBVIOUS
<1>1. CASE Reset
  BY <1>1, ResetKeeps
<1>2. ASSUME NEW size \in Offers, Decode(size) PROVE IInv'
  BY <1>2, DecodeKeeps, OffersTyped DEF IInv
<1>3. CASE UNCHANGED vars
  <2>1. /\ UNCHANGED <<config, pcm_format, packet_count,
                       required_output_bytes, has_pending_pcm, lib>>
        /\ UNCHANGED <<tremor, ogg_demuxer, comment, state, received_eos, ret>>
    BY <1>3 DEF vars, audio, config, lib, comment
  <2> QED
    BY <2>1, QuietKeeps
       DEF comment, IInv, TypeOK, SafeBuffer, DecodeNeverFails
<1> QED
  BY <1>1, <1>2, <1>3 DEF Next

-----------------------------------------------------------------------------
(* The theorems.                                                           *)

(* The strengthened invariant holds of every decoder, for every format,    *)
(* configuration, granule position and sequence of calls.                  *)
THEOREM Inductive == Spec => []IInv
BY InitInv, StepInv, PTL DEF Spec

(* Every field keeps its type: decode() and reset() never leave a state,   *)
(* a count or a flag outside its range.                                    *)
THEOREM TypesAreKept == Spec => []TypeOK
<1>1. IInv => TypeOK
  BY DEF IInv
<1> QED
  BY <1>1, Inductive, PTL

(* The pending flag of the wrapper and the window of Tremor agree between  *)
(* any two calls.                                                          *)
THEOREM PendingIsExact == Spec => []PendingIffUnread
<1>1. IInv => PendingIffUnread
  BY DEF IInv
<1> QED
  BY <1>1, Inductive, PTL

(* vorbis_synthesis_blockin never refuses a block the wrapper gives it.    *)
THEOREM BlockinIsNeverRefused == Spec => []DecodeNeverFails
<1>1. IInv => DecodeNeverFails
  BY DEF IInv
<1> QED
  BY <1>1, Inductive, PTL

(* max_output_bytes() suffices for every packet of every stream.           *)
THEOREM MaxOutputBytesSuffices == Spec => []SafeBuffer
<1>1. IInv => SafeBuffer
  BY DEF IInv
<1> QED
  BY <1>1, Inductive, PTL

(* The readout window never leaves the lap of the last two blocks,         *)
(* whatever granule positions the packets carry.                           *)
THEOREM WindowStaysInLap == Spec => []WindowInsideLap
<1>1. IInv => WindowInsideLap
  BY DecodingState DEF WindowInsideLap, DspOK
<1> QED
  BY <1>1, Inductive, PTL

(* What is read out laps the last block accepted with the tail of the one  *)
(* accepted before it, cut at that block's size.                           *)
THEOREM LapIsCoherent == Spec => []LapCoherent
<1>1. ASSUME IInv, PcmAvail(vd) > 0
      PROVE  /\ vd.work = [seq |-> vd.sequence, W |-> vd.W]
             /\ vd.mdctright.seq \in 0..(vd.sequence - 1)
             /\ vd.mdctright.W = vd.lW /\ vd.mdctright.cut = vd.lW
  <2>1. DspOK(vd)
    BY <1>1, DspConstantsTyped DEF IInv, DspInv
  <2>2. /\ vd.sequence \in Int /\ vd.out_begin \in Int /\ vd.out_end \in Int
        /\ vd.mdctright.seq \in Int
    BY <1>1 DEF IInv, TypeOK, DspType, TailType
  <2>3. vd.out_begin > -1
    BY <1>1, <2>2 DEF PcmAvail, Unread
  <2>4. vd.sequence > -1 /\ vd.mdctright.seq >= 0
    BY <1>1, <2>1, <2>2, <2>3 DEF DspOK
  <2>5. vd.mdctright.seq \in 0..(vd.sequence - 1)
    BY <2>1, <2>2, <2>4 DEF DspOK
  <2> QED
    BY <2>1, <2>5 DEF DspOK
<1>2. IInv => LapCoherent
  BY <1>1 DEF LapCoherent
<1> QED
  BY <1>2, Inductive, PTL

(* The wrapper's packet count and Tremor's sequence number stay in step.   *)
THEOREM PacketsAreNumbered == Spec => []PacketCountTracksSequence
<1>1. IInv => PacketCountTracksSequence
  BY DEF IInv
<1> QED
  BY <1>1, Inductive, PTL

(* output_pcm reads kept planes only, for every layout and selection.      *)
THEOREM PlanesReadWereKept == Spec => []LapoutNeverRejected
<1>1. ASSUME IInv, state = "DECODING"
      PROVE  \A ch \in PlanesRead(sel, requested_channels, vi.channels) :
               LapoutAccepts(vd, ch)
  <2>1. /\ vd.channel_keep = KeepMask(sel, vi.channels)
        /\ sel \in Seq(SpeakerRole) /\ vi.channels \in 1..255
    BY <1>1, DecodingState DEF DspOK, StreamOK, TypeOK
  <2>2. PlanesRead(sel, requested_channels, vi.channels)
          \subseteq KeepMask(sel, vi.channels)
    BY <2>1, PlanesReadAreKept
  <2> QED
    BY <2>1, <2>2 DEF LapoutAccepts
<1>2. IInv => LapoutNeverRejected
  BY <1>1 DEF LapoutNeverRejected
<1> QED
  BY <1>2, Inductive, PTL

(* Whichever stage of the headers failed, what is allocated is what the    *)
(* next reset() or the destructor frees: no leak and no double free.       *)
THEOREM AllocationsAreOwned == Spec => []HeapIsOwned
<1>1. IInv => HeapIsOwned
  BY DEF IInv
<1> QED
  BY <1>1, Inductive, PTL

(* A decoder that waits for a stream holds nothing of an earlier one.      *)
THEOREM ResetDecoderIsNew == Spec => []FreshUntilIdentified
<1>1. ASSUME IInv, state = "EXPECT_IDENTIFICATION"
      PROVE  /\ vi = ZeroedInfo /\ vd = ZeroedDsp /\ ~vb
             /\ \A k \in DOMAIN heap : heap[k] = 0
             /\ pcm_format = NoFormat /\ packet_count = 0
             /\ required_output_bytes = 0 /\ ~received_eos /\ ~has_pending_pcm
  <2>1. /\ vi = ZeroedInfo /\ pcm_format = NoFormat /\ packet_count = 0
        /\ required_output_bytes = 0 /\ ~received_eos /\ ~has_pending_pcm
    BY <1>1 DEF IInv, IdentificationInv, PendingIffUnread
  <2>2. ~tremor.dsp_initialized /\ vd = ZeroedDsp /\ ~vb
        /\ ~tremor.block_initialized
    BY <1>1, <2>1, ZeroedInfoTyped DEF IInv, DspInv, BlockInv
  <2>3. heap = [codec_setup |-> 0, setup_arena |-> 0, block_arena |-> 0]
    BY <1>1, <2>1, <2>2, ZeroedInfoTyped DEF IInv, HeapIsOwned, One
  <2>4. \A k \in DOMAIN heap : heap[k] = 0
    BY <2>3
  <2> QED
    BY <2>1, <2>2, <2>4
<1>2. IInv => FreshUntilIdentified
  BY <1>1 DEF FreshUntilIdentified
<1> QED
  BY <1>2, Inductive, PTL

-----------------------------------------------------------------------------
(* The headers of a caller that resets after errors.                       *)

(* A whole magic that was wrong has been reported, and only a caller that  *)
(* does not obey can go on from there.                                     *)
MagicInv ==
  obedient /\ state = "STREAMING_COMMENT" /\ ret.code \notin Fatal =>
    (comment_magic_len = MagicLen => comment_magic_buf)

HeaderInv == MagicInv /\ HeadersValidated

LEMMA StandingHeaders ==
  ASSUME HeaderInv, MayCall,
         UNCHANGED <<obedient, state, comment, vi>>
  PROVE  HeaderInv'
BY DEF HeaderInv, MagicInv, HeadersValidated, MayCall, comment

(* A piece that is let through and completes the magic leaves it right.    *)
LEMMA MagicIsRight ==
  ASSUME TypeOK, HeaderInv, InComment, MayCall, obedient,
         NEW c \in Chunks, ~CommentInvalid(c), MagicLenWith(c) = MagicLen
  PROVE  MagicBufWith(c)
<1>1. /\ MagicLen \in Nat \ {0} /\ MagicHave \in 0..MagicLen
      /\ MagicHave > 0 => MagicHave = comment_magic_len
                          /\ state = "STREAMING_COMMENT"
  BY CallerAssumption DEF TypeOK, MagicHave, InComment
<1>2. CASE MagicHave < MagicLen
  BY <1>2 DEF CommentInvalid
<1>3. CASE MagicHave = MagicLen
  <2>1. comment_magic_len = MagicLen /\ state = "STREAMING_COMMENT"
    BY <1>1, <1>3
  <2>2. comment_magic_buf
    BY <2>1 DEF HeaderInv, MagicInv, MayCall
  <2>3. ~(MagicLenWith(c) > MagicHave)
    BY <1>1, <1>3
  <2> QED
    BY <2>2, <2>3 DEF MagicBufWith
<1> QED
  BY <1>1, <1>2, <1>3

LEMMA CommentKeepsHeaders ==
  ASSUME TypeOK, HeaderInv, NEW size, Comment(size)
  PROVE  HeaderInv'
<1>1. PICK c \in Chunks : StreamComment(c, size)
  BY DEF Comment
<1>2. /\ MayCall /\ InComment /\ obedient' = obedient
      /\ comment_magic_len' = MagicLenWith(c)
      /\ comment_magic_buf' = MagicBufWith(c)
  BY <1>1 DEF StreamComment, Demuxing, Entered, config
<1>3. CASE CommentRejected(c)
  <2>1. state' = "STREAMING_COMMENT" /\ ret'.code = "INPUT_INVALID"
    BY <1>3 DEF CommentRejected, Return, Outcome
  <2> QED
    BY <2>1 DEF HeaderInv, MagicInv, HeadersValidated, Fatal
<1>4. CASE CommentContinues(c)
  <2>1. state' = "STREAMING_COMMENT" /\ ~CommentInvalid(c)
    BY <1>4 DEF CommentContinues
  <2>2. obedient' /\ comment_magic_len' = MagicLen => comment_magic_buf'
    BY <1>2, <2>1, MagicIsRight
  <2> QED
    BY <2>1, <2>2 DEF HeaderInv, MagicInv, HeadersValidated
<1>5. CASE CommentCompletes(c)
  <2>1. ~CommentInvalid(c) /\ c.end_of_packet
        /\ state' \in {"STREAMING_COMMENT", "EXPECT_SETUP"}
    BY <1>5 DEF CommentCompletes
  <2>2. MagicLenWith(c) = MagicLen
    <3>1. MagicLenWith(c) \in 0..MagicLen /\ MagicLen \in Nat
      BY MagicTyped, CallerAssumption
    <3>2. ~(MagicLenWith(c) < MagicLen)
      BY <2>1 DEF CommentInvalid
    <3> QED
      BY <3>1, <3>2
  <2>3. obedient' => comment_magic_buf'
    BY <1>2, <2>1, <2>2, MagicIsRight
  <2> QED
    BY <1>2, <2>1, <2>2, <2>3 DEF HeaderInv, MagicInv, HeadersValidated
<1> QED
  BY <1>1, <1>3, <1>4, <1>5 DEF StreamComment

LEMMA SetupKeepsHeaders ==
  ASSUME TypeOK, HeaderInv, NEW size, SetupHeader(size)
  PROVE  HeaderInv'
<1> USE DEF comment, config
<1>1. /\ state = "EXPECT_SETUP" /\ obedient' = obedient
      /\ comment_magic_len' = comment_magic_len
      /\ comment_magic_buf' = comment_magic_buf
  BY DEF SetupHeader, SetupInvalid, SetupUnpackFails, SetupDspOutOfMemory,
         SetupBlockOutOfMemory, SetupAccepted, Setup
<1>2. \/ state' = "EXPECT_SETUP"
      \/ state' = "DECODING" /\ SetupHeaderin
         /\ vi' = [vi EXCEPT !.books = TRUE]
  BY <1>1 DEF SetupHeader, SetupInvalid, SetupUnpackFails,
              SetupDspOutOfMemory, SetupBlockOutOfMemory, SetupAccepted
<1>3. SetupHeaderin /\ vi' = [vi EXCEPT !.books = TRUE]
        => vi'.comment_header_seen /\ vi'.books
  BY DEF TypeOK, InfoType, SetupHeaderin
<1> QED
  BY <1>1, <1>2, <1>3 DEF HeaderInv, MagicInv, HeadersValidated

LEMMA DecodeKeepsHeaders ==
  ASSUME TypeOK, HeaderInv, NEW size, Decode(size)
  PROVE  HeaderInv'
<1> USE DEF config, lib
<1>1. CASE Prologue(size) \/ DecodeEndOfStream(size) \/ Demuxer(size)
  <2>1. MayCall /\ UNCHANGED <<obedient, state, comment, vi>>
    BY <1>1 DEF Prologue, DecodeNullPointer, DecodeEmptyBuffer,
                DecodeOutOfMemory, DecodeEndOfStream, Demuxer,
                DemuxNeedsMore, DemuxFails, DemuxSkipsPacket,
                Demuxing, Entered
  <2> QED
    BY <2>1, StandingHeaders
<1>2. CASE DecodePending(size) \/ AudioPacket(size)
  <2>1. MayCall /\ UNCHANGED <<obedient, state, comment, vi>>
    BY <1>2 DEF DecodePending, AudioPacket, AudioEmpty, AudioSkipped,
                AudioDecoded, Audio, Demuxing, Entered
  <2> QED
    BY <2>1, StandingHeaders
<1>3. CASE Identification(size)
  <2>1. state' \in {"EXPECT_IDENTIFICATION", "EXPECT_COMMENT"}
    BY <1>3 DEF Identification, IdentificationInvalid,
                IdentificationOutOfMemory, IdentificationRefused,
                IdentificationAccepted
  <2> QED
    BY <2>1 DEF HeaderInv, MagicInv, HeadersValidated
<1> QED
  BY <1>1, <1>2, <1>3, CommentKeepsHeaders, SetupKeepsHeaders DEF Decode

(* A caller that resets after every error gets audio only after three      *)
(* accepted headers, the comment magic whole and right in however many     *)
(* pieces it came.                                                         *)
THEOREM HeadersAreChecked == Spec => []HeadersValidated
<1>1. Init => HeaderInv
  BY DEF Init, HeaderInv, MagicInv, HeadersValidated
<1>2. ASSUME TypeOK, HeaderInv, [Next]_vars
      PROVE  HeaderInv'
  <2>1. CASE UNCHANGED vars
    <3>1. /\ obedient' = obedient /\ state' = state /\ ret' = ret /\ vi' = vi
          /\ comment_magic_len' = comment_magic_len
          /\ comment_magic_buf' = comment_magic_buf
      BY <2>1 DEF vars, config, comment, lib
    <3>2. MagicInv'
      BY <1>2, <3>1 DEF HeaderInv, MagicInv
    <3>3. HeadersValidated'
      BY <1>2, <3>1 DEF HeaderInv, HeadersValidated
    <3> QED
      BY <3>2, <3>3 DEF HeaderInv
  <2>2. CASE Reset
    BY <2>2 DEF Reset, HeaderInv, MagicInv, HeadersValidated
  <2>3. ASSUME NEW size \in Offers, Decode(size)
        PROVE  HeaderInv'
    BY <1>2, <2>3, DecodeKeepsHeaders
  <2> QED
    BY <1>2, <2>1, <2>2, <2>3 DEF Next
<1>3. HeaderInv => HeadersValidated
  BY DEF HeaderInv
<1> QED
  BY <1>1, <1>2, <1>3, TypesAreKept, PTL DEF Spec

-----------------------------------------------------------------------------
(* What a call may never do.                                               *)

(* With a frame held back decode() gets as far as its delivery.            *)
LEMMA HeldCalls ==
  ASSUME has_pending_pcm, NEW size, Decode(size)
  PROVE  Prologue(size) \/ DecodePending(size)
BY DEF Decode, DecodeEndOfStream, Demuxer, DemuxNeedsMore, DemuxFails,
       DemuxSkipsPacket, Identification, IdentificationInvalid,
       IdentificationOutOfMemory, IdentificationRefused,
       IdentificationAccepted, Comment, StreamComment, SetupHeader,
       SetupInvalid, SetupUnpackFails, SetupDspOutOfMemory,
       SetupBlockOutOfMemory, SetupAccepted, Setup, AudioPacket,
       AudioEmpty, AudioSkipped, AudioDecoded, Audio, Demuxing

LEMMA HeldFrameStep == IInv /\ Next => HeldOrDelivered
<1> SUFFICES ASSUME IInv, Next, has_pending_pcm
             PROVE  \/ /\ has_pending_pcm' /\ vd' = vd
                       /\ required_output_bytes' = required_output_bytes
                    \/ /\ ret'.code = "SUCCESS" /\ ret'.frame = Readout(vd)
                       /\ ret'.bytes_written = required_output_bytes
                    \/ state' = "EXPECT_IDENTIFICATION"
  BY DEF HeldOrDelivered
<1> USE DEF audio, lib
<1>1. CASE Reset
  BY <1>1 DEF Reset
<1>2. ASSUME NEW size \in Offers, Decode(size)
      PROVE  \/ /\ has_pending_pcm' /\ vd' = vd
                /\ required_output_bytes' = required_output_bytes
             \/ /\ ret'.code = "SUCCESS" /\ ret'.frame = Readout(vd)
                /\ ret'.bytes_written = required_output_bytes
  <2>1. Prologue(size) \/ DecodePending(size)
    BY <1>2, HeldCalls
  <2>2. CASE Prologue(size)
    BY <2>2 DEF Prologue, DecodeNullPointer, DecodeEmptyBuffer,
                DecodeOutOfMemory
  <2>3. CASE DecodePending(size)
    <3>1. /\ state = "DECODING" /\ PcmAvail(vd) > 0
          /\ required_output_bytes = FrameBytes(vd)
      BY DEF IInv, PendingIffUnread, SizeInv
    <3>2. FrameBytes(vd) \in Nat /\ Readout(vd) \in FrameType
          /\ size \in Nat
      <4>1. TypeOK /\ StreamOK /\ DspOK(vd) /\ vd \in DspType
        BY <3>1, DecodingState DEF TypeOK
      <4>2. Readout(vd) \in FrameType
        BY <4>1 DEF Readout, FrameType, DspType, BlockType, TailType
      <4> QED
        BY <4>1, <4>2, FrameFits, OffersTyped DEF DspOK
    <3>3. PcmAvail(vd) # 0
      BY <3>1
    <3>4. CASE OutputTooSmall(vd, size)
      BY <3>1, <3>4 DEF OutputTooSmall
    <3>5. CASE OutputFrame(vd, size)
      <4>1. ret' = Outcome("SUCCESS", FrameBytes(vd), size, Readout(vd))
        BY <3>5 DEF OutputFrame
      <4> QED
        BY <3>1, <4>1 DEF Outcome
    <3> QED
      BY <2>3, <3>3, <3>4, <3>5 DEF DecodePending, OutputPcm, OutputNothing
  <2> QED
    BY <2>1, <2>2, <2>3
<1> QED
  BY <1>1, <1>2 DEF Next

LEMMA NothingHeldNothingUnread ==
  ASSUME IInv, ~has_pending_pcm
  PROVE  PcmAvail(vd) = 0
<1>1. ~(PcmAvail(vd) > 0) \/ PcmAvail(vd) = 0
  BY DEF IInv, PendingIffUnread
<1>2. vd.out_begin \in Int /\ vd.out_end \in Int
  BY DEF IInv, TypeOK, DspType
<1> QED
  BY <1>1, <1>2 DEF PcmAvail, Unread

LEMMA EndOfStreamStep == IInv /\ Next => NothingAfterTheEnd
<1> SUFFICES ASSUME IInv, Next PROVE NothingAfterTheEnd
  OBVIOUS
<1> USE DEF audio, lib
<1>1. CASE Reset
  <2>1. ret'.code = "NEED_MORE_DATA"
    BY <1>1 DEF Reset, Return, Outcome
  <2> QED
    BY <1>1, <2>1 DEF Reset, NothingAfterTheEnd
<1>2. ASSUME NEW size \in Offers, Decode(size), has_pending_pcm
      PROVE  NothingAfterTheEnd
  <2>1. PcmAvail(vd) # 0
    BY <1>2 DEF IInv, PendingIffUnread
  <2>2. CASE Prologue(size)
    BY <2>1, <2>2
       DEF Prologue, DecodeNullPointer, DecodeEmptyBuffer, DecodeOutOfMemory,
           Return, Outcome, NothingAfterTheEnd
  <2>3. CASE DecodePending(size)
    <3>1. OutputTooSmall(vd, size) \/ OutputFrame(vd, size)
      BY <2>1, <2>3 DEF DecodePending, OutputPcm, OutputNothing
    <3>2. ret'.code \in {"OUTPUT_BUFFER_TOO_SMALL", "SUCCESS"}
      BY <3>1 DEF OutputTooSmall, OutputFrame, Outcome
    <3> QED
      BY <2>1, <3>2 DEF NothingAfterTheEnd
  <2> QED
    BY <1>2, <2>2, <2>3, HeldCalls
<1>3. ASSUME NEW size \in Offers, Decode(size), ~has_pending_pcm
      PROVE  NothingAfterTheEnd
  <2>1. PcmAvail(vd) = 0
    BY <1>3, NothingHeldNothingUnread
  <2>2. \/ ~received_eos
        \/ vd' = vd
    BY <1>3
       DEF Decode, Prologue, DecodeNullPointer, DecodeEmptyBuffer,
           DecodeOutOfMemory, DecodePending, DecodeEndOfStream,
           Demuxer, DemuxNeedsMore, DemuxFails,
           DemuxSkipsPacket, Identification, IdentificationInvalid,
           IdentificationOutOfMemory, IdentificationRefused,
           IdentificationAccepted, Comment, StreamComment, SetupHeader,
           SetupInvalid, SetupUnpackFails, SetupDspOutOfMemory,
           SetupBlockOutOfMemory, SetupAccepted, Setup, AudioPacket,
           AudioEmpty, AudioSkipped, AudioDecoded, Audio, Demuxing
  <2> QED
    BY <2>1, <2>2 DEF NothingAfterTheEnd
<1> QED
  BY <1>1, <1>2, <1>3 DEF Next

(* A frame that did not fit is never lost, altered or delivered in part.   *)
THEOREM HeldFrameIsKept == Spec => HeldFrameStays
BY HeldFrameStep, Inductive, PTL DEF Spec, HeldFrameStays

(* Once the stream has ended nothing is left in the decoder, and nothing   *)
(* is decoded until reset().                                               *)
THEOREM EndIsFinal == Spec => EndOfStreamIsFinal
BY EndOfStreamStep, Inductive, PTL DEF Spec, EndOfStreamIsFinal

-----------------------------------------------------------------------------
(* The decoder implements PcmDelivery: under the mapping of Delivery every *)
(* step of it is a step of PcmDelivery or leaves its variables alone.      *)

(* The mapped variables that a call that delivers nothing leaves alone.    *)
SameFrames ==
  /\ pcm_format'.max_block_size \div 2 = pcm_format.max_block_size \div 2
  /\ (IF state' = "DECODING" THEN vd'.sequence ELSE -1)
       = (IF state = "DECODING" THEN vd.sequence ELSE -1)
  /\ (IF has_pending_pcm' THEN {Readout(vd')} ELSE {})
       = (IF has_pending_pcm THEN {Readout(vd)} ELSE {})

LEMMA ReturnDelivers ==
  ASSUME NEW code, Return(code)
  PROVE  Set(ret'.frame) = {} /\ ret'.code = code
BY DEF Return, Outcome, Set, NoFrame

LEMMA DeliversNothing ==
  ASSUME NEW code, code # "END_OF_STREAM", Return(code), SameFrames,
         received_eos' \in {received_eos, TRUE}
  PROVE  Delivery!Nothing
BY ReturnDelivers DEF Delivery!Nothing, SameFrames

(* A frame has a block before it, and NoFrame none.                        *)
LEMMA FrameIsSet ==
  ASSUME NEW v, v.mdctright.seq >= 0
  PROVE  Set(Readout(v)) = {Readout(v)}
<1>1. Readout(v).prev >= 0 /\ NoFrame.prev = -1
  BY DEF Readout, NoFrame
<1>2. Readout(v) # NoFrame
  BY <1>1
<1> QED
  BY <1>2 DEF Set

LEMMA InitDelivers == Init => Delivery!Init
<1> SUFFICES ASSUME Init PROVE Delivery!Init
  OBVIOUS
<1>1. pcm_format.max_block_size \div 2 = 0
  BY DEF Init, NoFormat
<1>2. Set(ret.frame) = {} /\ ret.code # "END_OF_STREAM"
  BY DEF Init, Outcome, Set
<1> QED
  BY <1>1, <1>2 DEF Init, Delivery!Init

LEMMA ResetDelivers ==
  ASSUME Reset
  PROVE  Delivery!StartOver
<1>1. pcm_format'.max_block_size \div 2 = 0
  BY DEF Reset, NoFormat
<1>2. Set(ret'.frame) = {} /\ ret'.code # "END_OF_STREAM"
  BY ReturnDelivers DEF Reset
<1>3. /\ state' # "DECODING" /\ has_pending_pcm' = FALSE
      /\ received_eos' = FALSE
  BY DEF Reset
<1> QED
  BY <1>1, <1>2, <1>3 DEF Delivery!StartOver

(* Calls that end before the stream, or take a header of it.               *)
LEMMA NothingTakenDelivers ==
  ASSUME NEW size, Prologue(size) \/ Demuxer(size)
  PROVE  Delivery!Nothing
<1>1. SameFrames /\ received_eos' = received_eos
  BY DEF Prologue, DecodeNullPointer, DecodeEmptyBuffer, DecodeOutOfMemory,
         Demuxer, DemuxNeedsMore, DemuxFails, DemuxSkipsPacket, audio, lib,
         SameFrames
<1>2. \E code : code # "END_OF_STREAM" /\ Return(code)
  BY DEF Prologue, DecodeNullPointer, DecodeEmptyBuffer, DecodeOutOfMemory,
         Demuxer, DemuxNeedsMore, DemuxFails, DemuxSkipsPacket
<1> QED
  BY <1>1, <1>2, DeliversNothing

LEMMA EndDelivers ==
  ASSUME NEW size, DecodeEndOfStream(size)
  PROVE  Delivery!Finish
<1>1. SameFrames /\ received_eos' = received_eos
  BY DEF DecodeEndOfStream, audio, lib, SameFrames
<1>2. Set(ret'.frame) = {} /\ ret'.code = "END_OF_STREAM"
  BY ReturnDelivers DEF DecodeEndOfStream
<1>3. ~has_pending_pcm /\ received_eos
  BY DEF DecodeEndOfStream
<1> QED
  BY <1>1, <1>2, <1>3 DEF Delivery!Finish, SameFrames

LEMMA IdentificationDelivers ==
  ASSUME IInv, NEW size, Identification(size)
  PROVE  Delivery!Next
<1> USE DEF audio, lib
<1>1. CASE \/ IdentificationInvalid(size) \/ IdentificationOutOfMemory(size)
           \/ IdentificationRefused(size)
  <2>1. /\ state' = state /\ pcm_format' = pcm_format /\ vd' = vd
        /\ has_pending_pcm' = has_pending_pcm
        /\ received_eos' = received_eos
    <3>1. CASE IdentificationInvalid(size)
      BY <3>1 DEF IdentificationInvalid
    <3>2. CASE IdentificationOutOfMemory(size)
      BY <3>2 DEF IdentificationOutOfMemory
    <3>3. CASE IdentificationRefused(size)
      BY <3>3 DEF IdentificationRefused
    <3> QED
      BY <1>1, <3>1, <3>2, <3>3
  <2>2. \E code : code # "END_OF_STREAM" /\ Return(code)
    BY <1>1 DEF IdentificationInvalid, IdentificationOutOfMemory,
                IdentificationRefused
  <2>3. SameFrames
    BY <2>1 DEF SameFrames
  <2> QED
    BY <2>1, <2>2, <2>3, DeliversNothing DEF Delivery!Next
<1>2. ASSUME NEW f \in Formats, IdentificationAccepted(f, size)
      PROVE  Delivery!Open
  <2>1. /\ state = "EXPECT_IDENTIFICATION" /\ state' = "EXPECT_COMMENT"
        /\ Return("NEED_MORE_DATA") /\ ~has_pending_pcm
        /\ pcm_format'.max_block_size = f.blocksizes[1]
        /\ UNCHANGED <<received_eos, has_pending_pcm, vd>>
    BY <1>2 DEF IdentificationAccepted, Demuxing
  <2>2. pcm_format.max_block_size \div 2 = 0
    BY <2>1 DEF IInv, IdentificationInv, NoFormat
  <2>3. f.blocksizes[1] \div 2 \in Nat \ {0}
    <3>1. /\ f.blocksizes[1] \in Nat /\ f.blocksizes[1] > 0
          /\ f.blocksizes[1] % 4 = 0
      BY FormatsAssumption DEF BlockSizesOK, Flags
    <3>2. \A b \in Nat : b > 0 /\ b % 4 = 0 => b \div 2 \in Nat \ {0}
      OBVIOUS
    <3> QED
      BY <3>1, <3>2
  <2>4. Set(ret'.frame) = {} /\ ret'.code # "END_OF_STREAM"
    BY <2>1, ReturnDelivers
  <2> QED
    BY <2>1, <2>2, <2>3, <2>4 DEF Delivery!Open
<1> QED
  BY <1>1, <1>2 DEF Identification, Delivery!Next

LEMMA CommentDelivers ==
  ASSUME NEW size, Comment(size)
  PROVE  Delivery!Nothing
<1> USE DEF audio, lib
<1>1. PICK c \in Chunks : StreamComment(c, size)
  BY DEF Comment
<1>2. /\ state # "DECODING" /\ state' # "DECODING"
      /\ UNCHANGED <<received_eos, has_pending_pcm, vd, pcm_format>>
  BY <1>1 DEF StreamComment, InComment, CommentRejected, CommentContinues,
              CommentCompletes
<1>3. \E code : code # "END_OF_STREAM" /\ Return(code)
  BY <1>1 DEF StreamComment, CommentRejected, CommentContinues,
              CommentCompletes
<1> QED
  BY <1>2, <1>3, DeliversNothing DEF SameFrames

LEMMA SetupDelivers ==
  ASSUME NEW size, SetupHeader(size)
  PROVE  Delivery!Nothing
<1> USE DEF audio, lib
<1>1. /\ state = "EXPECT_SETUP" /\ ~has_pending_pcm
      /\ UNCHANGED <<received_eos, has_pending_pcm, pcm_format>>
  BY DEF SetupHeader, SetupInvalid, SetupUnpackFails, SetupDspOutOfMemory,
         SetupBlockOutOfMemory, SetupAccepted, Setup, Demuxing
<1>2. state' = "DECODING" => vd'.sequence = -1
  BY <1>1 DEF SetupHeader, SetupInvalid, SetupUnpackFails,
              SetupDspOutOfMemory, SetupBlockOutOfMemory, SetupAccepted,
              StartedDsp
<1>3. \E code : code # "END_OF_STREAM" /\ Return(code)
  BY DEF SetupHeader, SetupInvalid, SetupUnpackFails, SetupDspOutOfMemory,
         SetupBlockOutOfMemory, SetupAccepted
<1> QED
  BY <1>1, <1>2, <1>3, DeliversNothing DEF SameFrames

-----------------------------------------------------------------------------
(* Calls that put out PCM.                                                 *)

LEMMA PendingDelivers ==
  ASSUME IInv, NEW size \in Nat, DecodePending(size)
  PROVE  Delivery!Next
<1>1. /\ has_pending_pcm /\ state = "DECODING" /\ PcmAvail(vd) > 0
      /\ UNCHANGED <<state, pcm_format, received_eos>>
  BY DEF DecodePending, IInv, PendingIffUnread
<1>2. DspOK(vd) /\ vd \in DspType
  BY <1>1, DecodingState DEF TypeOK
<1>3. CASE OutputTooSmall(vd, size)
  <2>1. /\ Set(ret'.frame) = {} /\ ret'.code # "END_OF_STREAM"
        /\ vd' = vd /\ has_pending_pcm' = TRUE
    BY <1>3 DEF OutputTooSmall, Outcome, Set
  <2>2. Delivery!Nothing
    BY <1>1, <2>1 DEF Delivery!Nothing
  <2> QED
    BY <2>2 DEF Delivery!Next
<1>4. CASE OutputFrame(vd, size)
  <2>1. /\ ret'.frame = Readout(vd) /\ ret'.code # "END_OF_STREAM"
        /\ vd' = Drain(vd) /\ has_pending_pcm' = FALSE
    BY <1>4 DEF OutputFrame, Outcome
  <2>2. Set(ret'.frame) = {Readout(vd)}
    BY <1>1, <1>2, <2>1, FrameIsSet DEF DspOK
  <2>3. vd'.sequence = vd.sequence
    BY <1>2, <2>1, DrainOK
  <2>4. Delivery!Deliver
    BY <1>1, <2>1, <2>2, <2>3 DEF Delivery!Deliver
  <2> QED
    BY <2>4 DEF Delivery!Next
<1>5. PcmAvail(vd) # 0
  BY <1>1
<1> QED
  BY <1>3, <1>4, <1>5 DEF DecodePending, OutputPcm, OutputNothing

(* The window of a block is a frame that follows the block before.         *)
LEMMA WindowIsFrame ==
  ASSUME NEW v \in DspType, DspOK(v), PcmAvail(v) > 0, StreamOK,
         NEW n, v.sequence = n
  PROVE  Readout(v) \in
           {[prev |-> v.mdctright.seq, cur |-> n,
             from |-> w[1], to |-> w[2]] :
              w \in {x \in (0..(pcm_format.max_block_size \div 2))
                             \X (0..(pcm_format.max_block_size \div 2)) :
                       x[1] < x[2]}}
<1> DEFINE limit == pcm_format.max_block_size \div 2
           w == <<v.out_begin, v.out_end>>
<1>1. v.out_begin \in Int /\ v.out_end \in Int
  BY DEF DspType
<1>2. v.out_begin > -1 /\ v.out_begin < v.out_end
  BY <1>1 DEF PcmAvail, Unread
<1>3. /\ Span(vi.blocksizes, v) \in Nat /\ limit \in Nat
      /\ Span(vi.blocksizes, v) <= limit
  <2>1. /\ Span(vi.blocksizes, v) \in Nat
        /\ Span(vi.blocksizes, v) <= vi.blocksizes[1] \div 2
    BY SpanBound DEF StreamOK
  <2>2. vi.blocksizes[1] \in Nat
    BY DEF StreamOK, BlockSizesOK, Flags
  <2>3. \A b \in Nat : b \div 2 \in Nat
    OBVIOUS
  <2> QED
    BY <2>1, <2>2, <2>3 DEF StreamOK
<1>4. v.out_end <= Span(vi.blocksizes, v)
  BY <1>2 DEF DspOK, WindowOK
<1> HIDE DEF limit
<1>5. v.out_begin \in 0..limit /\ v.out_end \in 0..limit
  BY <1>1, <1>2, <1>3, <1>4
<1>6. Readout(v) = [prev |-> v.mdctright.seq, cur |-> n,
                    from |-> w[1], to |-> w[2]]
  BY DEF DspOK, Readout
<1>7. w \in {x \in (0..limit) \X (0..limit) : x[1] < x[2]}
  BY <1>2, <1>5
<1> QED
  BY <1>6, <1>7 DEF limit

LEMMA AudioDelivers ==
  ASSUME IInv, NEW size \in Nat, NEW p \in AudioPackets,
         AudioDecoded(p, size)
  PROVE  Delivery!Next
<1> DEFINE made == Synthesis(vd, p, packet_count)
           b    == Blockin(vi.blocksizes, made, p, packet_count)
<1>1. /\ ~has_pending_pcm /\ ~received_eos /\ state = "DECODING"
      /\ received_eos' \in BOOLEAN
      /\ UNCHANGED <<state, pcm_format, vi>>
  BY DEF AudioDecoded, Audio, Demuxing, AudioPackets
<1>2. /\ vd \in DspType /\ DspOK(vd) /\ BlockSizesOK(vi.blocksizes)
      /\ packet_count \in Nat /\ StreamOK
  BY <1>1, DecodingState DEF TypeOK, StreamOK
<1>3. ~Unread(vd)
  <2>1. PcmAvail(vd) > 0 <=> Unread(vd)
    BY <1>2, PcmAvailBound DEF DspOK
  <2> QED
    BY <1>1, <2>1 DEF IInv, PendingIffUnread
<1>4. vd.sequence < packet_count
  BY <1>1 DEF IInv, PacketCountTracksSequence
<1>5. p \in PacketType /\ p.decodable
  BY CallerAssumption DEF AudioPackets, PacketType
<1>6. /\ BlockinAccepts(made) /\ b \in DspType /\ DspOK(b)
      /\ b.sequence = packet_count /\ b.mdctright.seq = vd.sequence
  BY <1>2, <1>3, <1>4, <1>5, BlockTaken
<1>7. OutputPcm(b, size)
  BY <1>6 DEF AudioDecoded
<1> HIDE DEF made, b
<1>8. pcm_format.max_block_size \div 2 > 0
  <2>1. \A k \in Nat : k > 0 /\ k % 4 = 0 => k \div 2 > 0
    OBVIOUS
  <2> QED
    BY <1>2, <2>1 DEF StreamOK, BlockSizesOK, Flags
<1>9. ASSUME vd'.sequence = packet_count, ret'.code # "END_OF_STREAM"
      PROVE  Delivery!Accept
  BY <1>1, <1>2, <1>4, <1>8, <1>9 DEF Delivery!Accept
<1>10. CASE OutputNothing(b)
  <2>1. /\ vd'.sequence = packet_count /\ has_pending_pcm' = FALSE
        /\ Set(ret'.frame) = {} /\ ret'.code # "END_OF_STREAM"
    BY <1>1, <1>6, <1>10, ReturnDelivers DEF OutputNothing, IInv, TypeOK
  <2> QED
    BY <1>9, <2>1 DEF Delivery!AcceptSilently, Delivery!Next
<1>11. CASE PcmAvail(b) > 0
  <2>1. b.mdctright.seq >= 0
    BY <1>6, <1>11 DEF DspOK
  <2>2. Readout(b) \in
           {[prev |-> vd.sequence, cur |-> packet_count,
             from |-> w[1], to |-> w[2]] :
              w \in {x \in (0..(pcm_format.max_block_size \div 2))
                             \X (0..(pcm_format.max_block_size \div 2)) :
                       x[1] < x[2]}}
    BY <1>2, <1>6, <1>11, WindowIsFrame
  <2>3. CASE OutputTooSmall(b, size)
    <3>1. /\ vd' = b /\ has_pending_pcm' = TRUE
          /\ Set(ret'.frame) = {} /\ ret'.code # "END_OF_STREAM"
      BY <2>3 DEF OutputTooSmall, Outcome, Set
    <3>2. Delivery!Accept
      BY <1>6, <1>9, <3>1
    <3>3. Delivery!AcceptAndHold
      BY <1>1, <1>6, <2>1, <2>2, <3>1, <3>2
         DEF Delivery!AcceptAndHold, Delivery!Frames
    <3> QED
      BY <3>3 DEF Delivery!Next
  <2>4. CASE OutputFrame(b, size)
    <3>1. /\ vd' = Drain(b) /\ has_pending_pcm' = FALSE
          /\ ret'.frame = Readout(b) /\ ret'.code # "END_OF_STREAM"
      BY <2>4 DEF OutputFrame, Outcome
    <3>2. vd'.sequence = packet_count
      BY <1>6, <3>1, DrainOK
    <3>3. Set(ret'.frame) = {Readout(b)}
      BY <2>1, <3>1, FrameIsSet
    <3>4. Delivery!Accept
      BY <1>9, <3>1, <3>2
    <3>5. Delivery!AcceptAndDeliver
      BY <1>1, <1>6, <2>1, <2>2, <3>1, <3>2, <3>3, <3>4
         DEF Delivery!AcceptAndDeliver, Delivery!Frames
    <3> QED
      BY <3>5 DEF Delivery!Next
  <2> QED
    BY <1>7, <1>11, <2>3, <2>4 DEF OutputPcm, OutputNothing
<1> QED
  BY <1>7, <1>10, <1>11 DEF OutputPcm, OutputTooSmall, OutputFrame

LEMMA AudioPacketDelivers ==
  ASSUME IInv, NEW size \in Nat, AudioPacket(size)
  PROVE  Delivery!Next
<1>1. ASSUME NEW eos \in BOOLEAN, AudioEmpty(eos, size)
      PROVE  Delivery!Nothing
  <2>1. SameFrames /\ received_eos' \in {received_eos, TRUE}
    BY <1>1 DEF AudioEmpty, lib, SameFrames, IInv, TypeOK
  <2> QED
    BY <1>1, <2>1, DeliversNothing DEF AudioEmpty
<1>2. ASSUME NEW eos \in BOOLEAN, AudioSkipped(eos, size)
      PROVE  Delivery!Nothing
  <2>1. vd' = vd
    BY <1>2 DEF AudioSkipped, Synthesis, BadPacket
  <2>2. SameFrames /\ received_eos' \in {received_eos, TRUE}
    BY <1>2, <2>1 DEF AudioSkipped, SameFrames, IInv, TypeOK
  <2> QED
    BY <1>2, <2>2, DeliversNothing DEF AudioSkipped
<1> QED
  BY <1>1, <1>2, AudioDelivers DEF AudioPacket, Delivery!Next

-----------------------------------------------------------------------------

LEMMA DecodeDelivers ==
  ASSUME IInv, NEW size \in Nat, Decode(size)
  PROVE  Delivery!Next
BY NothingTakenDelivers, EndDelivers, PendingDelivers, IdentificationDelivers,
   CommentDelivers, SetupDelivers, AudioPacketDelivers
   DEF Decode, Delivery!Next

LEMMA StandsStill ==
  ASSUME UNCHANGED vars
  PROVE  UNCHANGED Delivery!vars
<1>1. /\ pcm_format' = pcm_format /\ state' = state /\ vd' = vd
      /\ has_pending_pcm' = has_pending_pcm
      /\ received_eos' = received_eos /\ ret' = ret
  BY DEF vars, audio, lib
<1> QED
  BY <1>1 DEF Delivery!vars

LEMMA StepDelivers ==
  IInv /\ [Next]_vars => [Delivery!Next]_(Delivery!vars)
<1> SUFFICES ASSUME IInv, [Next]_vars
             PROVE  Delivery!Next \/ UNCHANGED Delivery!vars
  OBVIOUS
<1>1. CASE UNCHANGED vars
  BY <1>1, StandsStill
<1>2. CASE Reset
  BY <1>2, ResetDelivers DEF Delivery!Next
<1>3. ASSUME NEW size \in Offers, Decode(size)
      PROVE  Delivery!Next
  BY <1>3, DecodeDelivers, OffersTyped DEF IInv
<1> QED
  BY <1>1, <1>2, <1>3 DEF Next

(* The decoder keeps the promise of PcmDelivery, whatever the stream, the  *)
(* channels, the buffers and the caller: the laps of successive blocks in  *)
(* order, each whole and once, and the end after the last.                 *)
THEOREM DecoderDelivers == Spec => DeliversPcm
BY InitDelivers, StepDelivers, Inductive, PTL
   DEF Spec, DeliversPcm, Delivery!Spec

-----------------------------------------------------------------------------
(* The caller's loop of StreamPlayer: each of its steps is a decode() with *)
(* the buffer it has at hand, so IInv holds throughout.                    *)

(* The last packet of the stream is taken once all the headers are, and    *)
(* the decoder knows then that it was the last.                            *)
StreamInv ==
  /\ left \in Nat /\ buffer \in Nat
  /\ received_eos <=> left = 0
  /\ received_eos => state = "DECODING"
  /\ NothingIsLeftBehind

(* The caller has a buffer; a frame that did not fit is still there and it *)
(* has the bytes for it; a caller that sized its buffer once has enough.   *)
BufferInv ==
  /\ sizing \in {"once", "grow", "exact"}
  /\ buffer > 0
  /\ sizing = "once" /\ state = "DECODING" => buffer = max_output_bytes
  /\ ret.code = "OUTPUT_BUFFER_TOO_SMALL" =>
       state = "DECODING" /\ has_pending_pcm /\ buffer = required_output_bytes

(* Every step of the caller is a call of decode() with its buffer.         *)
LEMMA PlayerDecodes ==
  ASSUME PlayerNext
  PROVE  Decode(buffer) /\ Resize /\ Playing /\ sizing' = sizing
<1>1. CASE FeedPiece
  BY <1>1 DEF FeedPiece, Decode, Demuxer
<1>2. CASE FeedHeader
  <2>1. WholeComment \in Chunks
    BY CallerAssumption DEF WholeComment, Chunks
  <2> QED
    BY <1>2, <2>1 DEF FeedHeader, Decode, Identification, Comment, SetupHeader
<1>3. CASE FeedAudio
  BY <1>3 DEF FeedAudio, Decode, AudioPacket
<1>4. CASE CallWithoutInput
  BY <1>4 DEF CallWithoutInput, Decode, Prologue
<1> QED
  BY <1>1, <1>2, <1>3, <1>4 DEF PlayerNext

(* The number of bytes offered stays one.                                  *)
LEMMA ResizeTyped ==
  ASSUME TypeOK', buffer \in Nat, Resize
  PROVE  buffer' \in Nat
<1>1. /\ pcm_format'.max_block_size \in Nat
      /\ pcm_format'.num_channels \in 0..255
      /\ required_output_bytes' \in Nat
  BY DEF TypeOK, FormatType
<1>2. max_output_bytes' \in Nat
  <2> DEFINE half == pcm_format'.max_block_size \div 2
             num  == pcm_format'.num_channels
  <2>1. half \in Nat /\ num \in Nat
    BY <1>1
  <2>2. max_output_bytes' = half * num * 2
    BY DEF max_output_bytes, bytes_per_sample
  <2> HIDE DEF half, num
  <2> QED
    BY <2>1, <2>2, ScaleMonotone
<1>3. FirstBuffer \in Nat
  BY PlayerAssumption
<1> QED
  BY <1>1, <1>2, <1>3 DEF Resize

LEMMA OutputIsNoEnd ==
  ASSUME NEW v, NEW size, OutputPcm(v, size)
  PROVE  ret'.code \in {"NEED_MORE_DATA", "OUTPUT_BUFFER_TOO_SMALL", "SUCCESS"}
BY DEF OutputPcm, OutputNothing, OutputTooSmall, OutputFrame, Return, Outcome

LEMMA FeedPieceStream ==
  ASSUME StreamInv, FeedPiece
  PROVE  /\ left' = left /\ received_eos' = received_eos /\ state' = state
         /\ ret'.code # "END_OF_STREAM"
BY DEF FeedPiece, DemuxNeedsMore, Return, Outcome, audio

(* A header is taken while the last packet of the stream is still to come. *)
LEMMA FeedHeaderStream ==
  ASSUME FeedHeader
  PROVE  /\ left' = left /\ received_eos' = received_eos /\ ~received_eos
         /\ ret'.code # "END_OF_STREAM"
<1> USE DEF Demuxing, Return, Outcome, audio
<1>1. left' = left
  BY DEF FeedHeader
<1>2. ASSUME NEW f \in Formats, IdentificationAccepted(f, buffer)
      PROVE  /\ received_eos' = received_eos /\ ~received_eos
             /\ ret'.code # "END_OF_STREAM"
  BY <1>2 DEF IdentificationAccepted
<1>3. CASE StreamComment(WholeComment, buffer)
  BY <1>1, <1>3 DEF StreamComment, CommentRejected, CommentContinues,
              CommentCompletes
<1>4. CASE SetupAccepted(buffer)
  BY <1>1, <1>4 DEF SetupAccepted, Setup
<1> QED
  BY <1>1, <1>2, <1>3, <1>4 DEF FeedHeader

LEMMA FeedAudioStream ==
  ASSUME IInv, StreamInv, FeedAudio
  PROVE  /\ left' = left - 1 /\ left > 0 /\ received_eos' = (left = 1)
         /\ state' = "DECODING" /\ ret'.code # "END_OF_STREAM"
<1>1. left' = left - 1 /\ left > 0
  BY DEF FeedAudio
<1>2. ASSUME NEW p \in AudioPackets, p.eos = (left = 1),
             AudioDecoded(p, buffer)
      PROVE  /\ received_eos' = (left = 1)
             /\ state' = "DECODING" /\ ret'.code # "END_OF_STREAM"
  <2>1. /\ ~received_eos /\ received_eos' = (received_eos \/ p.eos)
        /\ state' = "DECODING"
    BY <1>2 DEF AudioDecoded, Audio, Demuxing
  <2>2. \/ \E v : OutputPcm(v, buffer)
        \/ BlockRefused(Synthesis(vd, p, packet_count))
    BY <1>2 DEF AudioDecoded
  <2>3. ret'.code # "END_OF_STREAM"
    BY <2>2, OutputIsNoEnd DEF BlockRefused, Return, Outcome
  <2> QED
    BY <1>2, <2>1, <2>3
<1>3. ASSUME AudioSkipped(left = 1, buffer)
      PROVE  /\ received_eos' = (left = 1)
             /\ state' = "DECODING" /\ ret'.code # "END_OF_STREAM"
  BY <1>3 DEF AudioSkipped, Audio, Demuxing, Return, Outcome
<1> QED
  BY <1>1, <1>2, <1>3 DEF FeedAudio

(* The end is found with the last packet taken and nothing left of it.     *)
LEMMA CallStream ==
  ASSUME IInv, StreamInv, CallWithoutInput
  PROVE  /\ left' = left /\ received_eos' = received_eos /\ state' = state
         /\ NothingIsLeftBehind'
<1>1. left' = left
  BY DEF CallWithoutInput
<1>2. CASE DecodePending(buffer)
  BY <1>1, <1>2, OutputIsNoEnd DEF DecodePending, NothingIsLeftBehind
<1>3. CASE DecodeEmptyBuffer(buffer)
  BY <1>1, <1>3
     DEF DecodeEmptyBuffer, Return, Outcome, audio, NothingIsLeftBehind
<1>4. CASE DecodeEndOfStream(buffer)
  <2>1. /\ received_eos /\ ~has_pending_pcm
        /\ UNCHANGED <<received_eos, state, vd, packet_count>>
    BY <1>4 DEF DecodeEndOfStream, audio, lib
  <2>2. left = 0 /\ state = "DECODING"
    BY <2>1 DEF StreamInv
  <2>3. PcmAvail(vd) = 0
    BY <2>1, NothingHeldNothingUnread
  <2>4. vd.sequence < packet_count
    BY <2>1, <2>2 DEF IInv, PacketCountTracksSequence
  <2> QED
    BY <1>1, <2>1, <2>2, <2>3, <2>4 DEF NothingIsLeftBehind
<1> QED
  BY <1>2, <1>3, <1>4 DEF CallWithoutInput

LEMMA PlayerStreamStep ==
  ASSUME IInv, StreamInv, PlayerNext
  PROVE  IInv' /\ StreamInv'
<1>1. Decode(buffer) /\ Resize /\ buffer \in Nat
  BY PlayerDecodes DEF StreamInv
<1>2. IInv'
  BY <1>1, DecodeKeeps
<1>3. buffer' \in Nat
  BY <1>1, <1>2, ResizeTyped DEF IInv
<1>4. received_eos \in BOOLEAN /\ left \in Nat
  BY DEF IInv, TypeOK, StreamInv
<1>5. ASSUME left' \in Nat, ret'.code # "END_OF_STREAM",
             received_eos' \in BOOLEAN, received_eos' <=> left' = 0,
             received_eos' => state' = "DECODING"
      PROVE  StreamInv'
  <2>1. NothingIsLeftBehind'
    BY <1>5 DEF NothingIsLeftBehind
  <2> QED
    BY <1>3, <1>5, <2>1 DEF StreamInv
<1>6. /\ received_eos <=> left = 0
      /\ received_eos => state = "DECODING"
  BY DEF StreamInv
<1>7. CASE FeedPiece
  <2>1. /\ left' = left /\ received_eos' = received_eos /\ state' = state
        /\ ret'.code # "END_OF_STREAM"
    BY <1>7, FeedPieceStream
  <2> QED
    BY <1>2, <1>4, <1>5, <1>6, <2>1
<1>8. CASE FeedHeader
  <2>1. /\ left' = left /\ received_eos' = received_eos /\ ~received_eos
        /\ ret'.code # "END_OF_STREAM"
    BY <1>8, FeedHeaderStream
  <2> QED
    BY <1>2, <1>4, <1>5, <1>6, <2>1
<1>9. CASE FeedAudio
  <2>1. /\ left' = left - 1 /\ left > 0 /\ received_eos' = (left = 1)
        /\ state' = "DECODING" /\ ret'.code # "END_OF_STREAM"
    BY <1>9, FeedAudioStream
  <2>2. left' \in Nat /\ (left' = 0 <=> left = 1)
    BY <1>4, <2>1
  <2> QED
    BY <1>2, <1>5, <2>1, <2>2
<1>10. CASE CallWithoutInput
  <2>1. /\ left' = left /\ received_eos' = received_eos /\ state' = state
        /\ NothingIsLeftBehind'
    BY <1>10, CallStream
  <2> QED
    BY <1>2, <1>3, <1>4, <1>6, <2>1 DEF StreamInv
<1> QED
  BY <1>7, <1>8, <1>9, <1>10 DEF PlayerNext

LEMMA PlayerStands ==
  ASSUME IInv, StreamInv, UNCHANGED playerVars
  PROVE  IInv' /\ StreamInv'
<1>1. UNCHANGED vars /\ left' = left /\ buffer' = buffer
  BY DEF playerVars, player
<1>2. IInv'
  BY <1>1, StepInv
<1>3. UNCHANGED <<ret, vd, packet_count, received_eos, state>>
  BY <1>1 DEF vars, audio, lib
<1> QED
  BY <1>1, <1>2, <1>3 DEF StreamInv, NothingIsLeftBehind

LEMMA PlayerInitInv == PlayerInit => IInv /\ StreamInv
<1> SUFFICES ASSUME PlayerInit PROVE IInv /\ StreamInv
  OBVIOUS
<1>1. IInv
  BY InitInv DEF PlayerInit
<1>2. /\ buffer \in Nat /\ left \in Nat /\ left # 0
      /\ ~received_eos /\ ret.code = "NEED_MORE_DATA"
  BY PlayerAssumption DEF PlayerInit, Init, Outcome
<1> QED
  BY <1>1, <1>2 DEF StreamInv, NothingIsLeftBehind

LEMMA PlayerInductive == PlayerSpec => [](IInv /\ StreamInv)
<1>1. IInv /\ StreamInv /\ [PlayerNext]_playerVars => (IInv /\ StreamInv)'
  BY PlayerStreamStep, PlayerStands
<1> QED
  BY <1>1, PlayerInitInv, PTL DEF PlayerSpec

(* Whatever the stream and however the caller sizes its buffer, the loop   *)
(* does not see the end of the stream before every packet is taken and     *)
(* every sample is out.                                                    *)
THEOREM LoopLeavesNothing == PlayerSpec => []NothingIsLeftBehind
<1>1. StreamInv => NothingIsLeftBehind
  BY DEF StreamInv
<1> QED
  BY <1>1, PlayerInductive, PTL

LEMMA IdentificationTells ==
  ASSUME NEW size, Identification(size)
  PROVE  /\ state' \in {"EXPECT_IDENTIFICATION", "EXPECT_COMMENT"}
         /\ ret'.code \in {"NEED_MORE_DATA", "INPUT_INVALID",
                           "ALLOCATION_FAILED"}
<1> USE DEF Return, Outcome
<1>1. CASE IdentificationInvalid(size)
  BY <1>1 DEF IdentificationInvalid
<1>2. CASE IdentificationOutOfMemory(size)
  BY <1>2 DEF IdentificationOutOfMemory
<1>3. CASE IdentificationRefused(size)
  BY <1>3 DEF IdentificationRefused
<1>4. ASSUME NEW f \in Formats, IdentificationAccepted(f, size)
      PROVE  /\ state' \in {"EXPECT_IDENTIFICATION", "EXPECT_COMMENT"}
             /\ ret'.code \in {"NEED_MORE_DATA", "INPUT_INVALID",
                               "ALLOCATION_FAILED"}
  BY <1>4 DEF IdentificationAccepted
<1> QED
  BY <1>1, <1>2, <1>3, <1>4 DEF Identification

(* The setup header is what takes the decoder to the audio packets.        *)
LEMMA DecodingEntered ==
  ASSUME NEW size, Decode(size)
  PROVE  /\ ret'.code = "STREAM_INFO_READY" => state' = "DECODING"
         /\ state' = "DECODING" =>
              /\ pcm_format' = pcm_format
              /\ state = "DECODING" \/ ret'.code = "STREAM_INFO_READY"
<1> USE DEF Return, Outcome
<1>1. CASE Prologue(size)
  BY <1>1 DEF Prologue, DecodeNullPointer, DecodeEmptyBuffer,
              DecodeOutOfMemory
<1>2. CASE DecodePending(size)
  BY <1>2, OutputIsNoEnd DEF DecodePending
<1>3. CASE DecodeEndOfStream(size) \/ Demuxer(size)
  BY <1>3 DEF DecodeEndOfStream, Demuxer, DemuxNeedsMore, DemuxFails,
              DemuxSkipsPacket
<1>4. CASE Identification(size)
  BY <1>4, IdentificationTells
<1>5. CASE Comment(size)
  BY <1>5 DEF Comment, StreamComment, CommentRejected, CommentContinues,
              CommentCompletes
<1>6. CASE SetupHeader(size)
  BY <1>6 DEF SetupHeader, SetupInvalid, SetupUnpackFails,
              SetupDspOutOfMemory, SetupBlockOutOfMemory, SetupAccepted
<1>7. CASE AudioPacket(size)
  <2>1. /\ state = "DECODING" /\ state' = state /\ pcm_format' = pcm_format
    BY <1>7 DEF AudioPacket, AudioEmpty, AudioSkipped, AudioDecoded, Audio
  <2> QED
    BY <2>1
<1> QED
  BY <1>1, <1>2, <1>3, <1>4, <1>5, <1>6, <1>7 DEF Decode

LEMMA OutputTells ==
  ASSUME NEW v, NEW size, OutputPcm(v, size),
         ret'.code = "OUTPUT_BUFFER_TOO_SMALL"
  PROVE  OutputTooSmall(v, size)
<1>1. ~OutputNothing(v)
  BY DEF OutputNothing, Return, Outcome
<1>2. ~OutputFrame(v, size)
  BY DEF OutputFrame, Outcome
<1> QED
  BY <1>1, <1>2 DEF OutputPcm

(* A buffer of some bytes is too small only for a frame, the one held back *)
(* if there is one.                                                        *)
LEMMA TooSmallForFrame ==
  ASSUME IInv, NEW size \in Nat, size > 0, Decode(size),
         ret'.code = "OUTPUT_BUFFER_TOO_SMALL"
  PROVE  \E v : /\ OutputTooSmall(v, size) /\ state' = "DECODING"
                /\ has_pending_pcm => v = vd
<1> USE DEF Return, Outcome
<1>1. CASE Prologue(size)
  BY <1>1 DEF Prologue, DecodeNullPointer, DecodeEmptyBuffer,
              DecodeOutOfMemory
<1>2. CASE DecodePending(size)
  <2>1. OutputPcm(vd, size) /\ has_pending_pcm /\ state' = state
    BY <1>2 DEF DecodePending
  <2>2. OutputTooSmall(vd, size)
    BY <2>1, OutputTells
  <2> QED
    BY <2>1, <2>2 DEF IInv, PendingIffUnread
<1>3. CASE DecodeEndOfStream(size) \/ Demuxer(size)
  BY <1>3 DEF DecodeEndOfStream, Demuxer, DemuxNeedsMore, DemuxFails,
              DemuxSkipsPacket
<1>4. CASE Identification(size)
  BY <1>4, IdentificationTells
<1>5. CASE Comment(size)
  BY <1>5 DEF Comment, StreamComment, CommentRejected, CommentContinues,
              CommentCompletes
<1>6. CASE SetupHeader(size)
  BY <1>6 DEF SetupHeader, SetupInvalid, SetupUnpackFails,
              SetupDspOutOfMemory, SetupBlockOutOfMemory, SetupAccepted
<1>7. CASE AudioPacket(size)
  <2>1. ASSUME NEW eos \in BOOLEAN,
               AudioEmpty(eos, size) \/ AudioSkipped(eos, size)
        PROVE  FALSE
    BY <2>1 DEF AudioEmpty, AudioSkipped
  <2>2. ASSUME NEW p \in AudioPackets, AudioDecoded(p, size)
        PROVE  \E v : OutputTooSmall(v, size) /\ state' = "DECODING"
                        /\ ~has_pending_pcm
    <3>1. ~BlockRefused(Synthesis(vd, p, packet_count))
      BY DEF BlockRefused
    <3> QED
      BY <2>2, <3>1, OutputTells DEF AudioDecoded, Audio, Demuxing
  <2> QED
    BY <1>7, <2>1, <2>2 DEF AudioPacket
<1> QED
  BY <1>1, <1>2, <1>3, <1>4, <1>5, <1>6, <1>7 DEF Decode

LEMMA MaxIsPositive == IInv /\ state = "DECODING" => max_output_bytes > 0
<1> SUFFICES ASSUME IInv, state = "DECODING" PROVE max_output_bytes > 0
  OBVIOUS
<1>1. TypeOK /\ StreamOK /\ DspOK(vd) /\ vd \in DspType
  BY DecodingState DEF TypeOK
<1> QED
  BY <1>1, FrameFits DEF DspOK

OneRetry ==
  ret'.code = "OUTPUT_BUFFER_TOO_SMALL" =>
    sizing # "once" /\ ret.code # "OUTPUT_BUFFER_TOO_SMALL"

LEMMA PlayerBufferStep ==
  ASSUME FirstBuffer > 0, IInv, IInv', StreamInv, BufferInv, PlayerNext,
         state' = "DECODING" => max_output_bytes' > 0
  PROVE  BufferInv' /\ OneRetry
<1>1. /\ Decode(buffer) /\ Resize /\ sizing' = sizing
      /\ buffer \in Nat /\ buffer > 0 /\ FirstBuffer \in Nat
  BY PlayerDecodes, PlayerAssumption DEF StreamInv, BufferInv
<1>2. /\ ret'.code = "STREAM_INFO_READY" => state' = "DECODING"
      /\ state' = "DECODING" =>
           /\ max_output_bytes' = max_output_bytes
           /\ state = "DECODING" \/ ret'.code = "STREAM_INFO_READY"
  BY <1>1, DecodingEntered DEF max_output_bytes, bytes_per_sample
<1>3. /\ sizing \in {"once", "grow", "exact"}
      /\ sizing = "once" /\ state = "DECODING" => buffer = max_output_bytes
      /\ ret.code = "OUTPUT_BUFFER_TOO_SMALL" =>
           has_pending_pcm /\ buffer = required_output_bytes
  BY DEF BufferInv
<1>4. ASSUME ret'.code = "OUTPUT_BUFFER_TOO_SMALL"
      PROVE  /\ sizing # "once" /\ ret.code # "OUTPUT_BUFFER_TOO_SMALL"
             /\ state' = "DECODING" /\ has_pending_pcm'
             /\ required_output_bytes' > buffer
  <2>1. PICK v : /\ OutputTooSmall(v, buffer) /\ state' = "DECODING"
                 /\ has_pending_pcm => v = vd
    BY <1>1, <1>4, TooSmallForFrame
  <2>2. /\ buffer < FrameBytes(v) /\ required_output_bytes' = FrameBytes(v)
        /\ has_pending_pcm' = TRUE /\ ret'.offered = buffer
    BY <2>1 DEF OutputTooSmall, Outcome
  <2>3. required_output_bytes' \in Nat
    BY DEF IInv, TypeOK
  <2>4. buffer < max_output_bytes'
    BY <1>4, <2>2 DEF IInv, SafeBuffer
  <2>5. sizing # "once"
    BY <1>1, <1>2, <1>3, <1>4, <2>1, <2>4
  <2>6. ret.code # "OUTPUT_BUFFER_TOO_SMALL"
    <3> SUFFICES ASSUME ret.code = "OUTPUT_BUFFER_TOO_SMALL" PROVE FALSE
      OBVIOUS
    <3>1. buffer = FrameBytes(v)
      BY <1>3, <2>1 DEF IInv, SizeInv
    <3> QED
      BY <1>1, <2>2, <3>1
  <2> QED
    BY <1>1, <2>1, <2>2, <2>3, <2>5, <2>6
<1>5. buffer' > 0
  BY <1>1, <1>2, <1>4 DEF Resize, IInv, TypeOK
<1>6. sizing' = "once" /\ state' = "DECODING" => buffer' = max_output_bytes'
  BY <1>1, <1>2, <1>3, <1>4 DEF Resize
<1>7. ret'.code = "OUTPUT_BUFFER_TOO_SMALL" =>
        state' = "DECODING" /\ has_pending_pcm'
          /\ buffer' = required_output_bytes'
  BY <1>1, <1>4 DEF Resize
<1> QED
  BY <1>1, <1>3, <1>4, <1>5, <1>6, <1>7 DEF BufferInv, OneRetry

LEMMA PlayerBufferStands ==
  ASSUME BufferInv, UNCHANGED playerVars
  PROVE  BufferInv'
<1>1. UNCHANGED vars /\ sizing' = sizing /\ buffer' = buffer
  BY DEF playerVars, player
<1>2. UNCHANGED <<ret, state, pcm_format, has_pending_pcm,
                  required_output_bytes>>
  BY <1>1 DEF vars, audio, lib
<1> QED
  BY <1>1, <1>2 DEF BufferInv, max_output_bytes, bytes_per_sample

(* A caller that has a buffer to begin with is told at most once in a row  *)
(* that it is too small, and not at all if it asked for max_output_bytes():*)
(* for every stream, frame size and order of calls.                        *)
THEOREM OneRetrySuffices ==
  ASSUME FirstBuffer > 0
  PROVE  PlayerSpec => OneRetryIsEnough
<1> DEFINE Enough == state = "DECODING" => max_output_bytes > 0
           Inv    == IInv /\ StreamInv
<1>1. PlayerInit => BufferInv
  BY PlayerAssumption DEF PlayerInit, Init, Outcome, BufferInv
<1>2. Inv => Enough
  BY MaxIsPositive
<1>3. Inv /\ Inv' /\ Enough' /\ BufferInv /\ [PlayerNext]_playerVars
        => BufferInv'
  BY PlayerBufferStep, PlayerBufferStands
<1>4. Inv /\ Inv' /\ Enough' /\ BufferInv /\ PlayerNext => OneRetry
  BY PlayerBufferStep
<1>5. PlayerSpec => []Inv
  BY PlayerInductive
<1> HIDE DEF Enough, Inv
<1> QED
  BY <1>1, <1>2, <1>3, <1>4, <1>5, PTL
     DEF PlayerSpec, OneRetryIsEnough, OneRetry

(* What the caller's loop is handed is what PcmDelivery promises: each of  *)
(* its steps is a step of that specification or leaves it alone.           *)
THEOREM LoopDelivers == PlayerSpec => DeliversPcm
<1>1. PlayerInit => Delivery!Init
  BY InitDelivers DEF PlayerInit
<1>2. IInv /\ StreamInv /\ [PlayerNext]_playerVars
        => [Delivery!Next]_(Delivery!vars)
  <2> SUFFICES ASSUME IInv, StreamInv, [PlayerNext]_playerVars
               PROVE  Delivery!Next \/ UNCHANGED Delivery!vars
    OBVIOUS
  <2>1. CASE PlayerNext
    BY <2>1, PlayerDecodes, DecodeDelivers DEF StreamInv
  <2>2. CASE UNCHANGED playerVars
    BY <2>2, StandsStill DEF playerVars
  <2> QED
    BY <2>1, <2>2
<1> QED
  BY <1>1, <1>2, PlayerInductive, PTL
     DEF PlayerSpec, DeliversPcm, Delivery!Spec
=============================================================================
