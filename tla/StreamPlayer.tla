---------------------------- MODULE StreamPlayer ----------------------------
(***************************************************************************)
(* The decode() loop the public header shows, around OggVorbisDecoder: a   *)
(* caller that plays one well-formed stream with enough memory, and goes   *)
(* on calling decode() until it reports END_OF_STREAM.  Three ways to size *)
(* the output buffer are documented or used by the repository:             *)
(*   once  max_output_bytes() at STREAM_INFO_READY (the header's example); *)
(*   grow  whatever is at hand, enlarged to get_required_output_bytes()    *)
(*         after OUTPUT_BUFFER_TOO_SMALL (the lazy allocation it allows);  *)
(*   exact every fresh packet is offered the first size, and a retry what  *)
(*         is required (decode_stream in the tests).                       *)
(***************************************************************************)
EXTENDS OggVorbisDecoder

CONSTANTS
  Sizings,      \* the ways of this caller
  FirstBuffer,  \* bytes it offers before it knows better
  MaxAudio,     \* bound on the audio packets of the stream
  MaxPieces     \* bound on the calls that only feed input, per packet

ASSUME PlayerAssumption ==
  /\ Sizings \subseteq {"once", "grow", "exact"}
  /\ FirstBuffer \in Nat /\ MaxAudio \in Nat \ {0} /\ MaxPieces \in Nat
  /\ MaxAudio + 3 <= MaxPackets

VARIABLES
  sizing,  \* how this caller sizes its buffer
  buffer,  \* bytes it offers to the next call
  left,    \* audio packets of the stream still to come
  pieces   \* calls since the last packet that fed a part of a page

player == <<sizing, buffer, left, pieces>>

PlayerInit ==
  /\ Init
  /\ sizing \in Sizings /\ buffer = FirstBuffer
  /\ left \in 1..MaxAudio /\ pieces = 0

(* What the caller does with its buffer when the call returns.             *)
Resize ==
  buffer' =
    IF ret'.code = "STREAM_INFO_READY" /\ sizing = "once" THEN max_output_bytes'
    ELSE IF ret'.code = "OUTPUT_BUFFER_TOO_SMALL" /\ sizing # "once"
      THEN required_output_bytes'
    ELSE IF sizing = "exact" THEN FirstBuffer
    ELSE buffer

Playing == ret.code # "END_OF_STREAM"

(* The input so far ends inside a page.                                    *)
FeedPiece ==
  /\ Playing /\ pieces < MaxPieces
  /\ DemuxNeedsMore(buffer)
  /\ pieces' = pieces + 1 /\ Resize
  /\ UNCHANGED <<sizing, left>>

(* The comment packet in one piece: the demuxer hands out what the page    *)
(* holds.                                                                  *)
WholeComment ==
  [length |-> MagicLen, matches |-> TRUE, last_on_page |-> FALSE,
   granulepos |-> -1, end_of_packet |-> TRUE]

FeedHeader ==
  /\ Playing
  /\ \/ \E f \in Formats : IdentificationAccepted(f, buffer)
     \/ StreamComment(WholeComment, buffer)
     \/ SetupAccepted(buffer)
  /\ pieces' = 0 /\ Resize
  /\ UNCHANGED <<sizing, left>>

(* The next audio packet, the last one marked as such; it may be corrupt.  *)
FeedAudio ==
  /\ Playing /\ left > 0
  /\ \/ \E p \in AudioPackets : p.eos = (left = 1) /\ AudioDecoded(p, buffer)
     \/ AudioSkipped(left = 1, buffer)
  /\ left' = left - 1 /\ pieces' = 0 /\ Resize
  /\ UNCHANGED sizing

(* A call that takes no input: the retry of a frame that did not fit, one  *)
(* without a buffer, and the one that finds the end.                       *)
CallWithoutInput ==
  /\ Playing
  /\ \/ DecodePending(buffer)
     \/ DecodeEmptyBuffer(buffer)
     \/ DecodeEndOfStream(buffer)
  /\ Resize
  /\ UNCHANGED <<sizing, left, pieces>>

PlayerNext == FeedPiece \/ FeedHeader \/ FeedAudio \/ CallWithoutInput

playerVars == <<vars, player>>

(* The caller's loop goes on as long as a call is possible.                *)
PlayerSpec == PlayerInit /\ [][PlayerNext]_playerVars /\ WF_playerVars(PlayerNext)

-----------------------------------------------------------------------------
(* The loop ends: the caller is told of the end of the stream.             *)
PlaysToTheEnd == <>(ret.code = "END_OF_STREAM")

(* A frame that did not fit is delivered: TOO_SMALL is recoverable.        *)
TooSmallIsRecovered ==
  ret.code = "OUTPUT_BUFFER_TOO_SMALL" ~> ret.code = "SUCCESS"

(* When the end is reported every packet of the stream has been taken, and *)
(* nothing that was decoded is still in the decoder.                       *)
NothingIsLeftBehind ==
  ret.code = "END_OF_STREAM" =>
    left = 0 /\ PcmAvail(vd) = 0 /\ vd.sequence < packet_count

(* A caller that sized its buffer once is never told it is too small, and  *)
(* no retry of any caller is told so a second time.                        *)
OneRetryIsEnough ==
  [][ret'.code = "OUTPUT_BUFFER_TOO_SMALL" =>
       sizing # "once" /\ ret.code # "OUTPUT_BUFFER_TOO_SMALL"]_playerVars

=============================================================================
