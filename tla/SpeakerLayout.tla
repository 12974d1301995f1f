--------------------------- MODULE SpeakerLayout ---------------------------
(***************************************************************************)
(* Which source plane carries which loudspeaker, for every channel count   *)
(* of a Vorbis I stream (role_to_plane in ogg_vorbis_decoder.cpp), and the *)
(* planes each of the three output paths of output_pcm reads.              *)
(* Planes are numbered from 0, as in the code.                             *)
(***************************************************************************)
EXTENDS Integers, Sequences

SpeakerRole == {"FL", "FR", "FC", "LFE", "RL", "RR", "SL", "SR", "BC"}

LAYOUTS ==
  [n \in 2..8 |->
     CASE n = 2 -> <<"FL", "FR">>
       [] n = 3 -> <<"FL", "FC", "FR">>
       [] n = 4 -> <<"FL", "FR", "RL", "RR">>
       [] n = 5 -> <<"FL", "FC", "FR", "RL", "RR">>
       [] n = 6 -> <<"FL", "FC", "FR", "RL", "RR", "LFE">>
       [] n = 7 -> <<"FL", "FC", "FR", "SL", "SR", "BC", "LFE">>
       [] n = 8 -> <<"FL", "FC", "FR", "SL", "SR", "RL", "RR", "LFE">>]

(* The planes of a stream with that many channels that carry a role: none, *)
(* or one.  The code returns -1 for none.                                  *)
PlanesOf(role, channels) ==
  IF channels = 1
    THEN {p \in {0} : role \in {"FL", "FR", "FC"}}
    ELSE {p \in 0..(channels - 1) :
            channels <= 8 /\ LAYOUTS[channels][p + 1] = role}

(* Mutant: only the first selected role is marked.                         *)
KeepMaskOfFirst(sel, channels) ==
  IF sel = <<>> THEN 0..(channels - 1) ELSE PlanesOf(sel[1], channels)

(* The keep mask handle_setup_packet gives Tremor: every plane, unless     *)
(* raw selection is active, which keeps the selected planes only.          *)
KeepMask(sel, channels) ==
  IF sel = <<>>
    THEN 0..(channels - 1)
    ELSE UNION {PlanesOf(sel[i], channels) : i \in DOMAIN sel}

(* The channels of the PCM that decode() produces: a selection wins, then  *)
(* the smart-downmix request, then the stream's own count.                 *)
OutputChannels(sel, requested, channels) ==
  IF sel # <<>> THEN Len(sel)
  ELSE IF requested # 0 THEN requested
  ELSE channels

(* The planes output_pcm passes to vorbis_synthesis_lapout: the selected   *)
(* ones; the first eight in a downmix; one per output channel otherwise.   *)
PlanesRead(sel, requested, channels) ==
  LET out == OutputChannels(sel, requested, channels)
  IN  IF sel # <<>>
        THEN UNION {PlanesOf(sel[i], channels) : i \in 1..out}
      ELSE IF out # channels
        THEN 0..((IF channels < 8 THEN channels ELSE 8) - 1)
      ELSE 0..(out - 1)
=============================================================================
