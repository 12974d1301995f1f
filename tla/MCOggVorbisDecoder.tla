------------------------- MODULE MCOggVorbisDecoder -------------------------
(***************************************************************************)
(* Values of the constants of OggVorbisDecoder for TLC.                    *)
(***************************************************************************)
EXTENDS OggVorbisDecoder

Blocks(short, long) == [w \in {0, 1} |-> IF w = 0 THEN short ELSE long]

(* Unequal blocks in mono; equal ones in a stream that can be downmixed.   *)
MCFormats ==
  {[channels |-> 1, blocksizes |-> Blocks(4, 8)],
   [channels |-> 3, blocksizes |-> Blocks(4, 4)]}

MCChannelRequests == {0, 2, 3}

(* A role two layouts have, one of them twice over; one that only some     *)
(* have; a selection too long to be taken.                                 *)
MCRoleSelections ==
  {<<"FC", "FL">>, <<"RL">>, [i \in 1..9 |-> "FL"]}

(* A huge unsigned position, none, one before all samples, one among them. *)
MCGranules == {-2, -1, 0, 3}

MCOutputSizes == {0, 2}

(* A decoder of the stream's own channels only.                            *)
OwnChannels == {0}
NoRoles == {}
=============================================================================
