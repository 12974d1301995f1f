---------------------------- MODULE PcmDelivery ----------------------------
(***************************************************************************)
(* What a caller is promised about the PCM of a stream, whatever the       *)
(* decoder does inside: the blocks are taken in the order of their         *)
(* numbers, each lap of two successive blocks is delivered whole and       *)
(* once, before the next block is taken, no frame is longer than half a    *)
(* long block, and the end is reported only after the last frame.          *)
(***************************************************************************)
EXTENDS Integers

VARIABLES
  limit,      \* samples in the longest frame; 0 while that is unknown
  last,       \* number of the last block taken, -1 for none
  owed,       \* the frame taken and not delivered yet, if any
  ended,      \* the last packet of the stream has been seen
  delivered,  \* the frame the last call delivered, if any
  done        \* the last call reported the end of the stream

vars == <<limit, last, owed, ended, delivered, done>>

Init ==
  /\ limit = 0 /\ last = -1 /\ owed = {} /\ ended = FALSE
  /\ delivered = {} /\ done = FALSE

(* The lap of the last block taken with block b, or a part of it.          *)
Frames(b) ==
  {[prev |-> last, cur |-> b, from |-> w[1], to |-> w[2]] :
     w \in {x \in (0..limit) \X (0..limit) : x[1] < x[2]}}

(* A call that delivers nothing; it may have seen the end of the stream.   *)
Nothing ==
  /\ delivered' = {} /\ done' = FALSE
  /\ ended' \in {ended, TRUE}
  /\ UNCHANGED <<limit, last, owed>>

Open ==
  /\ limit = 0 /\ limit' \in Nat \ {0}
  /\ delivered' = {} /\ done' = FALSE
  /\ UNCHANGED <<last, owed, ended>>

Accept ==
  /\ limit > 0 /\ ~ended /\ owed = {}
  /\ last' \in Nat /\ last' > last
  /\ ended' \in BOOLEAN
  /\ done' = FALSE
  /\ UNCHANGED limit

(* The first block, and one whose samples are all trimmed away.            *)
AcceptSilently == Accept /\ delivered' = {} /\ owed' = {}

AcceptAndDeliver ==
  /\ Accept /\ last >= 0
  /\ \E f \in Frames(last') : delivered' = {f}
  /\ owed' = {}

AcceptAndHold ==
  /\ Accept /\ last >= 0
  /\ \E f \in Frames(last') : owed' = {f}
  /\ delivered' = {}

Deliver ==
  /\ owed # {} /\ delivered' = owed /\ owed' = {}
  /\ done' = FALSE
  /\ UNCHANGED <<limit, last, ended>>

Finish ==
  /\ ended /\ owed = {}
  /\ delivered' = {} /\ done' = TRUE
  /\ UNCHANGED <<limit, last, owed, ended>>

(* The caller starts over, at any time.                                    *)
StartOver ==
  /\ limit' = 0 /\ last' = -1 /\ owed' = {} /\ ended' = FALSE
  /\ delivered' = {} /\ done' = FALSE

Next ==
  \/ Nothing \/ Open \/ AcceptSilently \/ AcceptAndDeliver \/ AcceptAndHold
  \/ Deliver \/ Finish \/ StartOver

Spec == Init /\ [][Next]_vars
=============================================================================
