------------------------------ MODULE MdctLap ------------------------------
(***************************************************************************)
(* mdct_unroll_lap (mdct.c): how the samples start .. end - 1 of the lap   *)
(* of two blocks are put together from the half                            *)
(* transform of the second block (in) and the tail of the first (right).   *)
(*                                                                         *)
(* A sample is described by what it is made of, not by its value:          *)
(*   right, wR   index of the tail value and of its window factor,         *)
(*   left, wL    index of the half transform value and of its factor,      *)
(*   minus       the value of the half transform is negated.               *)
(* None stands for a value, or a factor, that takes no part.               *)
(***************************************************************************)
EXTENDS TremorDsp

None == -1

Sample(right, wR, left, minus, wL) ==
  [right |-> right, wR |-> wR, left |-> left, minus |-> minus, wL |-> wL]

Upto(n) == 0..(n - 1)

-----------------------------------------------------------------------------
(* The code: the frame is cut into up to four regions, each handled by a   *)
(* loop that moves the four pointers in, right, w0 or w1 on.               *)

(* The block size whose window laps: the shorter of the two.               *)
LapSize(bs, lW, W) == IF lW = 1 /\ W = 1 THEN bs[1] ELSE bs[0]

PreLap(bs, lW, W) ==
  IF lW = 1 /\ W = 0 THEN bs[1] \div 4 - bs[0] \div 4 ELSE 0

(* Mutant: the size of the new block alone decides.                        *)
HalfLapOfBlock(bs, lW, W) == bs[W] \div 4

HalfLap(bs, lW, W) == LapSize(bs, lW, W) \div 4

PostLap(bs, lW, W) ==
  IF lW = 0 /\ W = 1 THEN bs[1] \div 4 - bs[0] \div 4 ELSE 0

(* Mutant: the part of a region an earlier strip has read is not skipped.  *)
RegionFromStart(start, end, length) ==
  [off |-> 0, n |-> Lesser(end, length),
   start |-> start - Lesser(start, length), end |-> end - Lesser(end, length)]

(* The part off .. n - 1 of a region of that length, and what is left for  *)
(* the regions behind it.                                                  *)
Region(start, end, length) ==
  [off |-> Lesser(start, length), n |-> Lesser(end, length),
   start |-> start - Lesser(start, length), end |-> end - Lesser(end, length)]

UnrollLap(bs, lW, W, start, end) ==
  LET lap  == LapSize(bs, lW, W)
      pre  == Region(start, end, PreLap(bs, lW, W))
      fore == Region(pre.start, pre.end, HalfLap(bs, lW, W))
      aft  == Region(fore.start, fore.end, HalfLap(bs, lW, W))
      post == Region(aft.start, aft.end, PostLap(bs, lW, W))
      \* the pointers at the start of each loop
      r    == bs[lW] \div 4
      rF   == r - pre.n
      rA   == rF - fore.n
      l    == lap \div 2
      lA   == l - 2 * fore.n
      lP   == lA + 2 * aft.n
      wR   == lap \div 2
      wRA  == wR - fore.n
      wLA  == fore.n
      \* the samples each loop has written when it ends
      c1   == pre.n - pre.off
      c2   == c1 + fore.n - fore.off
      c3   == c2 + aft.n - aft.off
      c4   == c3 + post.n - post.off
      Before(i)  == Sample(r - pre.off - 1 - i, None, None, FALSE, None)
      Falling(i) == Sample(rF - fore.off - 1 - i, wR - fore.off - 1 - i,
                           l - 2 * fore.off - 2 - 2 * i, FALSE, fore.off + i)
      Rising(i)  == Sample(rA + aft.off + i, wRA - aft.off - 1 - i,
                           lA + 2 * aft.off + 2 * i, TRUE, wLA + aft.off + i)
      After(i)   == Sample(None, None, lP + 2 * post.off + 2 * i, TRUE, None)
  IN  [k \in Upto(c4) |->
         IF k < c1 THEN Before(k)
         ELSE IF k < c2 THEN Falling(k - c1)
         ELSE IF k < c3 THEN Rising(k - c2)
         ELSE After(k - c3)]

-----------------------------------------------------------------------------
(* The reference: time domain aliasing cancellation.  The second half of a *)
(* block is even around its middle and the first half odd around its; a    *)
(* frame runs from the centre of one block to the centre of the next; the  *)
(* two windows cross over a stretch of half the shorter block, centred     *)
(* where both halves have their middle.                                    *)

(* The tail value at distance p from the centre of a block of n values.    *)
TailAt(n, p) == IF p < n \div 4 THEN n \div 4 - 1 - p ELSE p - n \div 4

(* The half transform value at position p of a block of n values.          *)
HeadAt(n, p) ==
  IF p < n \div 4 THEN 2 * (n \div 4 - 1 - p) ELSE 2 * (p - n \div 4)

Lapped(bs, lW, W, k) ==
  LET middle == bs[lW] \div 4
      cross  == Lesser(bs[lW], bs[W]) \div 4
      p      == k - middle + bs[W] \div 4
      w      == k - (middle - cross)
      head   == HeadAt(bs[W], p)
      minus  == p >= bs[W] \div 4
  IN  IF k < middle - cross
        THEN Sample(TailAt(bs[lW], k), None, None, FALSE, None)
      ELSE IF k < middle + cross
        THEN Sample(TailAt(bs[lW], k), 2 * cross - 1 - w, head, minus, w)
      ELSE Sample(None, None, head, minus, None)

(* The arrays have those indices: the tail a quarter of the first block,   *)
(* the half transform half of the second, the window half of the shorter.  *)
ReadsInside(bs, lW, W, s) ==
  /\ s.right # None => s.right \in Upto(bs[lW] \div 4)
  /\ s.left # None => s.left \in Upto(bs[W] \div 2)
  /\ s.wR # None => s.wR \in Upto(LapSize(bs, lW, W) \div 2)
  /\ s.wL # None => s.wL \in Upto(LapSize(bs, lW, W) \div 2)
=============================================================================
