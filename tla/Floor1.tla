------------------------------- MODULE Floor1 -------------------------------
(***************************************************************************)
(* Floor 1 (floor1.c): the neighbours floor1_unpack finds for every post,  *)
(* the heights floor1_inverse1 restores from what a packet codes, and the  *)
(* curve floor1_inverse2 draws through the posts in use.                   *)
(*                                                                         *)
(* A loop of the code is a run of steps, so that what holds in its midst   *)
(* can be said.  The entry of the dB table that is looked up stands for    *)
(* the factor a sample is multiplied by.                                   *)
(***************************************************************************)
EXTENDS Integers, Sequences

CONSTANTS
  PostLists,  \* positions of the posts of the floors unpack lets through
  Mults,      \* their multipliers
  Halves,     \* half block sizes
  Heights,    \* what is read for the first two posts
  Codes       \* what the books give for the others

floor1_quant_q == <<256, 128, 86, 64>>
VIF_POSIT == 63
UNUSED == 32768              \* 0x8000, the flag of a post without a height
EndOfPacket == -1            \* what oggpack_read returns then

Lesser(a, b) == IF a <= b THEN a ELSE b
Size(x) == IF x < 0 THEN -x ELSE x
Masked(y) == y % UNUSED

PostsOf(list) == DOMAIN list
(* Posts are counted from 0; the first is at 0, the second behind all      *)
(* others, and no two are at the same place.                               *)
PostListOK(list) ==
  /\ \E last \in 1..(VIF_POSIT + 1) : PostsOf(list) = 0..last
  /\ \A p \in PostsOf(list) : list[p] \in Nat
  /\ list[0] = 0
  /\ \A p \in PostsOf(list) \ {0, 1} : 0 < list[p] /\ list[p] < list[1]
  /\ \A p, q \in PostsOf(list) : p # q => list[p] # list[q]
  /\ 0 < list[1]

ASSUME Floor1Assumption ==
  /\ \A list \in PostLists : PostListOK(list)
  /\ Mults \subseteq 1..4
  /\ Halves \subseteq Nat \ {0}
  /\ Heights \subseteq 0..255
  /\ Codes \subseteq Nat

VARIABLES
  pc, j, k,
  postlist, mult, n,
  lo, hi, lx, hx,              \* lx and hx: locals of unpack and of inverse2
  loneighbor, hineighbor,
  forward_index,               \* the posts in the order of their positions
  fit_value,
  ly, hy, x, y, err,           \* the line being drawn
  out                          \* for each sample, the factors it has got

floor == <<postlist, mult, n>>
search == <<lo, hi, lx, hx>>
neighbors == <<loneighbor, hineighbor, forward_index>>
line == <<ly, hy, x, y, err>>
vars == <<pc, j, k, floor, search, neighbors, fit_value, line, out>>

Posts == PostsOf(postlist)
Inner == Posts \ {0, 1}
Samples == 0..(n - 1)
quant_q == floor1_quant_q[mult]

-----------------------------------------------------------------------------
(* floor1_unpack.                                                          *)

Init ==
  /\ pc = "look" /\ j = 2 /\ k = 0
  /\ postlist \in PostLists /\ mult \in Mults /\ n \in Halves
  /\ lo = 0 /\ hi = 1 /\ lx = 0 /\ hx = postlist[1]
  /\ loneighbor = [p \in Inner |-> 0] /\ hineighbor = [p \in Inner |-> 0]
  /\ forward_index = [p \in Posts |-> p]
  /\ fit_value = [p \in Posts |-> 0]
  /\ ly = 0 /\ hy = 0 /\ x = 0 /\ y = 0 /\ err = 0
  /\ out = [s \in Samples |-> <<>>]

(* Mutant: any post above is taken for a nearer one.                       *)
LookAtPostLast ==
  /\ pc = "look" /\ j \in Posts /\ k < j
  /\ LET at == postlist[k]
         closerBelow == at > lx /\ at < postlist[j]
         closerAbove == at > postlist[j]
     IN  /\ lo' = IF closerBelow THEN k ELSE lo
         /\ lx' = IF closerBelow THEN at ELSE lx
         /\ hi' = IF closerAbove THEN k ELSE hi
         /\ hx' = IF closerAbove THEN at ELSE hx
  /\ k' = k + 1
  /\ UNCHANGED <<pc, j, floor, neighbors, fit_value, line, out>>

(* One earlier post, compared with the nearest so far on either side.      *)
LookAtPost ==
  /\ pc = "look" /\ j \in Posts /\ k < j
  /\ LET at == postlist[k]
         closerBelow == at > lx /\ at < postlist[j]
         closerAbove == at < hx /\ at > postlist[j]
     IN  /\ lo' = IF closerBelow THEN k ELSE lo
         /\ lx' = IF closerBelow THEN at ELSE lx
         /\ hi' = IF closerAbove THEN k ELSE hi
         /\ hx' = IF closerAbove THEN at ELSE hx
  /\ k' = k + 1
  /\ UNCHANGED <<pc, j, floor, neighbors, fit_value, line, out>>

KeepNeighbors ==
  /\ pc = "look" /\ j \in Posts /\ k = j
  /\ loneighbor' = [loneighbor EXCEPT ![j] = lo]
  /\ hineighbor' = [hineighbor EXCEPT ![j] = hi]
  /\ j' = j + 1 /\ k' = 0
  /\ lo' = 0 /\ hi' = 1 /\ lx' = 0 /\ hx' = postlist[1]
  /\ UNCHANGED <<pc, floor, forward_index, fit_value, line, out>>

(* qsort by position; in the code it comes first, to refuse equal ones.    *)
Sorted(list, order) ==
  /\ \A p \in PostsOf(list) : \E i \in PostsOf(list) : order[i] = p
  /\ \A p, q \in PostsOf(list) : p < q => list[order[p]] < list[order[q]]

Unpacked ==
  /\ pc = "look" /\ j \notin Posts
  /\ \E order \in [Posts -> Posts] :
       Sorted(postlist, order) /\ forward_index' = order
  /\ pc' = "read"
  /\ UNCHANGED <<j, k, floor, search, loneighbor, hineighbor, fit_value, line, out>>

-----------------------------------------------------------------------------
(* floor1_inverse1.                                                        *)

(* What a packet may hold: two heights of so many bits, then codes.  Once  *)
(* it has ended every book says so, and only posts without one remain.     *)
MaxRead(q) == IF q = 256 THEN 255 ELSE IF q = 64 THEN 63 ELSE 127
ReadsLike(fit) ==
  /\ fit[0] \in Heights \cup {EndOfPacket} /\ fit[0] <= MaxRead(quant_q)
  /\ fit[1] \in Heights \cup {EndOfPacket} /\ fit[1] <= MaxRead(quant_q)
  /\ fit[0] = EndOfPacket => fit[1] = EndOfPacket
  /\ fit[1] = EndOfPacket => \A p \in Inner : fit[p] = 0

ReadFloor ==
  /\ pc = "read"
  /\ \E first, second \in Heights \cup {EndOfPacket}, codes \in [Inner -> Codes \cup {0}] :
       fit_value' = [p \in Posts |-> IF p = 0 THEN first
                                     ELSE IF p = 1 THEN second ELSE codes[p]]
  /\ ReadsLike(fit_value')
  /\ pc' = "unwrap" /\ j' = 2
  /\ UNCHANGED <<k, floor, search, neighbors, line, out>>

(* The height at x of the line from (x0, y0) to (x1, y1).                  *)
render_point(x0, x1, y0, y1, at) ==
  LET off == (Size(y1 - y0) * (at - x0)) \div (x1 - x0)
  IN  IF y1 < y0 THEN y0 - off ELSE y0 + off

(* What post p would be without a code of its own.                         *)
Predicted(p) ==
  render_point(postlist[loneighbor[p]], postlist[hineighbor[p]],
               Masked(fit_value[loneighbor[p]]), Masked(fit_value[hineighbor[p]]),
               postlist[p])

(* Mutant: the rest of the longer side starts one too far.                 *)
UnwrapLong(q, predicted, val) ==
  LET hiroom == q - predicted
      loroom == predicted
      room == 2 * Lesser(hiroom, loroom)
  IN  IF val >= room
        THEN IF hiroom > loroom THEN val - loroom ELSE val - hiroom
        ELSE IF val % 2 = 1 THEN -((val + 1) \div 2) ELSE val \div 2

(* A code, unwrapped: how far from the prediction the height is.  Up and   *)
(* down take turns as long as there is room on both sides.                 *)
Unwrap(q, predicted, val) ==
  LET hiroom == q - predicted
      loroom == predicted
      room == 2 * Lesser(hiroom, loroom)
  IN  IF val >= room
        THEN IF hiroom > loroom THEN val - loroom ELSE -1 - (val - hiroom)
        ELSE IF val % 2 = 1 THEN -((val + 1) \div 2) ELSE val \div 2

UnwrapPost ==
  /\ pc = "unwrap" /\ j \in Posts /\ fit_value[j] # 0
  /\ LET predicted == Predicted(j)
         height == Masked(Unwrap(quant_q, predicted, fit_value[j]) + predicted)
     IN  fit_value' =
           [p \in Posts |-> IF p = j THEN height
                            ELSE IF p \in {loneighbor[j], hineighbor[j]}
                              THEN Masked(fit_value[p]) ELSE fit_value[p]]
  /\ j' = j + 1
  /\ UNCHANGED <<pc, k, floor, search, neighbors, line, out>>

SkipPost ==
  /\ pc = "unwrap" /\ j \in Posts /\ fit_value[j] = 0
  /\ fit_value' = [fit_value EXCEPT ![j] = Predicted(j) + UNUSED]
  /\ j' = j + 1
  /\ UNCHANGED <<pc, k, floor, search, neighbors, line, out>>

-----------------------------------------------------------------------------
(* floor1_inverse2.                                                        *)

(* Mutant: no guard against what would not fit.                            *)
LevelUnguarded(m, height) == height * m

(* A height times the multiplier, kept inside the dB table.                *)
Level(m, height) ==
  LET h == height * m IN IF h < 0 THEN 0 ELSE IF h > 255 THEN 255 ELSE h

StartCurve ==
  /\ pc = "unwrap" /\ j \notin Posts
  /\ lx' = 0 /\ hx' = 0 /\ ly' = Level(mult, fit_value[0])
  /\ pc' = "draw" /\ j' = 1
  /\ UNCHANGED <<k, floor, lo, hi, neighbors, fit_value, hy, x, y, err, out>>

Multiply(s, level) == out' = [out EXCEPT ![s] = Append(@, level)]

InUse(height) == height = Masked(height)

PassUnused ==
  /\ pc = "draw" /\ j \in Posts /\ ~InUse(fit_value[forward_index[j]])
  /\ j' = j + 1
  /\ UNCHANGED <<pc, k, floor, search, neighbors, fit_value, line, out>>

(* render_line, up to and with its first sample.                           *)
StartLine ==
  /\ pc = "draw" /\ j \in Posts /\ InUse(fit_value[forward_index[j]])
  /\ hx' = postlist[forward_index[j]]
  /\ hy' = Level(mult, fit_value[forward_index[j]])
  /\ x' = lx /\ y' = ly /\ err' = 0
  /\ IF lx < Lesser(n, hx') THEN Multiply(lx, ly) ELSE UNCHANGED out
  /\ pc' = "line"
  /\ UNCHANGED <<j, k, floor, lo, hi, lx, neighbors, fit_value, ly>>

(* dy / adx, towards zero.                                                 *)
Base(dy, adx) == IF dy < 0 THEN -((-dy) \div adx) ELSE dy \div adx

(* Mutant: the error is carried one step late.                             *)
DrawSampleLate ==
  /\ pc = "line" /\ x + 1 < Lesser(n, hx)
  /\ LET dy == hy - ly
         adx == hx - lx
         base == Base(dy, adx)
         ady == Size(dy) - Size(base * adx)
         carry == err + ady > adx
     IN  /\ err' = IF carry THEN err + ady - adx ELSE err + ady
         /\ y' = IF ~carry THEN y + base
                 ELSE IF dy < 0 THEN y + base - 1 ELSE y + base + 1
  /\ x' = x + 1
  /\ Multiply(x', y')
  /\ UNCHANGED <<pc, j, k, floor, search, neighbors, fit_value, ly, hy>>

DrawSample ==
  /\ pc = "line" /\ x + 1 < Lesser(n, hx)
  /\ LET dy == hy - ly
         adx == hx - lx
         base == Base(dy, adx)
         ady == Size(dy) - Size(base * adx)
         carry == err + ady >= adx
     IN  /\ err' = IF carry THEN err + ady - adx ELSE err + ady
         /\ y' = IF ~carry THEN y + base
                 ELSE IF dy < 0 THEN y + base - 1 ELSE y + base + 1
  /\ x' = x + 1
  /\ Multiply(x', y')
  /\ UNCHANGED <<pc, j, k, floor, search, neighbors, fit_value, ly, hy>>

(* Mutant: the next line starts as high as this one did.                   *)
EndLineLevel ==
  /\ pc = "line" /\ ~(x + 1 < Lesser(n, hx))
  /\ lx' = hx
  /\ pc' = "draw" /\ j' = j + 1
  /\ UNCHANGED <<k, floor, lo, hi, hx, neighbors, fit_value, ly, hy, x, y, err, out>>

EndLine ==
  /\ pc = "line" /\ ~(x + 1 < Lesser(n, hx))
  /\ lx' = hx /\ ly' = hy
  /\ pc' = "draw" /\ j' = j + 1
  /\ UNCHANGED <<k, floor, lo, hi, hx, neighbors, fit_value, hy, x, y, err, out>>

StartTail ==
  /\ pc = "draw" /\ j \notin Posts
  /\ pc' = "tail" /\ x' = hx
  /\ UNCHANGED <<j, k, floor, search, neighbors, fit_value, ly, hy, y, err, out>>

DrawTail ==
  /\ pc = "tail" /\ x < n
  /\ Multiply(x, ly)
  /\ x' = x + 1
  /\ UNCHANGED <<pc, j, k, floor, search, neighbors, fit_value, ly, hy, y, err>>

(* The heights go with the packet's arena, the rest are locals.            *)
EndCurve ==
  /\ pc = "tail" /\ x >= n
  /\ pc' = "read"
  /\ j' = 0 /\ k' = 0
  /\ lo' = 0 /\ hi' = 0 /\ lx' = 0 /\ hx' = 0
  /\ ly' = 0 /\ hy' = 0 /\ x' = 0 /\ y' = 0 /\ err' = 0
  /\ fit_value' = [p \in Posts |-> 0]
  /\ out' = [s \in Samples |-> <<>>]
  /\ UNCHANGED <<floor, neighbors>>

Next ==
  \/ LookAtPost \/ KeepNeighbors \/ Unpacked
  \/ ReadFloor \/ UnwrapPost \/ SkipPost
  \/ StartCurve \/ PassUnused \/ StartLine \/ DrawSample \/ EndLine
  \/ StartTail \/ DrawTail \/ EndCurve

Spec == Init /\ [][Next]_vars

-----------------------------------------------------------------------------
(* The heights are any integers; what the dB table is read at, which is ly *)
(* and y (render_line has no guard of its own), is inside it.              *)
TypeOK ==
  /\ pc \in {"look", "read", "unwrap", "draw", "line", "tail"}
  /\ j \in Nat /\ k \in Nat
  /\ postlist \in PostLists /\ mult \in Mults /\ n \in Halves
  /\ lo \in Posts /\ hi \in Posts /\ lx \in Nat /\ hx \in Nat
  /\ loneighbor \in [Inner -> Posts] /\ hineighbor \in [Inner -> Posts]
  /\ forward_index \in [Posts -> Posts]
  /\ fit_value \in [Posts -> Int]
  /\ ly \in 0..255 /\ hy \in 0..255 /\ y \in 0..255
  /\ x \in Nat /\ err \in Nat
  /\ out \in [Samples -> Seq(0..255)]

(* below and above are the nearest posts listed before p on either side.   *)
NearestOf(list, p, below, above) ==
  /\ below < p /\ above < p
  /\ list[below] < list[p] /\ list[p] < list[above]
  /\ \A q \in PostsOf(list) : q < p => list[q] <= list[below] \/ list[above] <= list[q]

(* The neighbours of a post are the nearest of the earlier posts on either *)
(* side of it: floor1_unpack's search keeps them whatever the order the    *)
(* posts are listed in.                                                    *)
NeighborsAreNearest ==
  \A p \in Inner : pc # "look" \/ p < j =>
    NearestOf(postlist, p, loneighbor[p], hineighbor[p])

(* Whatever the prediction, the q - 1 codes there are give the q - 1 other *)
(* heights of the range, each exactly once (the prediction itself is sent  *)
(* as 0): floor1_inverse1 restores what an encoder wrapped, in range.      *)
EveryHeightHasItsCode ==
  pc = "unwrap" /\ j \in Posts /\ Predicted(j) \in 0..(quant_q - 1) =>
    LET predicted == Predicted(j)
    IN  {predicted + Unwrap(quant_q, predicted, val) : val \in 1..(quant_q - 1)}
          = (0..(quant_q - 1)) \ {predicted}

(* The running error of render_line keeps the line where one division      *)
(* would put it, up or down, steep or flat.                                *)
LineIsStraight == pc = "line" => y = render_point(lx, hx, ly, hy, x)

(* The curve by its definition: the line between the nearest posts in use  *)
(* on either side, and level behind the last.                              *)
Curve(list, fit, m, s) ==
  LET left == {p \in PostsOf(list) : (p = 0 \/ InUse(fit[p])) /\ list[p] <= s}
      right == {p \in PostsOf(list) : (p # 0 /\ InUse(fit[p])) /\ s < list[p]}
      before == CHOOSE p \in left : \A q \in left : list[q] <= list[p]
      after == CHOOSE p \in right : \A q \in right : list[p] <= list[q]
  IN  IF right = {} THEN Level(m, fit[before])
      ELSE render_point(list[before], list[after],
                        Level(m, fit[before]), Level(m, fit[after]), s)

(* floor1_inverse2 multiplies every sample of the half block exactly once, *)
(* by the level of the curve there: the lines meet without gap or overlap, *)
(* whatever posts are in use and wherever the last of them is.             *)
FloorIsDrawn ==
  pc = "tail" /\ x >= n =>
    \A s \in Samples : out[s] = <<Curve(postlist, fit_value, mult, s)>>
=============================================================================
