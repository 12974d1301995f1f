---------------------------- MODULE Floor1Proofs ----------------------------
(***************************************************************************)
(* Floor 1 for every list of posts, multiplier and block size, and every   *)
(* packet: the neighbours unpack finds are the nearest ones, render_line   *)
(* draws straight lines, and the curve drawn is the one defined.           *)
(***************************************************************************)
EXTENDS Floor1, TLAPS

-----------------------------------------------------------------------------
(* Arithmetic.                                                             *)

LEMMA TimesNat == ASSUME NEW a \in Nat, NEW b \in Nat PROVE a * b \in Nat
OBVIOUS

(* Multiplication keeps the order.                                         *)
LEMMA TimesMonotone ==
  ASSUME NEW a \in Nat, NEW b \in Nat, NEW m \in Nat, a <= b
  PROVE  a * m <= b * m
<1> DEFINE d == b - a
<1>1. d \in Nat /\ b = a + d
  OBVIOUS
<1> HIDE DEF d
<1>2. b * m = a * m + d * m
  BY <1>1
<1>3. d * m \in Nat /\ a * m \in Nat
  BY <1>1, TimesNat
<1> QED
  BY <1>2, <1>3

LEMMA Quotient ==
  ASSUME NEW a \in Nat, NEW b \in Nat \ {0}
  PROVE  /\ a \div b \in Nat
         /\ (a \div b) * b <= a /\ a < (a \div b) * b + b
OBVIOUS

(* What is a quotient and a remainder is the quotient.                     *)
LEMMA QuotientIs ==
  ASSUME NEW a \in Nat, NEW b \in Nat \ {0}, NEW u \in Nat, NEW e \in Nat,
         e < b, u * b + e = a
  PROVE  a \div b = u
<1> DEFINE v == a \div b
<1>1. v \in Nat /\ v * b <= a /\ a < v * b + b
  BY Quotient
<1> HIDE DEF v
<1>2. u * b \in Nat /\ v * b \in Nat
  BY <1>1, TimesNat
<1>3. ASSUME u + 1 <= v PROVE FALSE
  <2>1. (u + 1) * b <= v * b
    BY <1>1, <1>3, TimesMonotone
  <2>2. (u + 1) * b = u * b + b
    OBVIOUS
  <2> QED
    BY <2>1, <2>2, <1>1, <1>2
<1>4. ASSUME v + 1 <= u PROVE FALSE
  <2>1. (v + 1) * b <= u * b
    BY <1>1, <1>4, TimesMonotone
  <2>2. (v + 1) * b = v * b + b
    BY <1>1
  <2> QED
    BY <2>1, <2>2, <1>1, <1>2
<1> QED
  BY <1>1, <1>3, <1>4 DEF v

-----------------------------------------------------------------------------
(* One line.                                                               *)

(* After t steps of a line that goes d up or down over a samples, u and    *)
(* the running error e.                                                    *)
Steps(d, a, t, u, e) == u \in Nat /\ e \in Nat /\ e < a /\ u * a + e = d * t

(* One more step of render_line.                                           *)
LEMMA OneMoreStep ==
  ASSUME NEW d \in Nat, NEW a \in Nat \ {0}, NEW t \in Nat, NEW u, NEW e,
         Steps(d, a, t, u, e)
  PROVE  LET base == d \div a
             r == d - base * a
         IN  /\ base \in Nat /\ r \in Nat /\ base * a \in Nat
             /\ e + r >= a => Steps(d, a, t + 1, u + base + 1, e + r - a)
             /\ ~(e + r >= a) => Steps(d, a, t + 1, u + base, e + r)
<1> DEFINE base == d \div a
           s == base * a
<1>1. base \in Nat /\ s <= d /\ d < s + a
  BY Quotient
<1> HIDE DEF base
<1>2. s \in Nat /\ d - s \in Nat
  BY <1>1, TimesNat
<1>3. /\ (u + base) * a = u * a + s
      /\ (u + base + 1) * a = u * a + s + a
      /\ d * (t + 1) = d * t + d
  BY <1>1 DEF Steps
<1>4. u * a \in Nat /\ d * t \in Nat
  BY TimesNat DEF Steps
<1> HIDE DEF s
<1>5. CASE e + (d - s) >= a
  <2>1. /\ (u + base + 1) * a + (e + (d - s) - a) = d * (t + 1)
        /\ e + (d - s) - a \in Nat /\ e + (d - s) - a < a
    BY <1>1, <1>2, <1>3, <1>4, <1>5 DEF Steps
  <2> QED
    BY <2>1, <1>1, <1>2, <1>5 DEF Steps, s, base
<1>6. CASE ~(e + (d - s) >= a)
  <2>1. /\ (u + base) * a + (e + (d - s)) = d * (t + 1)
        /\ e + (d - s) \in Nat /\ e + (d - s) < a
    BY <1>1, <1>2, <1>3, <1>4, <1>6 DEF Steps
  <2> QED
    BY <2>1, <1>1, <1>2, <1>6 DEF Steps, s, base
<1> QED
  BY <1>5, <1>6

(* u is the quotient, and no more than d before the end.                   *)
LEMMA StepsDivide ==
  ASSUME NEW d \in Nat, NEW a \in Nat \ {0}, NEW t \in Nat, NEW u, NEW e,
         Steps(d, a, t, u, e), t <= a
  PROVE  (d * t) \div a = u /\ u <= d
<1>1. u \in Nat /\ e \in Nat /\ e < a /\ u * a + e = d * t
  BY DEF Steps
<1>2. d * t \in Nat /\ u * a \in Nat
  BY <1>1, TimesNat
<1>3. (d * t) \div a = u
  BY <1>1, <1>2, QuotientIs
<1>4. ASSUME d + 1 <= u PROVE FALSE
  <2>1. (d + 1) * a <= u * a
    BY <1>1, <1>4, TimesMonotone
  <2>2. (d + 1) * a = d * a + a /\ d * a \in Nat
    BY TimesNat
  <2>3. t * d <= a * d /\ t * d = d * t /\ a * d = d * a
    BY TimesMonotone
  <2> QED
    BY <2>1, <2>2, <2>3, <1>1, <1>2
<1> QED
  BY <1>1, <1>3, <1>4

(* The pen of render_line at (at, h) of a line, with error e.              *)
OnLine(x0, x1, y0, y1, at, h, e) ==
  /\ x0 <= at /\ at < x1
  /\ y1 < y0 => Steps(y0 - y1, x1 - x0, at - x0, y0 - h, e)
  /\ ~(y1 < y0) => Steps(y1 - y0, x1 - x0, at - x0, h - y0, e)

LEMMA LineStarts ==
  ASSUME NEW x0 \in Nat, NEW x1 \in Nat, NEW y0 \in Nat, NEW y1 \in Nat, x0 < x1
  PROVE  OnLine(x0, x1, y0, y1, x0, y0, 0)
<1>1. /\ x0 - x0 = 0 /\ y0 - y0 = 0 /\ x1 - x0 \in Nat /\ 0 < x1 - x0
      /\ 0 * (x1 - x0) + 0 = 0
      /\ (y1 - y0) * 0 = 0 /\ (y0 - y1) * 0 = 0
  OBVIOUS
<1> QED
  BY <1>1 DEF OnLine, Steps

(* What DrawSample does to height and error.                               *)
LEMMA LineGoesOn ==
  ASSUME NEW x0 \in Nat, NEW x1 \in Nat, NEW y0 \in Nat, NEW y1 \in Nat,
         NEW at \in Nat, NEW h \in Nat, NEW e \in Nat,
         OnLine(x0, x1, y0, y1, at, h, e), at + 1 < x1
  PROVE  LET dy == y1 - y0
             adx == x1 - x0
             base == Base(dy, adx)
             ady == Size(dy) - Size(base * adx)
             carry == e + ady >= adx
             to == IF ~carry THEN h + base
                   ELSE IF dy < 0 THEN h + base - 1 ELSE h + base + 1
             rest == IF carry THEN e + ady - adx ELSE e + ady
         IN  OnLine(x0, x1, y0, y1, at + 1, to, rest) /\ to \in Int
<1> DEFINE a == x1 - x0
           t == at - x0
<1>1. /\ a \in Nat \ {0} /\ t \in Nat /\ (at + 1) - x0 = t + 1
      /\ x0 <= at + 1
  BY DEF OnLine
<1>2. CASE y1 < y0
  <2> DEFINE d == y0 - y1
             u == y0 - h
             q == d \div a
             s == q * a
  <2>1. d \in Nat /\ y1 - y0 = -d /\ -(y1 - y0) = d /\ y1 - y0 < 0
    BY <1>2
  <2>2. Steps(d, a, t, u, e)
    BY <1>2 DEF OnLine
  <2> HIDE DEF d, u, a, t
  <2>3. /\ q \in Nat /\ d - s \in Nat /\ s \in Nat
        /\ e + (d - s) >= a => Steps(d, a, t + 1, u + q + 1, e + (d - s) - a)
        /\ ~(e + (d - s) >= a) => Steps(d, a, t + 1, u + q, e + (d - s))
    BY <1>1, <2>1, <2>2, OneMoreStep
  <2>4. Base(-d, a) = -q
    BY <2>1, <2>3, <1>1, <1>2 DEF Base, d
  <2>5. (-q) * a = -s
    BY <2>3, <1>1
  <2> HIDE DEF q, s
  <2>6. Size(-d) = d /\ Size(-s) = s
    BY <2>1, <2>3 DEF Size
  <2>7. /\ y0 - (h + (-q)) = u + q
        /\ y0 - (h + (-q) - 1) = u + q + 1
    BY <2>3 DEF u
  <2>8. /\ Base(y1 - y0, x1 - x0) = -q
        /\ Size(y1 - y0) = d
        /\ Size((-q) * (x1 - x0)) = s
    BY <2>1, <2>4, <2>5, <2>6 DEF a
  <2>9. h + (-q) \in Int /\ h + (-q) - 1 \in Int
    BY <2>3
  <2> QED
    BY <1>1, <1>2, <2>1, <2>3, <2>7, <2>8, <2>9 DEF OnLine, a, d
<1>3. CASE ~(y1 < y0)
  <2> DEFINE d == y1 - y0
             u == h - y0
             q == d \div a
             s == q * a
  <2>1. d \in Nat /\ ~(y1 - y0 < 0)
    BY <1>3
  <2>2. Steps(d, a, t, u, e)
    BY <1>3 DEF OnLine
  <2> HIDE DEF d, u, a, t
  <2>3. /\ q \in Nat /\ d - s \in Nat /\ s \in Nat
        /\ e + (d - s) >= a => Steps(d, a, t + 1, u + q + 1, e + (d - s) - a)
        /\ ~(e + (d - s) >= a) => Steps(d, a, t + 1, u + q, e + (d - s))
    BY <1>1, <2>1, <2>2, OneMoreStep
  <2>4. Base(d, a) = q
    BY <2>1 DEF Base
  <2> HIDE DEF q
  <2>6. Size(d) = d /\ Size(s) = s
    BY <2>1, <2>3 DEF Size
  <2>7. /\ (h + q) - y0 = u + q
        /\ (h + q + 1) - y0 = u + q + 1
    BY <2>3 DEF u
  <2>8. /\ Base(y1 - y0, x1 - x0) = q
        /\ Size(y1 - y0) = d
        /\ Size(q * (x1 - x0)) = s
    BY <2>1, <2>4, <2>6 DEF a, d
  <2> QED
    BY <1>1, <1>3, <2>1, <2>3, <2>7, <2>8 DEF OnLine, a, d
<1> QED
  BY <1>2, <1>3

(* A pen on the line is where one division would put it.                   *)
LEMMA LineIsPoint ==
  ASSUME NEW x0 \in Nat, NEW x1 \in Nat, NEW y0 \in Nat, NEW y1 \in Nat,
         NEW at \in Nat, NEW h \in Int, NEW e,
         OnLine(x0, x1, y0, y1, at, h, e)
  PROVE  /\ h = render_point(x0, x1, y0, y1, at)
         /\ h \in Nat
         /\ y0 <= 255 /\ y1 <= 255 => h <= 255
<1> DEFINE a == x1 - x0
           t == at - x0
<1>1. a \in Nat \ {0} /\ t \in Nat /\ t <= a
  BY DEF OnLine
<1>2. CASE y1 < y0
  <2> DEFINE d == y0 - y1
             u == y0 - h
  <2>1. d \in Nat /\ Size(y1 - y0) = d
    BY <1>2 DEF Size
  <2>2. Steps(d, a, t, u, e)
    BY <1>2 DEF OnLine
  <2>3. (d * t) \div a = u /\ u <= d
    <3> HIDE DEF d, a, t, u
    <3> QED
      BY <1>1, <2>1, <2>2, StepsDivide
  <2>4. render_point(x0, x1, y0, y1, at) = y0 - (d * t) \div a
    BY <1>2, <2>1 DEF render_point
  <2>5. u \in Nat
    BY <2>2 DEF Steps
  <2> QED
    BY <2>3, <2>4, <2>5, <1>2
<1>3. CASE ~(y1 < y0)
  <2> DEFINE d == y1 - y0
             u == h - y0
  <2>1. d \in Nat /\ Size(y1 - y0) = d
    BY <1>3 DEF Size
  <2>2. Steps(d, a, t, u, e)
    BY <1>3 DEF OnLine
  <2>3. (d * t) \div a = u /\ u <= d
    <3> HIDE DEF d, a, t, u
    <3> QED
      BY <1>1, <2>1, <2>2, StepsDivide
  <2>4. render_point(x0, x1, y0, y1, at) = y0 + (d * t) \div a
    BY <1>3, <2>1 DEF render_point
  <2>5. u \in Nat
    BY <2>2 DEF Steps
  <2> QED
    BY <2>3, <2>4, <2>5, <1>3
<1> QED
  BY <1>2, <1>3

-----------------------------------------------------------------------------
(* The curve.                                                              *)

LEMMA PostsInOrder ==
  ASSUME NEW list, PostListOK(list)
  PROVE  /\ PostsOf(list) \subseteq Nat /\ 0 \in PostsOf(list) /\ 1 \in PostsOf(list)
         /\ \A p, q \in Nat : q \in PostsOf(list) /\ p <= q => p \in PostsOf(list)
         /\ \A p \in PostsOf(list) : list[p] \in Nat
         /\ \A p, q \in PostsOf(list) : list[p] = list[q] => p = q
BY DEF PostListOK, VIF_POSIT

(* The one post of a set that is the furthest, or the nearest.             *)
LEMMA Furthest ==
  ASSUME NEW list, PostListOK(list), NEW S \in SUBSET PostsOf(list), NEW b \in S,
         \A q \in S : list[q] <= list[b]
  PROVE  (CHOOSE p \in S : \A q \in S : list[q] <= list[p]) = b
<1> DEFINE c == CHOOSE p \in S : \A q \in S : list[q] <= list[p]
<1>1. c \in S /\ \A q \in S : list[q] <= list[c]
  OBVIOUS
<1> HIDE DEF c
<1>2. list[b] <= list[c] /\ list[c] <= list[b] /\ list[b] \in Nat /\ list[c] \in Nat
  BY <1>1, PostsInOrder
<1>3. list[b] = list[c]
  BY <1>2
<1> QED
  BY <1>1, <1>3, PostsInOrder DEF c

LEMMA Nearest ==
  ASSUME NEW list, PostListOK(list), NEW S \in SUBSET PostsOf(list), NEW b \in S,
         \A q \in S : list[b] <= list[q]
  PROVE  (CHOOSE p \in S : \A q \in S : list[p] <= list[q]) = b
<1> DEFINE c == CHOOSE p \in S : \A q \in S : list[p] <= list[q]
<1>1. c \in S /\ \A q \in S : list[c] <= list[q]
  OBVIOUS
<1> HIDE DEF c
<1>2. list[b] <= list[c] /\ list[c] <= list[b] /\ list[b] \in Nat /\ list[c] \in Nat
  BY <1>1, PostsInOrder
<1>3. list[b] = list[c]
  BY <1>2
<1> QED
  BY <1>1, <1>3, PostsInOrder DEF c

(* Between two posts with none in use in between it is their line.         *)
LEMMA CurveBetween ==
  ASSUME NEW list, PostListOK(list), NEW fit, NEW m, NEW s \in Nat,
         NEW b \in PostsOf(list), NEW a \in PostsOf(list) \ {0},
         b = 0 \/ InUse(fit[b]), InUse(fit[a]),
         list[b] <= s, s < list[a],
         \A p \in PostsOf(list) : p = 0 \/ InUse(fit[p]) =>
            list[p] <= list[b] \/ list[a] <= list[p]
  PROVE  Curve(list, fit, m, s) =
           render_point(list[b], list[a], Level(m, fit[b]), Level(m, fit[a]), s)
<1> DEFINE left == {p \in PostsOf(list) : (p = 0 \/ InUse(fit[p])) /\ list[p] <= s}
           right == {p \in PostsOf(list) : (p # 0 /\ InUse(fit[p])) /\ s < list[p]}
<1>0. \A p \in PostsOf(list) : list[p] \in Nat
  BY PostsInOrder
<1>1. b \in left /\ \A q \in left : list[q] <= list[b]
  <2> SUFFICES ASSUME NEW q \in left PROVE list[q] <= list[b]
    OBVIOUS
  <2>1. list[q] <= s /\ (list[q] <= list[b] \/ list[a] <= list[q])
    OBVIOUS
  <2> QED
    BY <1>0, <2>1
<1>2. a \in right /\ \A q \in right : list[a] <= list[q]
  <2> SUFFICES ASSUME NEW q \in right PROVE list[a] <= list[q]
    OBVIOUS
  <2>1. s < list[q] /\ (list[q] <= list[b] \/ list[a] <= list[q])
    OBVIOUS
  <2> QED
    BY <1>0, <2>1
<1>3. (CHOOSE p \in left : \A q \in left : list[q] <= list[p]) = b
  <2>1. left \in SUBSET PostsOf(list)
    OBVIOUS
  <2> HIDE DEF left
  <2> QED
    BY <1>1, <2>1, Furthest
<1>4. (CHOOSE p \in right : \A q \in right : list[p] <= list[q]) = a
  <2>1. right \in SUBSET PostsOf(list)
    OBVIOUS
  <2> HIDE DEF right
  <2> QED
    BY <1>2, <2>1, Nearest
<1>5. right # {}
  BY <1>2
<1> QED
  BY <1>3, <1>4, <1>5, Zenon DEF Curve

(* Behind the last post in use it is level.                                *)
LEMMA CurveBehind ==
  ASSUME NEW list, PostListOK(list), NEW fit, NEW m, NEW s \in Nat,
         NEW b \in PostsOf(list), b = 0 \/ InUse(fit[b]), list[b] <= s,
         \A p \in PostsOf(list) : p = 0 \/ InUse(fit[p]) => list[p] <= list[b]
  PROVE  Curve(list, fit, m, s) = Level(m, fit[b])
<1> DEFINE left == {p \in PostsOf(list) : (p = 0 \/ InUse(fit[p])) /\ list[p] <= s}
           right == {p \in PostsOf(list) : (p # 0 /\ InUse(fit[p])) /\ s < list[p]}
<1>0. \A p \in PostsOf(list) : list[p] \in Nat
  BY PostsInOrder
<1>1. b \in left /\ \A q \in left : list[q] <= list[b]
  OBVIOUS
<1>2. right = {}
  <2> SUFFICES ASSUME NEW q \in right PROVE FALSE
    OBVIOUS
  <2>1. s < list[q] /\ list[q] <= list[b]
    OBVIOUS
  <2> QED
    BY <1>0, <2>1
<1>3. (CHOOSE p \in left : \A q \in left : list[q] <= list[p]) = b
  <2>1. left \in SUBSET PostsOf(list)
    OBVIOUS
  <2> HIDE DEF left
  <2> QED
    BY <1>1, <2>1, Furthest
<1> QED
  BY <1>2, <1>3, Zenon DEF Curve

-----------------------------------------------------------------------------
(* The invariant.                                                          *)

(* The search for the neighbours of post j among the posts before k.       *)
Searching ==
  pc = "look" =>
    /\ j >= 2 /\ k <= j
    /\ j \in Posts =>
         /\ lo < j /\ hi < j /\ lx = postlist[lo] /\ hx = postlist[hi]
         /\ lx < postlist[j] /\ postlist[j] < hx
         /\ \A q \in Posts : q < k => postlist[q] <= lx \/ hx <= postlist[q]

Ordered == pc # "look" => Sorted(postlist, forward_index)

Unwrapping == pc = "unwrap" => j >= 2

Drawing == pc \in {"draw", "line", "tail"}

(* The pen last came to rest on a post in use (or the first), ...          *)
Rests ==
  Drawing => \E b \in Posts : /\ b = 0 \/ InUse(fit_value[b])
                              /\ lx = postlist[b]
                              /\ ly = Level(mult, fit_value[b])

(* ... which no post in use that was passed is behind, ...                 *)
Passed ==
  Drawing => /\ j >= 1
             /\ \A i \in Posts : i < j /\ InUse(fit_value[forward_index[i]]) =>
                  postlist[forward_index[i]] <= lx

(* ... and all that are left are.                                          *)
Ahead ==
  Drawing => \A i \in Posts : j <= i => lx < postlist[forward_index[i]]

Pen ==
  /\ pc = "draw" => hx = lx
  /\ pc = "tail" => j \notin Posts /\ lx <= x
  /\ pc = "line" =>
       /\ j \in Posts /\ InUse(fit_value[forward_index[j]])
       /\ hx = postlist[forward_index[j]]
       /\ hy = Level(mult, fit_value[forward_index[j]])
       /\ OnLine(lx, hx, ly, hy, x, y, err)

(* The samples that are drawn.                                             *)
Done(s) ==
  \/ pc \in {"draw", "tail"} /\ s < (IF pc = "draw" THEN lx ELSE x)
  \/ pc = "line" /\ s <= x
Drawn ==
  \A s \in Samples :
    out[s] = IF Done(s) THEN <<Curve(postlist, fit_value, mult, s)>> ELSE <<>>

IInv ==
  /\ TypeOK /\ Searching /\ NeighborsAreNearest /\ Ordered /\ Unwrapping
  /\ Rests /\ Passed /\ Ahead /\ Pen /\ Drawn

LEMMA ListOK == ASSUME TypeOK PROVE PostListOK(postlist)
BY Floor1Assumption DEF TypeOK

LEMMA InitHolds == ASSUME Init PROVE IInv
<1>1. PostListOK(postlist)
  BY Floor1Assumption DEF Init
<1>2. 0 \in Posts /\ 1 \in Posts /\ postlist[0] = 0 /\ postlist[1] \in Nat
  BY <1>1, PostsInOrder DEF Posts, PostListOK
<1>3. TypeOK
  <2>1. /\ pc \in {"look", "read", "unwrap", "draw", "line", "tail"}
        /\ j \in Nat /\ k \in Nat
        /\ postlist \in PostLists /\ mult \in Mults /\ n \in Halves
        /\ lo \in Posts /\ hi \in Posts /\ lx \in Nat /\ hx \in Nat
        /\ ly \in 0..255 /\ hy \in 0..255 /\ y \in 0..255
        /\ x \in Nat /\ err \in Nat
    BY <1>2 DEF Init
  <2>2. /\ loneighbor \in [Inner -> Posts] /\ hineighbor \in [Inner -> Posts]
        /\ forward_index \in [Posts -> Posts]
        /\ fit_value \in [Posts -> Int]
    BY <1>2 DEF Init
  <2>3. out \in [Samples -> Seq(0..255)]
    BY DEF Init
  <2> QED
    BY <2>1, <2>2, <2>3 DEF TypeOK
<1>4. Searching
  BY <1>1, <1>2 DEF Init, Searching, Posts, PostListOK
<1>5. NeighborsAreNearest
  BY <1>1, PostsInOrder DEF Init, NeighborsAreNearest, Inner, Posts
<1>6. Ordered /\ Unwrapping /\ Rests /\ Passed /\ Ahead /\ Pen
  BY DEF Init, Ordered, Unwrapping, Rests, Passed, Ahead, Pen, Drawing
<1>7. Drawn
  BY DEF Init, Drawn, Done
<1> QED
  BY <1>3, <1>4, <1>5, <1>6, <1>7 DEF IInv

(* What stays as it is: the floor.                                         *)
LEMMA FloorStays ==
  ASSUME UNCHANGED floor
  PROVE  /\ postlist' = postlist /\ mult' = mult /\ n' = n
         /\ Posts' = Posts /\ Inner' = Inner /\ Samples' = Samples
BY DEF floor, Posts, Inner, Samples

-----------------------------------------------------------------------------
(* floor1_unpack.                                                          *)

LEMMA LookAtPostKeeps == ASSUME IInv, LookAtPost PROVE IInv'
<1>1. /\ postlist' = postlist /\ mult' = mult /\ n' = n
      /\ Posts' = Posts /\ Inner' = Inner /\ Samples' = Samples
  BY FloorStays DEF LookAtPost
<1>2. PostListOK(postlist)
  BY ListOK DEF IInv
<1>3. /\ j \in Posts /\ k \in Posts /\ k < j /\ j \in Nat /\ k \in Nat
      /\ \A p \in Posts : postlist[p] \in Nat
      /\ postlist[k] # postlist[j]
  <2>1. j \in Posts /\ k < j /\ j \in Nat /\ k \in Nat
    BY DEF IInv, TypeOK, LookAtPost
  <2>2. k \in Posts
    BY <2>1, <1>2, PostsInOrder DEF Posts
  <2>3. \A p \in Posts : postlist[p] \in Nat
    BY <1>2, PostsInOrder DEF Posts
  <2>4. postlist[k] # postlist[j]
    BY <2>1, <2>2, <1>2, PostsInOrder DEF Posts
  <2> QED
    BY <2>1, <2>2, <2>3, <2>4
<1>4. TypeOK'
  BY <1>1, <1>3 DEF IInv, TypeOK, LookAtPost, neighbors, line
<1>5. Searching'
  <2>1. /\ lo < j /\ hi < j /\ lx = postlist[lo] /\ hx = postlist[hi]
        /\ lx < postlist[j] /\ postlist[j] < hx
        /\ \A q \in Posts : q < k => postlist[q] <= lx \/ hx <= postlist[q]
        /\ j >= 2
    BY <1>3 DEF IInv, Searching, LookAtPost
  <2>2. /\ lo' < j /\ hi' < j /\ lx' = postlist[lo'] /\ hx' = postlist[hi']
        /\ lx' < postlist[j] /\ postlist[j] < hx'
        /\ lx <= lx' /\ hx' <= hx
        /\ postlist[k] <= lx' \/ hx' <= postlist[k]
        /\ lx \in Nat /\ hx \in Nat /\ lx' \in Nat /\ hx' \in Nat
    <3>1. lx \in Nat /\ hx \in Nat /\ postlist[k] \in Nat /\ postlist[j] \in Nat
      BY <1>3 DEF IInv, TypeOK
    <3>2. /\ lo' = IF postlist[k] > lx /\ postlist[k] < postlist[j] THEN k ELSE lo
          /\ lx' = IF postlist[k] > lx /\ postlist[k] < postlist[j] THEN postlist[k] ELSE lx
          /\ hi' = IF postlist[k] < hx /\ postlist[k] > postlist[j] THEN k ELSE hi
          /\ hx' = IF postlist[k] < hx /\ postlist[k] > postlist[j] THEN postlist[k] ELSE hx
      BY DEF LookAtPost
    <3>3. CASE postlist[k] < postlist[j]
      BY <2>1, <3>1, <3>2, <3>3, <1>3
    <3>4. CASE postlist[j] < postlist[k]
      BY <2>1, <3>1, <3>2, <3>4, <1>3
    <3> QED
      BY <3>1, <3>3, <3>4, <1>3
  <2>3. ASSUME NEW q \in Posts, q < k + 1
        PROVE  postlist[q] <= lx' \/ hx' <= postlist[q]
    <3>1. CASE q = k
      BY <3>1, <2>2
    <3>2. CASE q < k
      BY <3>2, <2>1, <2>2, <1>3
    <3> QED
      BY <3>1, <3>2, <2>3, <1>2, <1>3, PostsInOrder DEF Posts
  <2>4. pc' = "look" /\ j' = j /\ k' = k + 1
    BY DEF LookAtPost
  <2>5. k + 1 <= j
    BY <1>3
  <2> QED
    BY <2>1, <2>2, <2>3, <2>4, <2>5, <1>1 DEF Searching
<1>6. NeighborsAreNearest'
  BY <1>1 DEF IInv, NeighborsAreNearest, LookAtPost, neighbors
<1>7. (Ordered /\ Unwrapping /\ Rests /\ Passed /\ Ahead /\ Pen)'
  BY DEF LookAtPost, Ordered, Unwrapping, Rests, Passed, Ahead, Pen, Drawing
<1>8. Drawn'
  BY <1>1 DEF IInv, LookAtPost, Drawn, Done
<1> QED
  BY <1>4, <1>5, <1>6, <1>7, <1>8 DEF IInv

LEMMA KeepNeighborsKeeps == ASSUME IInv, KeepNeighbors PROVE IInv'
<1>1. /\ postlist' = postlist /\ mult' = mult /\ n' = n
      /\ Posts' = Posts /\ Inner' = Inner /\ Samples' = Samples
  BY FloorStays DEF KeepNeighbors
<1>2. PostListOK(postlist)
  BY ListOK DEF IInv
<1>3. /\ j \in Nat /\ j >= 2 /\ j \in Posts /\ j \in Inner
      /\ 0 \in Posts /\ 1 \in Posts /\ postlist[0] = 0 /\ postlist[1] \in Nat
      /\ Posts \subseteq Nat
  <2>1. j \in Nat /\ j >= 2 /\ j \in Posts
    BY DEF IInv, TypeOK, Searching, KeepNeighbors
  <2>2. 0 \in Posts /\ 1 \in Posts /\ postlist[1] \in Nat /\ Posts \subseteq Nat
    BY <1>2, PostsInOrder DEF Posts
  <2>3. postlist[0] = 0
    BY <1>2 DEF PostListOK
  <2> QED
    BY <2>1, <2>2, <2>3 DEF Inner
<1>4. TypeOK'
  <2>1. loneighbor' \in [Inner -> Posts] /\ hineighbor' \in [Inner -> Posts]
    BY <1>3 DEF IInv, TypeOK, KeepNeighbors
  <2> QED
    BY <1>1, <1>3, <2>1 DEF IInv, TypeOK, KeepNeighbors, line
<1>5. Searching'
  <2>1. ASSUME j + 1 \in Posts
        PROVE  0 < postlist[j + 1] /\ postlist[j + 1] < postlist[1]
    BY <2>1, <1>2, <1>3 DEF Posts, PostListOK
  <2>2. /\ pc' = "look" /\ j' = j + 1 /\ k' = 0
        /\ lo' = 0 /\ hi' = 1 /\ lx' = 0 /\ hx' = postlist[1]
    BY DEF KeepNeighbors
  <2>3. 2 <= j + 1 /\ 0 < j + 1 /\ 1 < j + 1 /\ 0 <= j + 1
    BY <1>3
  <2>4. \A q \in Posts : ~(q < 0)
    BY <1>3
  <2> QED
    BY <2>1, <2>2, <2>3, <2>4, <1>1, <1>3 DEF Searching
<1>6. NeighborsAreNearest'
  <2> SUFFICES ASSUME NEW p \in Inner, p < j + 1
               PROVE  NearestOf(postlist, p, loneighbor'[p], hineighbor'[p])
    BY <1>1 DEF NeighborsAreNearest, KeepNeighbors
  <2>1. CASE p = j
    <3>1. loneighbor'[p] = lo /\ hineighbor'[p] = hi
      BY <2>1, <1>3 DEF IInv, TypeOK, KeepNeighbors
    <3>2. NearestOf(postlist, j, lo, hi)
      BY <1>3 DEF IInv, Searching, KeepNeighbors, NearestOf, Posts
    <3> QED
      BY <2>1, <3>1, <3>2
  <2>2. CASE p < j
    <3>1. loneighbor'[p] = loneighbor[p] /\ hineighbor'[p] = hineighbor[p]
      BY <2>2, <1>3 DEF IInv, TypeOK, KeepNeighbors
    <3> QED
      BY <2>2, <3>1 DEF IInv, NeighborsAreNearest
  <2> QED
    BY <2>1, <2>2, <1>3 DEF Inner
<1>7. (Ordered /\ Unwrapping /\ Rests /\ Passed /\ Ahead /\ Pen)'
  BY DEF KeepNeighbors, Ordered, Unwrapping, Rests, Passed, Ahead, Pen, Drawing
<1>8. Drawn'
  BY <1>1 DEF IInv, KeepNeighbors, Drawn, Done
<1> QED
  BY <1>4, <1>5, <1>6, <1>7, <1>8 DEF IInv

LEMMA UnpackedKeeps == ASSUME IInv, Unpacked PROVE IInv'
<1>1. /\ postlist' = postlist /\ mult' = mult /\ n' = n
      /\ Posts' = Posts /\ Inner' = Inner /\ Samples' = Samples
  BY FloorStays DEF Unpacked
<1>2. PostListOK(postlist)
  BY ListOK DEF IInv
<1>3. TypeOK'
  BY <1>1 DEF IInv, TypeOK, Unpacked, search, line
<1>4. NeighborsAreNearest'
  <2>1. \A p \in Inner : p < j
    BY <1>2, PostsInOrder DEF IInv, TypeOK, Unpacked, Inner, Posts
  <2> QED
    BY <1>1, <2>1 DEF IInv, NeighborsAreNearest, Unpacked
<1>5. Ordered'
  BY <1>1 DEF Ordered, Unpacked
<1>6. (Searching /\ Unwrapping /\ Rests /\ Passed /\ Ahead /\ Pen)'
  BY DEF Unpacked, Searching, Unwrapping, Rests, Passed, Ahead, Pen, Drawing
<1>7. Drawn'
  BY <1>1 DEF IInv, Unpacked, Drawn, Done
<1> QED
  BY <1>3, <1>4, <1>5, <1>6, <1>7 DEF IInv

-----------------------------------------------------------------------------
(* floor1_inverse1.                                                        *)

LEMMA LevelInTable ==
  ASSUME NEW m \in 1..4, NEW height \in Int PROVE Level(m, height) \in 0..255
<1> DEFINE h == height * m
<1>1. h \in Int
  OBVIOUS
<1> HIDE DEF h
<1>2. (IF h < 0 THEN 0 ELSE IF h > 255 THEN 255 ELSE h) \in 0..255
  BY <1>1
<1> QED
  BY <1>2 DEF h, Level

LEMMA QuotientIsInt ==
  ASSUME NEW a \in Int, NEW b \in Nat \ {0} PROVE a \div b \in Int
OBVIOUS

LEMMA PointIsInt ==
  ASSUME NEW x0 \in Nat, NEW x1 \in Nat, x0 < x1,
         NEW y0 \in Int, NEW y1 \in Int, NEW at \in Int
  PROVE  render_point(x0, x1, y0, y1, at) \in Int
<1> DEFINE off == (Size(y1 - y0) * (at - x0)) \div (x1 - x0)
<1>1. Size(y1 - y0) * (at - x0) \in Int
  <2>1. Size(y1 - y0) \in Int /\ at - x0 \in Int
    BY DEF Size
  <2> DEFINE a == Size(y1 - y0)
             b == at - x0
  <2>2. a \in Int /\ b \in Int
    BY <2>1
  <2> HIDE DEF a, b
  <2>3. a * b \in Int
    BY <2>2
  <2> QED
    BY <2>3 DEF a, b
<1>2. x1 - x0 \in Nat \ {0}
  OBVIOUS
<1>3. off \in Int
  BY <1>1, <1>2, QuotientIsInt
<1> HIDE DEF off
<1>4. (IF y1 < y0 THEN y0 - off ELSE y0 + off) \in Int
  BY <1>3
<1> QED
  BY <1>4 DEF off, render_point

LEMMA MaskedIsInt == ASSUME NEW h \in Int PROVE Masked(h) \in Int
BY DEF Masked, UNUSED

LEMMA PredictedIsInt ==
  ASSUME TypeOK, NEW p \in Inner,
         NearestOf(postlist, p, loneighbor[p], hineighbor[p])
  PROVE  Predicted(p) \in Int
<1> DEFINE l == loneighbor[p]
           u == hineighbor[p]
<1>1. l \in Posts /\ u \in Posts /\ p \in Posts
  BY DEF TypeOK, Inner
<1>2. /\ postlist[l] \in Nat /\ postlist[u] \in Nat /\ postlist[p] \in Nat
  BY <1>1, ListOK, PostsInOrder DEF Posts
<1>3. postlist[l] < postlist[u]
  BY <1>2 DEF NearestOf
<1>4. Masked(fit_value[l]) \in Int /\ Masked(fit_value[u]) \in Int
  BY <1>1, MaskedIsInt DEF TypeOK
<1> DEFINE x0 == postlist[l]
           x1 == postlist[u]
           y0 == Masked(fit_value[l])
           y1 == Masked(fit_value[u])
           at == postlist[p]
<1>5. /\ x0 \in Nat /\ x1 \in Nat /\ x0 < x1
      /\ y0 \in Int /\ y1 \in Int /\ at \in Int
  BY <1>2, <1>3, <1>4
<1>6. Predicted(p) = render_point(x0, x1, y0, y1, at)
  BY DEF Predicted
<1> HIDE DEF x0, x1, y0, y1, at
<1> QED
  BY <1>5, <1>6, PointIsInt

LEMMA UnwrapIsInt ==
  ASSUME NEW q \in Int, NEW predicted \in Int, NEW val \in Int
  PROVE  Unwrap(q, predicted, val) \in Int
<1>1. (val + 1) \div 2 \in Int /\ val \div 2 \in Int
  OBVIOUS
<1> QED
  BY <1>1 DEF Unwrap

(* The other steps of the packet leave what unpack found alone.            *)
LEMMA FoundStays ==
  ASSUME IInv, UNCHANGED <<floor, neighbors>>, pc # "look", pc' # "look"
  PROVE  (Searching /\ NeighborsAreNearest /\ Ordered)'
<1>1. /\ postlist' = postlist /\ Inner' = Inner
      /\ loneighbor' = loneighbor /\ hineighbor' = hineighbor
      /\ forward_index' = forward_index
  BY FloorStays DEF neighbors
<1> QED
  BY <1>1 DEF IInv, Searching, NeighborsAreNearest, Ordered

LEMMA ReadFloorKeeps == ASSUME IInv, ReadFloor PROVE IInv'
<1>1. /\ postlist' = postlist /\ mult' = mult /\ n' = n
      /\ Posts' = Posts /\ Inner' = Inner /\ Samples' = Samples
  BY FloorStays DEF ReadFloor
<1>2. fit_value' \in [Posts -> Int]
  <2> PICK first \in Heights \cup {EndOfPacket}, second \in Heights \cup {EndOfPacket},
           codes \in [Inner -> Codes \cup {0}] :
        fit_value' = [p \in Posts |-> IF p = 0 THEN first
                                      ELSE IF p = 1 THEN second ELSE codes[p]]
    BY DEF ReadFloor
  <2>1. first \in Int /\ second \in Int
    BY Floor1Assumption DEF EndOfPacket
  <2>2. \A p \in Posts : p # 0 /\ p # 1 => codes[p] \in Int
    <3> SUFFICES ASSUME NEW p \in Posts, p # 0, p # 1 PROVE codes[p] \in Int
      OBVIOUS
    <3>1. p \in Inner
      BY DEF Inner
    <3>2. codes[p] \in Codes \cup {0}
      BY <3>1
    <3>3. Codes \subseteq Nat
      BY Floor1Assumption
    <3> DEFINE c == codes[p]
    <3>4. c \in Codes \cup {0}
      BY <3>2
    <3> HIDE DEF c
    <3>5. c \in Int
      BY <3>3, <3>4
    <3> QED
      BY <3>5 DEF c
  <2> QED
    BY <2>1, <2>2
<1>3. TypeOK'
  BY <1>1, <1>2 DEF IInv, TypeOK, ReadFloor, search, neighbors, line
<1>4. (Searching /\ NeighborsAreNearest /\ Ordered)'
  BY FoundStays DEF ReadFloor
<1>5. (Unwrapping /\ Rests /\ Passed /\ Ahead /\ Pen)'
  BY DEF ReadFloor, Unwrapping, Rests, Passed, Ahead, Pen, Drawing
<1>6. Drawn'
  BY <1>1 DEF IInv, ReadFloor, Drawn, Done
<1> QED
  BY <1>3, <1>4, <1>5, <1>6 DEF IInv

(* The heights change and nothing is drawn.                                *)
LEMMA HeightsKeep ==
  ASSUME IInv, pc = "unwrap", pc' = pc, j' = j + 1,
         fit_value' \in [Posts -> Int],
         UNCHANGED <<k, floor, search, neighbors, line, out>>
  PROVE  IInv'
<1>1. /\ postlist' = postlist /\ mult' = mult /\ n' = n
      /\ Posts' = Posts /\ Inner' = Inner /\ Samples' = Samples
  BY FloorStays
<1>2. TypeOK'
  BY <1>1 DEF IInv, TypeOK, search, neighbors, line
<1>3. (Searching /\ NeighborsAreNearest /\ Ordered)'
  BY FoundStays
<1>4. (Unwrapping /\ Rests /\ Passed /\ Ahead /\ Pen)'
  BY DEF IInv, TypeOK, Unwrapping, Rests, Passed, Ahead, Pen, Drawing
<1>5. Drawn'
  BY <1>1 DEF IInv, Drawn, Done
<1> QED
  BY <1>2, <1>3, <1>4, <1>5 DEF IInv

LEMMA PredictedHere ==
  ASSUME IInv, pc = "unwrap", j \in Posts PROVE Predicted(j) \in Int
<1>1. j \in Inner
  BY DEF IInv, TypeOK, Unwrapping, Inner
<1> QED
  BY <1>1, PredictedIsInt DEF IInv, NeighborsAreNearest

LEMMA UnwrapPostKeeps == ASSUME IInv, UnwrapPost PROVE IInv'
<1>1. pc = "unwrap" /\ j \in Posts
  BY DEF UnwrapPost
<1>2. Predicted(j) \in Int
  BY <1>1, PredictedHere
<1>3. quant_q \in Int
  BY Floor1Assumption DEF IInv, TypeOK, quant_q, floor1_quant_q
<1>4. Masked(Unwrap(quant_q, Predicted(j), fit_value[j]) + Predicted(j)) \in Int
  <2>1. fit_value[j] \in Int
    BY <1>1 DEF IInv, TypeOK
  <2>2. Unwrap(quant_q, Predicted(j), fit_value[j]) + Predicted(j) \in Int
    <3> DEFINE a == Unwrap(quant_q, Predicted(j), fit_value[j])
               b == Predicted(j)
    <3>1. a \in Int /\ b \in Int
      BY <1>2, <1>3, <2>1, UnwrapIsInt
    <3> HIDE DEF a, b
    <3>2. a + b \in Int
      BY <3>1
    <3> QED
      BY <3>2 DEF a, b
  <2> QED
    BY <2>2, MaskedIsInt
<1>5. \A p \in Posts : Masked(fit_value[p]) \in Int /\ fit_value[p] \in Int
  BY MaskedIsInt DEF IInv, TypeOK
<1>6. fit_value' \in [Posts -> Int]
  <2> DEFINE height == Masked(Unwrap(quant_q, Predicted(j), fit_value[j]) + Predicted(j))
  <2>1. fit_value' = [p \in Posts |-> IF p = j THEN height
                                      ELSE IF p \in {loneighbor[j], hineighbor[j]}
                                        THEN Masked(fit_value[p]) ELSE fit_value[p]]
    BY DEF UnwrapPost
  <2>2. height \in Int
    BY <1>4
  <2> HIDE DEF height
  <2> QED
    BY <2>1, <2>2, <1>5
<1> QED
  BY <1>1, <1>6, HeightsKeep DEF UnwrapPost

LEMMA SkipPostKeeps == ASSUME IInv, SkipPost PROVE IInv'
<1>1. pc = "unwrap" /\ j \in Posts
  BY DEF SkipPost
<1>2. Predicted(j) + UNUSED \in Int
  BY <1>1, PredictedHere DEF UNUSED
<1>3. fit_value' \in [Posts -> Int]
  BY <1>2 DEF SkipPost, IInv, TypeOK
<1> QED
  BY <1>1, <1>3, HeightsKeep DEF SkipPost

-----------------------------------------------------------------------------
(* floor1_inverse2.                                                        *)

LEMMA SortedOrder ==
  ASSUME TypeOK, Sorted(postlist, forward_index)
  PROVE  /\ Posts \subseteq Nat
         /\ \A i \in Posts : forward_index[i] \in Posts
                              /\ postlist[forward_index[i]] \in Nat
         /\ \A i, q \in Posts :
              i < q => postlist[forward_index[i]] < postlist[forward_index[q]]
         /\ \A p \in Posts : \E i \in Posts : forward_index[i] = p
<1>1. Posts \subseteq Nat /\ \A p \in Posts : postlist[p] \in Nat
  BY ListOK, PostsInOrder DEF Posts
<1>2. \A i \in Posts : forward_index[i] \in Posts
  BY DEF TypeOK
<1> QED
  BY <1>1, <1>2 DEF Sorted, Posts

(* Up to the next post in use the curve is the line that is drawn.         *)
LEMMA CurveIsLine ==
  ASSUME IInv, Drawing, j \in Posts, InUse(fit_value[forward_index[j]]),
         NEW s \in Nat, lx <= s, s < postlist[forward_index[j]]
  PROVE  Curve(postlist, fit_value, mult, s) =
           render_point(lx, postlist[forward_index[j]], ly,
                        Level(mult, fit_value[forward_index[j]]), s)
<1> DEFINE a == forward_index[j]
<1>1. /\ Posts \subseteq Nat
      /\ \A i \in Posts : forward_index[i] \in Posts
                           /\ postlist[forward_index[i]] \in Nat
      /\ \A i, q \in Posts :
           i < q => postlist[forward_index[i]] < postlist[forward_index[q]]
      /\ \A p \in Posts : \E i \in Posts : forward_index[i] = p
  BY SortedOrder DEF IInv, Ordered, Drawing
<1>2. PostListOK(postlist)
  BY ListOK DEF IInv
<1>3. /\ 0 \in Posts /\ postlist[0] = 0
      /\ lx \in Nat /\ j \in Nat /\ a \in Posts /\ postlist[a] \in Nat
  BY <1>1, <1>2, PostsInOrder DEF IInv, TypeOK, PostListOK, Posts
<1>4. PICK b \in Posts : /\ b = 0 \/ InUse(fit_value[b])
                         /\ lx = postlist[b] /\ ly = Level(mult, fit_value[b])
  BY DEF IInv, Rests
<1>5. a # 0
  BY <1>3
<1>6. ASSUME NEW p \in Posts, p = 0 \/ InUse(fit_value[p])
      PROVE  postlist[p] <= lx \/ postlist[a] <= postlist[p]
  <2>1. CASE p = 0
    BY <2>1, <1>3
  <2>2. CASE InUse(fit_value[p])
    <3>1. PICK i \in Posts : forward_index[i] = p
      BY <1>1
    <3>2. CASE i < j
      BY <2>2, <3>1, <3>2 DEF IInv, Passed
    <3>3. CASE i = j
      BY <3>1, <3>3, <1>3
    <3>4. CASE j < i
      <4>1. postlist[a] < postlist[p]
        BY <3>1, <3>4, <1>1
      <4> QED
        BY <4>1, <1>1, <1>3, <3>1
    <3> QED
      BY <3>2, <3>3, <3>4, <1>1
  <2> QED
    BY <1>6, <2>1, <2>2
<1> HIDE DEF a
<1>7. Curve(postlist, fit_value, mult, s) =
        render_point(postlist[b], postlist[a], Level(mult, fit_value[b]),
                     Level(mult, fit_value[a]), s)
  <2>1. a \in PostsOf(postlist) \ {0} /\ b \in PostsOf(postlist) /\ InUse(fit_value[a])
    BY <1>3, <1>5 DEF Posts, a
  <2>2. postlist[b] <= s /\ s < postlist[a]
    BY <1>4 DEF a
  <2>3. \A p \in PostsOf(postlist) : p = 0 \/ InUse(fit_value[p]) =>
          postlist[p] <= postlist[b] \/ postlist[a] <= postlist[p]
    BY <1>4, <1>6 DEF Posts
  <2> QED
    BY <1>2, <1>4, <2>1, <2>2, <2>3, CurveBetween
<1> QED
  BY <1>4, <1>7 DEF a

LEMMA StartCurveKeeps == ASSUME IInv, StartCurve PROVE IInv'
<1>1. /\ postlist' = postlist /\ mult' = mult /\ n' = n
      /\ Posts' = Posts /\ Inner' = Inner /\ Samples' = Samples
  BY FloorStays DEF StartCurve
<1>2. PostListOK(postlist)
  BY ListOK DEF IInv
<1>3. 0 \in Posts /\ postlist[0] = 0 /\ Posts \subseteq Nat
  BY <1>2, PostsInOrder DEF Posts, PostListOK
<1>4. ly' \in 0..255
  <2>1. mult \in 1..4 /\ fit_value[0] \in Int
    BY <1>3, Floor1Assumption DEF IInv, TypeOK
  <2> QED
    BY <2>1, LevelInTable DEF StartCurve
<1>5. TypeOK'
  BY <1>1, <1>4 DEF IInv, TypeOK, StartCurve, neighbors
<1>6. (Searching /\ NeighborsAreNearest /\ Ordered)'
  BY FoundStays DEF StartCurve
<1>7. fit_value' = fit_value /\ forward_index' = forward_index
  BY DEF StartCurve, neighbors
<1>8. (Unwrapping /\ Pen)'
  BY DEF StartCurve, Unwrapping, Pen
<1>9. Rests'
  BY <1>1, <1>3, <1>7 DEF Rests, StartCurve
<1>10. /\ \A i \in Posts : forward_index[i] \in Posts
                           /\ postlist[forward_index[i]] \in Nat
       /\ \A i, q \in Posts :
            i < q => postlist[forward_index[i]] < postlist[forward_index[q]]
       /\ \A p \in Posts : \E i \in Posts : forward_index[i] = p
  BY SortedOrder DEF IInv, Ordered, StartCurve
<1>11. postlist[forward_index[0]] = 0
  <2>1. PICK i \in Posts : forward_index[i] = 0
    BY <1>3, <1>10
  <2>2. CASE i = 0
    BY <2>1, <2>2, <1>3
  <2>3. CASE 0 < i
    BY <2>1, <2>3, <1>3, <1>10
  <2> QED
    BY <2>2, <2>3, <1>3
<1>12. Passed'
  <2> SUFFICES ASSUME NEW i \in Posts, i < 1
               PROVE  postlist[forward_index[i]] <= 0
    BY <1>1, <1>7 DEF Passed, StartCurve
  <2>1. i = 0
    BY <1>3
  <2> QED
    BY <2>1, <1>11
<1>13. Ahead'
  <2> SUFFICES ASSUME NEW i \in Posts, 1 <= i
               PROVE  0 < postlist[forward_index[i]]
    BY <1>1, <1>7 DEF Ahead, StartCurve
  <2>1. 0 < i
    BY <1>3
  <2> QED
    BY <2>1, <1>3, <1>10, <1>11
<1>14. Drawn'
  BY <1>1, Floor1Assumption DEF IInv, TypeOK, StartCurve, Drawn, Done, Samples
<1> QED
  BY <1>5, <1>6, <1>8, <1>9, <1>12, <1>13, <1>14 DEF IInv

LEMMA PassUnusedKeeps == ASSUME IInv, PassUnused PROVE IInv'
<1>1. /\ postlist' = postlist /\ mult' = mult /\ n' = n
      /\ Posts' = Posts /\ Inner' = Inner /\ Samples' = Samples
  BY FloorStays DEF PassUnused
<1>2. /\ fit_value' = fit_value /\ forward_index' = forward_index
      /\ lx' = lx /\ ly' = ly /\ hx' = hx /\ pc = "draw" /\ pc' = "draw"
      /\ j' = j + 1 /\ j \in Nat /\ Posts \subseteq Nat /\ out' = out
  BY ListOK, PostsInOrder
  DEF PassUnused, neighbors, search, line, IInv, TypeOK, Posts
<1>3. TypeOK'
  BY <1>1 DEF IInv, TypeOK, PassUnused, search, neighbors, line
<1>4. (Searching /\ NeighborsAreNearest /\ Ordered)'
  BY FoundStays DEF PassUnused
<1>5. (Unwrapping /\ Rests /\ Pen)'
  BY <1>1, <1>2 DEF IInv, Unwrapping, Rests, Pen, Drawing
<1>6. Passed'
  <2>1. j + 1 >= 1
    BY <1>2
  <2>2. ASSUME NEW i \in Posts, i < j + 1, InUse(fit_value[forward_index[i]])
        PROVE  postlist[forward_index[i]] <= lx
    <3>1. i # j
      BY <2>2 DEF PassUnused
    <3>2. i < j
      BY <1>2, <2>2, <3>1
    <3> QED
      BY <1>2, <2>2, <3>2 DEF IInv, Passed, Drawing
  <2> QED
    BY <1>1, <1>2, <2>1, <2>2 DEF Passed
<1>7. Ahead'
  <2> SUFFICES ASSUME NEW i \in Posts, j + 1 <= i
               PROVE  lx < postlist[forward_index[i]]
    BY <1>1, <1>2 DEF Ahead
  <2>1. j <= i
    BY <1>2
  <2> QED
    BY <1>2, <2>1 DEF IInv, Ahead, Drawing
<1>8. Drawn'
  BY <1>1, <1>2 DEF IInv, Drawn, Done
<1> QED
  BY <1>3, <1>4, <1>5, <1>6, <1>7, <1>8 DEF IInv

(* One more sample drawn, the first that was not.                          *)
LEMMA OneMoreSample ==
  ASSUME TypeOK, Drawn, NEW s \in Samples, ~Done(s), NEW level \in 0..255,
         Multiply(s, level)
  PROVE  /\ out' \in [Samples -> Seq(0..255)]
         /\ out'[s] = <<level>>
         /\ \A t \in Samples : t # s => out'[t] = out[t]
<1>1. out[s] = <<>>
  BY DEF Drawn
<1>2. Append(out[s], level) = <<level>>
  BY <1>1
<1>3. <<level>> \in Seq(0..255)
  OBVIOUS
<1> QED
  BY <1>2, <1>3 DEF Multiply, TypeOK

LEMMA StartLineKeeps == ASSUME IInv, StartLine PROVE IInv'
<1>1. /\ postlist' = postlist /\ mult' = mult /\ n' = n
      /\ Posts' = Posts /\ Inner' = Inner /\ Samples' = Samples
  BY FloorStays DEF StartLine
<1>2. /\ fit_value' = fit_value /\ forward_index' = forward_index
      /\ lx' = lx /\ ly' = ly /\ j' = j
      /\ pc = "draw" /\ pc' = "line" /\ j \in Posts
      /\ InUse(fit_value[forward_index[j]])
      /\ hx' = postlist[forward_index[j]]
      /\ hy' = Level(mult, fit_value[forward_index[j]])
      /\ x' = lx /\ y' = ly /\ err' = 0
  BY DEF StartLine, neighbors
<1>3. lx \in Nat /\ ly \in 0..255 /\ n \in Nat /\ j \in Nat
  BY Floor1Assumption DEF IInv, TypeOK
<1>4. hx' \in Nat /\ lx < hx'
  <2>1. Sorted(postlist, forward_index)
    BY <1>2 DEF IInv, Ordered
  <2>2. postlist[forward_index[j]] \in Nat
    BY <1>2, <2>1, SortedOrder DEF IInv
  <2>3. lx < postlist[forward_index[j]]
    BY <1>2, <1>3 DEF IInv, Ahead, Drawing
  <2> QED
    BY <1>2, <2>2, <2>3
<1>5. hy' \in 0..255
  <2>1. forward_index[j] \in Posts
    BY <1>2 DEF IInv, TypeOK
  <2>2. mult \in 1..4 /\ fit_value[forward_index[j]] \in Int
    BY <2>1, Floor1Assumption DEF IInv, TypeOK
  <2> QED
    BY <1>2, <2>2, LevelInTable
<1>6. OnLine(lx, hx', ly, hy', lx, ly, 0)
  BY <1>3, <1>4, <1>5, LineStarts
<1>7. /\ out' \in [Samples -> Seq(0..255)]
      /\ \A s \in Samples :
           out'[s] = IF s <= lx THEN <<Curve(postlist, fit_value, mult, s)>> ELSE <<>>
  <2>1. CASE lx < n
    <3>1. lx \in Samples /\ ~Done(lx)
      BY <1>2, <1>3, <2>1 DEF Samples, Done
    <3>2. Multiply(lx, ly)
      BY <1>4, <2>1 DEF StartLine, Lesser
    <3>3. /\ out' \in [Samples -> Seq(0..255)]
          /\ out'[lx] = <<ly>>
          /\ \A t \in Samples : t # lx => out'[t] = out[t]
      BY <1>3, <3>1, <3>2, OneMoreSample DEF IInv
    <3>4. Curve(postlist, fit_value, mult, lx) = ly
      <4>1. Curve(postlist, fit_value, mult, lx) = render_point(lx, hx', ly, hy', lx)
        BY <1>2, <1>3, <1>4, CurveIsLine DEF Drawing
      <4>2. ly = render_point(lx, hx', ly, hy', lx)
        <5>1. /\ lx \in Nat /\ hx' \in Nat /\ ly \in Nat /\ hy' \in Nat
              /\ ly \in Int
          BY <1>3, <1>4, <1>5
        <5> QED
          BY <1>6, <5>1, LineIsPoint
      <4> QED
        BY <4>1, <4>2
    <3>5. ASSUME NEW s \in Samples, s # lx
          PROVE  out'[s] = IF s <= lx THEN <<Curve(postlist, fit_value, mult, s)>>
                           ELSE <<>>
      <4>1. out[s] = IF s < lx THEN <<Curve(postlist, fit_value, mult, s)>> ELSE <<>>
        BY <1>2 DEF IInv, Drawn, Done
      <4>2. s < lx <=> s <= lx
        BY <1>3, <3>5 DEF Samples
      <4> QED
        BY <3>3, <3>5, <4>1, <4>2
    <3>6. lx <= lx
      BY <1>3
    <3>7. \A s \in Samples :
            out'[s] = IF s <= lx THEN <<Curve(postlist, fit_value, mult, s)>> ELSE <<>>
      <4> SUFFICES ASSUME NEW s \in Samples
                   PROVE  out'[s] = IF s <= lx
                                      THEN <<Curve(postlist, fit_value, mult, s)>>
                                      ELSE <<>>
        OBVIOUS
      <4>1. CASE s = lx
        BY <3>3, <3>4, <3>6, <4>1
      <4>2. CASE s # lx
        BY <3>5, <4>2
      <4> QED
        BY <4>1, <4>2
    <3> QED
      BY <3>3, <3>7
  <2>2. CASE ~(lx < n)
    <3>1. out' = out
      BY <1>3, <1>4, <2>2 DEF StartLine, Lesser
    <3>2. \A s \in Samples : s < lx /\ s <= lx
      BY <1>3, <2>2 DEF Samples
    <3> QED
      BY <1>2, <3>1, <3>2 DEF IInv, TypeOK, Drawn, Done
  <2> QED
    BY <2>1, <2>2
<1>8. TypeOK'
  <2>1. /\ k' = k /\ lo' = lo /\ hi' = hi
        /\ loneighbor' = loneighbor /\ hineighbor' = hineighbor
    BY DEF StartLine, neighbors
  <2>2. x' \in Nat /\ y' \in 0..255 /\ err' \in Nat /\ pc' \in {"draw", "line"}
    BY <1>2, <1>3
  <2>3. out' \in [Samples' -> Seq(0..255)]
    BY <1>1, <1>7
  <2> QED
    BY <1>1, <1>2, <1>4, <1>5, <2>1, <2>2, <2>3 DEF IInv, TypeOK
<1>9. (Searching /\ NeighborsAreNearest /\ Ordered)'
  BY FoundStays DEF StartLine
<1>10. (Unwrapping /\ Rests)'
  BY <1>1, <1>2 DEF IInv, Unwrapping, Rests, Drawing
<1>11. (Passed /\ Ahead)'
  BY <1>1, <1>2 DEF IInv, Passed, Ahead, Drawing
<1>12. Pen'
  BY <1>1, <1>2, <1>6 DEF Pen
<1>13. Drawn'
  BY <1>1, <1>2, <1>7 DEF Drawn, Done
<1> QED
  BY <1>8, <1>9, <1>10, <1>11, <1>12, <1>13 DEF IInv

LEMMA DrawSampleKeeps == ASSUME IInv, DrawSample PROVE IInv'
<1>1. /\ postlist' = postlist /\ mult' = mult /\ n' = n
      /\ Posts' = Posts /\ Inner' = Inner /\ Samples' = Samples
  BY FloorStays DEF DrawSample
<1>2. /\ fit_value' = fit_value /\ forward_index' = forward_index
      /\ lx' = lx /\ ly' = ly /\ hx' = hx /\ hy' = hy /\ j' = j
      /\ pc = "line" /\ pc' = "line" /\ x' = x + 1
  BY DEF DrawSample, neighbors, search
<1>3. /\ lx \in Nat /\ hx \in Nat /\ ly \in Nat /\ hy \in Nat /\ n \in Nat
      /\ x \in Nat /\ y \in Nat /\ err \in Nat /\ ly <= 255 /\ hy <= 255
  BY Floor1Assumption DEF IInv, TypeOK
<1>4. x + 1 < n /\ x + 1 < hx
  BY <1>3 DEF DrawSample, Lesser
<1>5. /\ j \in Posts /\ InUse(fit_value[forward_index[j]])
      /\ hx = postlist[forward_index[j]]
      /\ hy = Level(mult, fit_value[forward_index[j]])
      /\ OnLine(lx, hx, ly, hy, x, y, err)
  BY <1>2 DEF IInv, Pen
<1>6. OnLine(lx, hx, ly, hy, x + 1, y', err')
  BY <1>3, <1>4, <1>5, LineGoesOn DEF DrawSample
<1>7. y' \in Int /\ err' \in Nat
  <2>0. y' \in Int
    BY <1>3, <1>4, <1>5, LineGoesOn DEF DrawSample
  <2>1. hx - lx \in Nat \ {0}
    BY <1>3, <1>5 DEF OnLine
  <2>2. err' \in Nat \/ ~(hy < ly)
    BY <1>3, <1>6 DEF OnLine, Steps
  <2>3. err' \in Nat \/ hy < ly
    BY <1>3, <1>6 DEF OnLine, Steps
  <2> QED
    BY <2>0, <2>2, <2>3
<1>8. /\ y' = render_point(lx, hx, ly, hy, x + 1)
      /\ y' \in 0..255
  BY <1>3, <1>6, <1>7, LineIsPoint
<1>9. x + 1 \in Samples /\ ~Done(x + 1) /\ x + 1 \in Nat /\ lx <= x + 1
  BY <1>2, <1>3, <1>4, <1>5 DEF Samples, Done, OnLine
<1>10. Multiply(x + 1, y')
  BY <1>2 DEF DrawSample, Multiply
<1>11. /\ out' \in [Samples -> Seq(0..255)]
       /\ out'[x + 1] = <<y'>>
       /\ \A t \in Samples : t # x + 1 => out'[t] = out[t]
  BY <1>8, <1>9, <1>10, OneMoreSample DEF IInv
<1>12. Curve(postlist, fit_value, mult, x + 1) = y'
  BY <1>2, <1>4, <1>5, <1>8, <1>9, CurveIsLine DEF Drawing
<1>13. ASSUME NEW s \in Samples
       PROVE  out'[s] = IF s <= x + 1 THEN <<Curve(postlist, fit_value, mult, s)>>
                        ELSE <<>>
  <2>1. CASE s = x + 1
    BY <1>3, <1>11, <1>12, <2>1
  <2>2. CASE s # x + 1
    <3>1. out[s] = IF s <= x THEN <<Curve(postlist, fit_value, mult, s)>> ELSE <<>>
      BY <1>2 DEF IInv, Drawn, Done
    <3>2. s <= x <=> s <= x + 1
      BY <1>3, <2>2 DEF Samples
    <3> QED
      BY <1>11, <2>2, <3>1, <3>2
  <2> QED
    BY <2>1, <2>2
<1>14. TypeOK'
  <2>1. /\ k' = k /\ lo' = lo /\ hi' = hi
        /\ loneighbor' = loneighbor /\ hineighbor' = hineighbor
    BY DEF DrawSample, search, neighbors
  <2>2. x' \in Nat /\ y' \in 0..255 /\ err' \in Nat /\ pc' \in {"draw", "line"}
    BY <1>2, <1>7, <1>8, <1>9
  <2>3. out' \in [Samples' -> Seq(0..255)]
    BY <1>1, <1>11
  <2> QED
    BY <1>1, <1>2, <2>1, <2>2, <2>3 DEF IInv, TypeOK
<1>15. (Searching /\ NeighborsAreNearest /\ Ordered)'
  BY FoundStays DEF DrawSample
<1>16. (Unwrapping /\ Rests)'
  BY <1>1, <1>2 DEF IInv, Unwrapping, Rests, Drawing
<1>17. (Passed /\ Ahead)'
  BY <1>1, <1>2 DEF IInv, Passed, Ahead, Drawing
<1>18. Pen'
  BY <1>1, <1>2, <1>5, <1>6 DEF Pen
<1>19. Drawn'
  BY <1>1, <1>2, <1>13 DEF Drawn, Done
<1> QED
  BY <1>14, <1>15, <1>16, <1>17, <1>18, <1>19 DEF IInv

LEMMA EndLineKeeps == ASSUME IInv, EndLine PROVE IInv'
<1>1. /\ postlist' = postlist /\ mult' = mult /\ n' = n
      /\ Posts' = Posts /\ Inner' = Inner /\ Samples' = Samples
  BY FloorStays DEF EndLine
<1>2. /\ fit_value' = fit_value /\ forward_index' = forward_index
      /\ lx' = hx /\ ly' = hy /\ hx' = hx /\ j' = j + 1
      /\ pc = "line" /\ pc' = "draw" /\ out' = out
  BY DEF EndLine, neighbors
<1>3. /\ lx \in Nat /\ hx \in Nat /\ n \in Nat /\ x \in Nat /\ j \in Nat
  BY Floor1Assumption DEF IInv, TypeOK
<1>4. /\ j \in Posts /\ InUse(fit_value[forward_index[j]])
      /\ hx = postlist[forward_index[j]]
      /\ hy = Level(mult, fit_value[forward_index[j]])
      /\ lx <= x /\ x < hx
  BY <1>2 DEF IInv, Pen, OnLine
<1>5. /\ Posts \subseteq Nat
      /\ \A i \in Posts : forward_index[i] \in Posts
                           /\ postlist[forward_index[i]] \in Nat
      /\ \A i, q \in Posts :
           i < q => postlist[forward_index[i]] < postlist[forward_index[q]]
  BY <1>2, SortedOrder DEF IInv, Ordered
<1>6. TypeOK'
  <2>1. /\ k' = k /\ lo' = lo /\ hi' = hi /\ hy' = hy
        /\ x' = x /\ y' = y /\ err' = err
        /\ loneighbor' = loneighbor /\ hineighbor' = hineighbor
    BY DEF EndLine, neighbors
  <2> QED
    BY <1>1, <1>2, <2>1 DEF IInv, TypeOK
<1>7. (Searching /\ NeighborsAreNearest /\ Ordered)'
  BY FoundStays DEF EndLine
<1>8. (Unwrapping /\ Pen)'
  BY <1>2 DEF Unwrapping, Pen
<1>9. Rests'
  <2>1. forward_index[j] \in Posts
    BY <1>4, <1>5
  <2> QED
    BY <1>1, <1>2, <1>4, <2>1 DEF Rests
<1>10. Passed'
  <2>1. j + 1 >= 1
    BY <1>3
  <2>2. ASSUME NEW i \in Posts, i < j + 1
        PROVE  postlist[forward_index[i]] <= hx
    <3>1. CASE i = j
      BY <3>1, <1>3, <1>4
    <3>2. CASE i < j
      BY <3>2, <1>4, <1>5
    <3> QED
      BY <2>2, <3>1, <3>2, <1>3, <1>5
  <2> QED
    BY <1>1, <1>2, <2>1, <2>2 DEF Passed
<1>11. Ahead'
  <2> SUFFICES ASSUME NEW i \in Posts, j + 1 <= i
               PROVE  hx < postlist[forward_index[i]]
    BY <1>1, <1>2 DEF Ahead
  <2>1. j < i
    BY <1>3, <1>5
  <2> QED
    BY <2>1, <1>4, <1>5
<1>12. Drawn'
  <2>1. ASSUME NEW s \in Samples PROVE s <= x <=> s < hx
    <3>1. s \in Nat /\ s < n
      BY <1>3 DEF Samples
    <3>2. x + 1 >= n \/ x + 1 >= hx
      BY <1>3 DEF EndLine, Lesser
    <3> QED
      BY <1>3, <1>4, <3>1, <3>2
  <2> QED
    BY <1>1, <1>2, <2>1 DEF IInv, Drawn, Done
<1> QED
  BY <1>6, <1>7, <1>8, <1>9, <1>10, <1>11, <1>12 DEF IInv

LEMMA StartTailKeeps == ASSUME IInv, StartTail PROVE IInv'
<1>1. /\ postlist' = postlist /\ mult' = mult /\ n' = n
      /\ Posts' = Posts /\ Inner' = Inner /\ Samples' = Samples
  BY FloorStays DEF StartTail
<1>2. /\ fit_value' = fit_value /\ forward_index' = forward_index
      /\ lx' = lx /\ ly' = ly /\ j' = j /\ x' = lx /\ j \notin Posts
      /\ pc = "draw" /\ pc' = "tail" /\ out' = out /\ lx \in Nat
  BY DEF StartTail, neighbors, search, IInv, Pen, TypeOK
<1>3. TypeOK'
  BY <1>1 DEF IInv, TypeOK, StartTail, neighbors, search
<1>4. (Searching /\ NeighborsAreNearest /\ Ordered)'
  BY FoundStays DEF StartTail
<1>5. (Unwrapping /\ Rests /\ Passed /\ Ahead)'
  BY <1>1, <1>2 DEF IInv, Unwrapping, Rests, Passed, Ahead, Drawing
<1>6. Pen'
  BY <1>1, <1>2 DEF Pen
<1>7. Drawn'
  BY <1>1, <1>2 DEF IInv, Drawn, Done
<1> QED
  BY <1>3, <1>4, <1>5, <1>6, <1>7 DEF IInv

LEMMA DrawTailKeeps == ASSUME IInv, DrawTail PROVE IInv'
<1>1. /\ postlist' = postlist /\ mult' = mult /\ n' = n
      /\ Posts' = Posts /\ Inner' = Inner /\ Samples' = Samples
  BY FloorStays DEF DrawTail
<1>2. /\ fit_value' = fit_value /\ forward_index' = forward_index
      /\ lx' = lx /\ ly' = ly /\ j' = j /\ x' = x + 1
      /\ pc = "tail" /\ pc' = "tail" /\ x < n
  BY DEF DrawTail, neighbors, search
<1>3. lx \in Nat /\ ly \in 0..255 /\ n \in Nat /\ x \in Nat /\ j \in Nat
  BY Floor1Assumption DEF IInv, TypeOK
<1>4. j \notin Posts /\ lx <= x
  BY <1>2 DEF IInv, Pen
<1>5. PostListOK(postlist)
  BY ListOK DEF IInv
<1>6. Curve(postlist, fit_value, mult, x) = ly
  <2>1. /\ Posts \subseteq Nat /\ 0 \in Posts /\ postlist[0] = 0
        /\ \A p, q \in Nat : q \in Posts /\ p <= q => p \in Posts
    BY <1>5, PostsInOrder DEF Posts, PostListOK
  <2>2. \A p \in Posts : \E i \in Posts : forward_index[i] = p
    BY <1>2, SortedOrder DEF IInv, Ordered
  <2>3. PICK b \in Posts : /\ b = 0 \/ InUse(fit_value[b])
                           /\ lx = postlist[b] /\ ly = Level(mult, fit_value[b])
    BY <1>2 DEF IInv, Rests, Drawing
  <2>4. ASSUME NEW p \in Posts, p = 0 \/ InUse(fit_value[p])
        PROVE  postlist[p] <= lx
    <3>1. CASE p = 0
      BY <3>1, <2>1, <1>3
    <3>2. CASE InUse(fit_value[p])
      <4>1. PICK i \in Posts : forward_index[i] = p
        BY <2>2
      <4>2. i < j
        BY <2>1, <1>3, <1>4
      <4> QED
        BY <1>2, <3>2, <4>1, <4>2 DEF IInv, Passed, Drawing
    <3> QED
      BY <2>4, <3>1, <3>2
  <2> QED
    BY <1>3, <1>4, <1>5, <2>3, <2>4, CurveBehind DEF Posts
<1>7. /\ out' \in [Samples -> Seq(0..255)]
      /\ out'[x] = <<ly>>
      /\ \A t \in Samples : t # x => out'[t] = out[t]
  <2>1. x \in Samples /\ ~Done(x)
    BY <1>2, <1>3 DEF Samples, Done
  <2>2. Multiply(x, ly)
    BY DEF DrawTail
  <2> QED
    BY <1>3, <2>1, <2>2, OneMoreSample DEF IInv
<1>8. TypeOK'
  <2>1. /\ k' = k /\ lo' = lo /\ hi' = hi /\ hx' = hx /\ hy' = hy
        /\ y' = y /\ err' = err
        /\ loneighbor' = loneighbor /\ hineighbor' = hineighbor
    BY DEF DrawTail, neighbors, search
  <2>2. x' \in Nat /\ out' \in [Samples' -> Seq(0..255)]
    BY <1>1, <1>2, <1>3, <1>7
  <2> QED
    BY <1>1, <1>2, <2>1, <2>2 DEF IInv, TypeOK
<1>9. (Searching /\ NeighborsAreNearest /\ Ordered)'
  BY FoundStays DEF DrawTail
<1>10. (Unwrapping /\ Rests /\ Passed /\ Ahead)'
  BY <1>1, <1>2 DEF IInv, Unwrapping, Rests, Passed, Ahead, Drawing
<1>11. Pen'
  <2>1. lx <= x + 1
    BY <1>3, <1>4
  <2> QED
    BY <1>1, <1>2, <1>4, <2>1 DEF Pen
<1>12. Drawn'
  <2>1. ASSUME NEW s \in Samples
        PROVE  out'[s] = IF s < x + 1 THEN <<Curve(postlist, fit_value, mult, s)>>
                         ELSE <<>>
    <3>1. CASE s = x
      <4>1. s < x + 1
        BY <1>3, <3>1
      <4> QED
        BY <1>6, <1>7, <3>1, <4>1
    <3>2. CASE s # x
      <4>1. out[s] = IF s < x THEN <<Curve(postlist, fit_value, mult, s)>> ELSE <<>>
        BY <1>2 DEF IInv, Drawn, Done
      <4>2. s < x <=> s < x + 1
        BY <1>3, <3>2 DEF Samples
      <4> QED
        BY <1>7, <3>2, <4>1, <4>2
    <3> QED
      BY <3>1, <3>2
  <2> QED
    BY <1>1, <1>2, <2>1 DEF Drawn, Done
<1> QED
  BY <1>8, <1>9, <1>10, <1>11, <1>12 DEF IInv

LEMMA EndCurveKeeps == ASSUME IInv, EndCurve PROVE IInv'
<1>1. /\ postlist' = postlist /\ mult' = mult /\ n' = n
      /\ Posts' = Posts /\ Inner' = Inner /\ Samples' = Samples
  BY FloorStays DEF EndCurve
<1>2. 0 \in Posts
  BY ListOK, PostsInOrder DEF IInv, Posts
<1>3. TypeOK'
  <2>1. /\ pc' = "read" /\ j' \in Nat /\ k' \in Nat
        /\ lo' \in Posts' /\ hi' \in Posts' /\ lx' \in Nat /\ hx' \in Nat
        /\ ly' \in 0..255 /\ hy' \in 0..255 /\ y' \in 0..255
        /\ x' \in Nat /\ err' \in Nat
    BY <1>1, <1>2 DEF EndCurve
  <2>2. fit_value' \in [Posts' -> Int]
    BY <1>1 DEF EndCurve
  <2>3. out' \in [Samples' -> Seq(0..255)]
    BY <1>1 DEF EndCurve
  <2>4. /\ loneighbor' = loneighbor /\ hineighbor' = hineighbor
        /\ forward_index' = forward_index
    BY DEF EndCurve, neighbors
  <2> QED
    BY <1>1, <2>1, <2>2, <2>3, <2>4 DEF IInv, TypeOK
<1>4. (Searching /\ NeighborsAreNearest /\ Ordered)'
  BY FoundStays DEF EndCurve
<1>5. (Unwrapping /\ Rests /\ Passed /\ Ahead /\ Pen)'
  BY DEF EndCurve, Unwrapping, Rests, Passed, Ahead, Pen, Drawing
<1>6. Drawn'
  BY <1>1 DEF EndCurve, Drawn, Done
<1> QED
  BY <1>3, <1>4, <1>5, <1>6 DEF IInv

LEMMA StutterKeeps == ASSUME IInv, UNCHANGED vars PROVE IInv'
<1>1. /\ postlist' = postlist /\ mult' = mult /\ n' = n
      /\ Posts' = Posts /\ Inner' = Inner /\ Samples' = Samples
  BY FloorStays DEF vars
<1>2. /\ pc' = pc /\ j' = j /\ k' = k /\ lo' = lo /\ hi' = hi
      /\ lx' = lx /\ hx' = hx /\ ly' = ly /\ hy' = hy
      /\ x' = x /\ y' = y /\ err' = err
      /\ loneighbor' = loneighbor /\ hineighbor' = hineighbor
      /\ forward_index' = forward_index
      /\ fit_value' = fit_value /\ out' = out
  BY DEF vars, search, neighbors, line
<1>3. (TypeOK /\ Searching /\ NeighborsAreNearest /\ Ordered)'
  BY <1>1, <1>2 DEF IInv, TypeOK, Searching, NeighborsAreNearest, Ordered
<1>4. (Unwrapping /\ Rests /\ Passed /\ Ahead)'
  BY <1>1, <1>2 DEF IInv, Unwrapping, Rests, Passed, Ahead, Drawing
<1>5. (Pen /\ Drawn)'
  BY <1>1, <1>2 DEF IInv, Pen, Drawn, Done
<1> QED
  BY <1>3, <1>4, <1>5 DEF IInv

-----------------------------------------------------------------------------
(* Search, order, pen and drawn samples are in step from the first state   *)
(* on: the strengthening all the properties below follow from.             *)
THEOREM Floor1Invariant == Spec => []IInv
<1>1. Init => IInv
  BY InitHolds
<1>2. IInv /\ [Next]_vars => IInv'
  <2> SUFFICES ASSUME IInv, [Next]_vars PROVE IInv'
    OBVIOUS
  <2>1. CASE LookAtPost \/ KeepNeighbors \/ Unpacked
    BY <2>1, LookAtPostKeeps, KeepNeighborsKeeps, UnpackedKeeps
  <2>2. CASE ReadFloor \/ UnwrapPost \/ SkipPost
    BY <2>2, ReadFloorKeeps, UnwrapPostKeeps, SkipPostKeeps
  <2>3. CASE StartCurve \/ PassUnused \/ StartLine \/ DrawSample \/ EndLine
    BY <2>3, StartCurveKeeps, PassUnusedKeeps, StartLineKeeps, DrawSampleKeeps,
       EndLineKeeps
  <2>4. CASE StartTail \/ DrawTail \/ EndCurve
    BY <2>4, StartTailKeeps, DrawTailKeeps, EndCurveKeeps
  <2>5. CASE UNCHANGED vars
    BY <2>5, StutterKeeps
  <2> QED
    BY <2>1, <2>2, <2>3, <2>4, <2>5 DEF Next
<1> QED
  BY <1>1, <1>2, PTL DEF Spec

(* Every index into the dB table is inside it, whatever the packet holds.  *)
THEOREM LookupsInTable == Spec => []TypeOK
<1>1. IInv => TypeOK
  BY DEF IInv
<1> QED
  BY <1>1, Floor1Invariant, PTL

(* floor1_unpack finds the nearest posts whatever order they are listed in. *)
THEOREM SearchFindsNearest == Spec => []NeighborsAreNearest
<1>1. IInv => NeighborsAreNearest
  BY DEF IInv
<1> QED
  BY <1>1, Floor1Invariant, PTL

(* Codes and heights take turns around the prediction, then run on along   *)
(* the longer side.                                                        *)
LEMMA UnwrapIsOnto ==
  ASSUME NEW q \in Nat, NEW p \in 0..(q - 1)
  PROVE  {p + Unwrap(q, p, val) : val \in 1..(q - 1)} = (0..(q - 1)) \ {p}
<1>1. ASSUME NEW val \in 1..(q - 1)
      PROVE  p + Unwrap(q, p, val) \in (0..(q - 1)) \ {p}
  <2> DEFINE half == val \div 2
             more == (val + 1) \div 2
  <2>1. /\ half \in Nat /\ more \in Nat /\ val % 2 \in {0, 1}
        /\ val % 2 = 1 => more * 2 = val + 1
        /\ val % 2 = 0 => half * 2 = val
    OBVIOUS
  <2>2. Unwrap(q, p, val) =
          IF val >= 2 * Lesser(q - p, p)
            THEN IF q - p > p THEN val - p ELSE -1 - (val - (q - p))
            ELSE IF val % 2 = 1 THEN -more ELSE half
    BY DEF Unwrap
  <2> HIDE DEF half, more
  <2>3. CASE q - p > p
    BY <2>1, <2>2, <2>3 DEF Lesser
  <2>4. CASE ~(q - p > p)
    BY <2>1, <2>2, <2>4 DEF Lesser
  <2> QED
    BY <2>3, <2>4
<1>2. ASSUME NEW h \in 0..(q - 1), h # p
      PROVE  \E val \in 1..(q - 1) : h = p + Unwrap(q, p, val)
  <2>1. CASE h > p /\ 2 * (h - p) < 2 * Lesser(q - p, p)
    <3>1. 2 * (h - p) \in 1..(q - 1)
      BY <2>1 DEF Lesser
    <3>2. Unwrap(q, p, 2 * (h - p)) = h - p
      BY <2>1 DEF Unwrap, Lesser
    <3> QED
      BY <3>1, <3>2
  <2>2. CASE h < p /\ 2 * (p - h) - 1 < 2 * Lesser(q - p, p)
    <3>1. 2 * (p - h) - 1 \in 1..(q - 1)
      BY <2>2 DEF Lesser
    <3>2. Unwrap(q, p, 2 * (p - h) - 1) = h - p
      BY <2>2 DEF Unwrap, Lesser
    <3> QED
      BY <3>1, <3>2
  <2>3. CASE h > p /\ ~(2 * (h - p) < 2 * Lesser(q - p, p))
    <3>1. h \in 1..(q - 1) /\ q - p > p
      BY <2>3 DEF Lesser
    <3>2. Unwrap(q, p, h) = h - p
      BY <2>3, <3>1 DEF Unwrap, Lesser
    <3> QED
      BY <3>1, <3>2
  <2>4. CASE h < p /\ ~(2 * (p - h) - 1 < 2 * Lesser(q - p, p))
    <3>1. q - 1 - h \in 1..(q - 1) /\ ~(q - p > p)
      BY <2>4 DEF Lesser
    <3>2. Unwrap(q, p, q - 1 - h) = h - p
      BY <2>4, <3>1 DEF Unwrap, Lesser
    <3> QED
      BY <3>1, <3>2
  <2> QED
    BY <1>2, <2>1, <2>2, <2>3, <2>4
<1> QED
  BY <1>1, <1>2

(* floor1_inverse1 can restore every height an encoder may have wrapped.   *)
THEOREM CodesCoverHeights == Spec => []EveryHeightHasItsCode
<1>1. IInv => EveryHeightHasItsCode
  <2> SUFFICES ASSUME IInv, Predicted(j) \in 0..(quant_q - 1)
               PROVE  {Predicted(j) + Unwrap(quant_q, Predicted(j), val) :
                         val \in 1..(quant_q - 1)} = (0..(quant_q - 1)) \ {Predicted(j)}
    BY DEF EveryHeightHasItsCode
  <2>1. quant_q \in Nat
    BY Floor1Assumption DEF IInv, TypeOK, quant_q, floor1_quant_q
  <2> QED
    BY <2>1, UnwrapIsOnto
<1> QED
  BY <1>1, Floor1Invariant, PTL

(* render_line's running error is as good as a division at every sample.   *)
THEOREM LinesAreStraight == Spec => []LineIsStraight
<1>1. IInv => LineIsStraight
  <2> SUFFICES ASSUME IInv, pc = "line" PROVE y = render_point(lx, hx, ly, hy, x)
    BY DEF LineIsStraight
  <2>1. /\ lx \in Nat /\ hx \in Nat /\ ly \in Nat /\ hy \in Nat
        /\ x \in Nat /\ y \in Int
    BY DEF IInv, TypeOK
  <2>2. OnLine(lx, hx, ly, hy, x, y, err)
    BY DEF IInv, Pen
  <2> QED
    BY <2>1, <2>2, LineIsPoint
<1> QED
  BY <1>1, Floor1Invariant, PTL

(* floor1_inverse2 draws the curve, the whole of it and nothing twice, for *)
(* every floor, block size and packet.                                     *)
THEOREM CurveIsDrawn == Spec => []FloorIsDrawn
<1>1. IInv => FloorIsDrawn
  <2> SUFFICES ASSUME IInv, pc = "tail", x >= n, NEW s \in Samples
               PROVE  out[s] = <<Curve(postlist, fit_value, mult, s)>>
    BY DEF FloorIsDrawn
  <2>1. n \in Nat /\ x \in Nat
    BY Floor1Assumption DEF IInv, TypeOK
  <2>2. s < x
    BY <2>1 DEF Samples
  <2> QED
    BY <2>2 DEF IInv, Drawn, Done
<1> QED
  BY <1>1, Floor1Invariant, PTL
=============================================================================
