-------------------------- MODULE BlockArenaProofs --------------------------
(***************************************************************************)
(* The arena of a packet suffices, and no residue leaves its plane, for    *)
(* every codec setup the unpackers let through and every packet.           *)
(***************************************************************************)
EXTENDS BlockArena, FiniteSetTheorems, TLAPS

-----------------------------------------------------------------------------
(* Arithmetic.                                                             *)

LEMMA TimesNat == ASSUME NEW a \in Nat, NEW b \in Nat PROVE a * b \in Nat
OBVIOUS

(* Multiplication keeps the order.                                         *)
LEMMA TimesMonotone ==
  ASSUME NEW a \in Nat, NEW b \in Nat, NEW m \in Nat, a <= b
  PROVE  a * m <= b * m /\ m * a <= m * b
<1> DEFINE d == b - a
<1>1. d \in Nat /\ b = a + d
  OBVIOUS
<1> HIDE DEF d
<1>2. b * m = a * m + d * m /\ m * b = m * a + m * d
  BY <1>1
<1>3. d * m \in Nat /\ m * d \in Nat /\ a * m \in Nat /\ m * a \in Nat
  BY <1>1, TimesNat
<1> QED
  BY <1>2, <1>3

(* One of n, counted from zero.                                            *)
LEMMA Below ==
  ASSUME NEW n \in 1..16, NEW k \in Nat, k < n
  PROVE  k \in 0..(n - 1) /\ k + 1 \in Nat /\ k + 1 <= n
OBVIOUS

LEMMA AtMost == ASSUME NEW n \in Nat, NEW k \in 1..n PROVE k <= n
OBVIOUS

(* What is added stays below the next bound, and that below the last.      *)
LEMMA NextBound ==
  ASSUME NEW u \in Nat, NEW b \in Nat, NEW bound \in Nat, NEW next \in Nat,
         NEW last \in Nat, u <= bound, bound + b <= next, next <= last
  PROVE  u + b <= next /\ u + b <= last /\ u <= next
OBVIOUS

(* A quotient times its divisor is the dividend but for a remainder.       *)
LEMMA Quotient ==
  ASSUME NEW a \in Nat, NEW b \in Nat \ {0}
  PROVE  /\ a \div b \in Nat
         /\ (a \div b) * b <= a /\ a < (a \div b) * b + b
OBVIOUS

(* Division keeps the order.                                               *)
LEMMA QuotientMonotone ==
  ASSUME NEW a \in Nat, NEW c \in Nat, NEW b \in Nat \ {0}, a <= c
  PROVE  a \div b <= c \div b
<1> DEFINE p == a \div b
           q == c \div b
<1>1. p \in Nat /\ q \in Nat /\ p * b <= a /\ c < q * b + b
  BY Quotient
<1> HIDE DEF p, q
<1>2. ASSUME q + 1 <= p PROVE FALSE
  <2>1. (q + 1) * b <= p * b
    BY <1>1, <1>2, TimesMonotone
  <2>2. (q + 1) * b = q * b + b
    BY <1>1
  <2>3. q * b \in Nat /\ p * b \in Nat
    BY <1>1, TimesNat
  <2> QED
    BY <1>1, <2>1, <2>2, <2>3
<1>3. p <= q
  BY <1>1, <1>2
<1> QED
  BY <1>3 DEF p, q

(* Rounding up adds less than the alignment.                               *)
LEMMA RoundBound ==
  ASSUME NEW n \in Nat PROVE Round(n) \in Nat /\ Round(n) <= n + 7
BY DEF Round, ARENA_ALIGN

-----------------------------------------------------------------------------
(* The terms of the size.                                                  *)

(* A residue needs no more class indices for a longer block.               *)
LEMMA ClassBytesMonotone ==
  ASSUME NEW r \in ResidueType, NEW c \in Nat, NEW d \in Nat, c <= d
  PROVE  /\ ClassBytes(r, c) \in Nat /\ ClassBytes(r, d) \in Nat
         /\ ClassBytes(r, c) <= ClassBytes(r, d)
<1>1. /\ r.begin \in Nat /\ r.end \in Nat
      /\ r.grouping \in Nat \ {0} /\ r.dim \in Nat \ {0}
  BY DEF ResidueType
<1> DEFINE len(x) == Lesser(r.end, x) - r.begin
           words(x) == (Partvals(r, x) + r.dim - 1) \div r.dim
<1>2. ASSUME NEW x \in Nat, Lesser(r.end, x) > r.begin
      PROVE  /\ len(x) \in Nat /\ Partvals(r, x) \in Nat
             /\ Partvals(r, x) + r.dim - 1 \in Nat /\ words(x) \in Nat
             /\ words(x) * r.dim \in Nat
  <2>1. len(x) \in Nat
    BY <1>1, <1>2 DEF Lesser
  <2>2. Partvals(r, x) \in Nat
    BY <1>1, <2>1, Quotient DEF Partvals
  <2>3. Partvals(r, x) + r.dim - 1 \in Nat
    BY <1>1, <2>2
  <2>4. words(x) \in Nat
    BY <1>1, <2>3, Quotient
  <2> QED
    BY <1>1, <2>1, <2>2, <2>3, <2>4, TimesNat
<1>3. ASSUME NEW x \in Nat PROVE ClassBytes(r, x) \in Nat
  BY <1>2 DEF ClassBytes
<1>4. CASE ~(Lesser(r.end, c) > r.begin)
  <2>1. ClassBytes(r, c) = 0
    BY <1>4 DEF ClassBytes
  <2> QED
    BY <1>3, <2>1
<1>5. CASE Lesser(r.end, c) > r.begin
  <2>1. Lesser(r.end, d) > r.begin /\ len(c) <= len(d)
    BY <1>1, <1>5 DEF Lesser
  <2>2. Partvals(r, c) <= Partvals(r, d)
    BY <1>1, <1>2, <1>5, <2>1, QuotientMonotone DEF Partvals
  <2>3. Partvals(r, c) + r.dim - 1 <= Partvals(r, d) + r.dim - 1
    BY <1>1, <1>2, <1>5, <2>1, <2>2
  <2>4. words(c) <= words(d)
    BY <1>1, <1>2, <1>5, <2>1, <2>3, QuotientMonotone
  <2>5. words(c) * r.dim <= words(d) * r.dim
    BY <1>1, <1>2, <1>5, <2>1, <2>4, TimesMonotone
  <2> QED
    BY <1>3, <1>5, <2>1, <2>5 DEF ClassBytes
<1> QED
  BY <1>4, <1>5

(* The partitions of a residue end where it ends.                          *)
LEMMA PartitionsFit ==
  ASSUME NEW r \in ResidueType, NEW cap \in Nat, Lesser(r.end, cap) > r.begin,
         NEW p \in 0..Partvals(r, cap)
  PROVE  /\ p \in Nat /\ p * r.grouping \in Nat
         /\ r.begin + p * r.grouping <= cap
<1>1. r.begin \in Nat /\ r.end \in Nat /\ r.grouping \in Nat \ {0}
  BY DEF ResidueType
<1> DEFINE len == Lesser(r.end, cap) - r.begin
           q == Partvals(r, cap)
<1>2. len \in Nat /\ r.begin + len <= cap
  BY <1>1 DEF Lesser
<1>3. q \in Nat /\ q * r.grouping <= len
  BY <1>1, <1>2, Quotient DEF Partvals
<1>4. p \in Nat /\ p <= q
  BY <1>3
<1>5. p * r.grouping <= q * r.grouping
  BY <1>1, <1>3, <1>4, TimesMonotone
<1>6. p * r.grouping \in Nat /\ q * r.grouping \in Nat
  BY <1>1, <1>3, <1>4, TimesNat
<1> HIDE DEF len, q
<1> QED
  BY <1>1, <1>2, <1>3, <1>4, <1>5, <1>6

(* The channels of the submaps before the k-th.                            *)
Before(s, m, k) == {c \in ChannelsOf(s) : m.chmuxlist[c] < k}

LEMMA SubmapsPartition ==
  ASSUME NEW s, SetupOK(s), NEW m, ModeOK(s, m), NEW k \in 0..(m.submaps - 1)
  PROVE  LET b == {c \in ChannelsOf(s) : m.chmuxlist[c] = k}
         IN  /\ IsFiniteSet(b) /\ IsFiniteSet(Before(s, m, k))
             /\ Cardinality(b) \in Nat /\ Cardinality(Before(s, m, k)) \in Nat
             /\ Cardinality(Before(s, m, k + 1))
                  = Cardinality(Before(s, m, k)) + Cardinality(b)
             /\ Cardinality(Before(s, m, k + 1)) <= s.channels
<1> DEFINE b == {c \in ChannelsOf(s) : m.chmuxlist[c] = k}
<1>1. s.channels \in Nat /\ m.submaps \in 1..16 /\ k \in Nat
  BY DEF SetupOK, ModeOK
<1>2. /\ IsFiniteSet(ChannelsOf(s)) /\ Cardinality(ChannelsOf(s)) = s.channels
  <2>1. s.channels - 1 \in Int /\ 0 \in Int
    BY <1>1
  <2>2. /\ IsFiniteSet(0..(s.channels - 1))
        /\ Cardinality(0..(s.channels - 1))
             = IF 0 > s.channels - 1 THEN 0 ELSE s.channels - 1 - 0 + 1
    BY <2>1, FS_Interval, Zenon
  <2> QED
    BY <1>1, <2>2 DEF ChannelsOf
<1>3. \A c \in ChannelsOf(s) : m.chmuxlist[c] \in Nat
  BY <1>1 DEF ModeOK
<1>4. /\ Before(s, m, k + 1) = Before(s, m, k) \cup b
      /\ Before(s, m, k) \cap b = {}
  BY <1>1, <1>3 DEF Before
<1>5. /\ b \subseteq ChannelsOf(s) /\ Before(s, m, k) \subseteq ChannelsOf(s)
      /\ Before(s, m, k + 1) \subseteq ChannelsOf(s)
  BY DEF Before
<1> HIDE DEF b
<1>6. IsFiniteSet(b) /\ IsFiniteSet(Before(s, m, k))
  BY <1>2, <1>5, FS_Subset
<1>7. Cardinality(b) \in Nat /\ Cardinality(Before(s, m, k)) \in Nat
  BY <1>6, FS_CardinalityType
<1>8. Cardinality(Before(s, m, k + 1)) <= s.channels
  BY <1>2, <1>5, FS_Subset
<1>9. Cardinality(Before(s, m, k) \cup b)
        = Cardinality(Before(s, m, k)) + Cardinality(b)
  <2> DEFINE S == Before(s, m, k)
  <2>1. Cardinality(S \cup b) = Cardinality(S) + Cardinality(b) - Cardinality(S \cap b)
    BY <1>6, FS_Union, Zenon
  <2>2. Cardinality(S \cap b) = 0
    BY <1>4, FS_EmptySet, Zenon
  <2> HIDE DEF S
  <2>3. Cardinality(S) \in Nat /\ Cardinality(b) \in Nat
    BY <1>7 DEF S
  <2>4. Cardinality(S \cup b) = Cardinality(S) + Cardinality(b)
    BY <2>1, <2>2, <2>3
  <2> QED
    BY <2>4 DEF S
<1> QED
  BY <1>4, <1>6, <1>7, <1>8, <1>9 DEF b

-----------------------------------------------------------------------------
(* The inductive invariant: what has been measured, and what is left.      *)

Types ==
  /\ setup \in Setups /\ mode \in setup.modes
  /\ pc \in {"floors", "residues", "ready", "decode floors", "couple",
             "decode residues"}
  /\ i \in Nat /\ capacity \in Nat /\ used \in Nat /\ null \in BOOLEAN
  /\ max_floor \in Nat /\ max_bytes_01 \in Nat /\ max_bytes_2 \in Nat
  /\ nonzero \subseteq Channels

FloorsCovered(n) ==
  \A f \in 1..setup.floors :
    f <= n => FloorSize(setup.floor_param[f]) <= max_floor

ResiduesCovered(n) ==
  \A k \in 1..setup.residues : k <= n =>
    /\ ClassBytes(setup.residue_param[k], EndCap01(setup)) <= max_bytes_01
    /\ ClassBytes(setup.residue_param[k], EndCap2(setup)) <= max_bytes_2

(* The largest floor of each type and the residues have been looked at.    *)
Measured ==
  /\ FloorsCovered(IF pc = "floors" THEN i ELSE setup.floors)
  /\ pc # "floors" =>
       ResiduesCovered(IF pc = "residues" THEN i ELSE setup.residues)
  /\ pc \notin {"floors", "residues"} => capacity = ArenaSize

(* At most this much is taken when the bundles are there, after n floors,  *)
(* and after the residues of a number of channels with a arrays of type 2. *)
BundleBound ==
  setup.channels * PtrBytes + setup.channels * IntBytes
    + setup.channels * IntBytes + setup.channels * PtrBytes + 28
FloorBound(n) == BundleBound + n * (max_floor + 7)
ResidueBound(n, a) ==
  FloorBound(setup.channels) + n * (PtrBytes + max_bytes_01 + 14)
    + a * max_bytes_2

Served(k) == Cardinality(Before(setup, mode, k))

Budget ==
  /\ ~null
  /\ pc = "decode floors" => i <= setup.channels /\ used <= FloorBound(i)
  /\ pc = "couple" => used <= FloorBound(setup.channels)
  /\ pc = "decode residues" =>
       i <= mode.submaps /\ used <= ResidueBound(Served(i), Lesser(Served(i), i))

IInv == Types /\ Measured /\ Budget

-----------------------------------------------------------------------------
(* A setup that was let through, taken apart.                              *)
LEMMA SetupParts ==
  ASSUME Types
  PROVE  /\ SetupOK(setup) /\ ModeOK(setup, mode)
         /\ setup.channels \in Nat /\ setup.channels > 0
         /\ setup.floors \in Nat /\ setup.residues \in Nat
         /\ setup.blocksizes[0] \in Nat /\ setup.blocksizes[1] \in Nat
         /\ pcmend \in Nat /\ pcmend <= setup.blocksizes[1]
         /\ \A f \in 1..setup.floors : setup.floor_param[f] \in FloorType
         /\ \A k \in 1..setup.residues : setup.residue_param[k] \in ResidueType
         /\ PtrBytes \in Nat
         /\ mode.submaps \in 1..16
<1>1. SetupOK(setup) /\ PtrBytes \in Nat
  BY ArenaAssumption DEF Types
<1>2. ModeOK(setup, mode)
  BY <1>1 DEF SetupOK, Types
<1>3. mode.W \in {0, 1} /\ mode.submaps \in 1..16
  BY <1>2 DEF ModeOK, Flags
<1>4. /\ setup.blocksizes[0] \in Nat /\ setup.blocksizes[1] \in Nat
      /\ setup.blocksizes[0] <= setup.blocksizes[1]
  BY <1>1 DEF SetupOK, Flags
<1>5. pcmend \in Nat /\ pcmend <= setup.blocksizes[1]
  BY <1>3, <1>4 DEF pcmend
<1> QED
  BY <1>1, <1>2, <1>3, <1>4, <1>5 DEF SetupOK

(* The size is what the worst packet takes.                                *)
LEMMA CapacityBound ==
  ASSUME Types
  PROVE  /\ ArenaSize = ResidueBound(setup.channels, Lesser(setup.channels, 16))
         /\ ArenaSize \in Nat
<1> DEFINE ch == setup.channels
           P == PtrBytes   F == max_floor   A == max_bytes_01   B == max_bytes_2
           a == Lesser(ch, 16)
<1>1. ch \in Nat /\ P \in Nat /\ F \in Nat /\ A \in Nat /\ B \in Nat /\ a \in Nat
  BY SetupParts DEF Types, Lesser
<1>2. /\ ArenaSize = ch * F + ch * P + ch * A + a * B + ch * P + ch * 4 + ch * 4
                       + ch * P + (3 * ch + 4) * (8 - 1)
      /\ ResidueBound(ch, a)
           = (ch * P + ch * 4 + ch * 4 + ch * P + 28 + ch * (F + 7))
               + ch * (P + A + 14) + a * B
  BY DEF ArenaSize, ResidueBound, FloorBound, BundleBound, Slack, Res2Arrays,
         IntBytes, ARENA_ALIGN
<1> HIDE DEF ch, P, F, A, B, a
<1>3. /\ ch * (F + 7) = ch * F + 7 * ch
      /\ ch * (P + A + 14) = ch * P + ch * A + 14 * ch
      /\ (3 * ch + 4) * (8 - 1) = 21 * ch + 28
      /\ ch * 4 = 4 * ch
  BY <1>1
<1>4. ch * F \in Nat /\ ch * P \in Nat /\ ch * A \in Nat /\ a * B \in Nat
  BY <1>1, TimesNat
<1>5. ArenaSize = ResidueBound(ch, a) /\ ArenaSize \in Nat
  BY <1>1, <1>2, <1>3, <1>4
<1> QED
  BY <1>5 DEF ch, a

(* The bounds are numbers and grow with what has been served.              *)
LEMMA Bounds ==
  ASSUME Types, NEW n \in 0..setup.channels, NEW a \in 0..Lesser(setup.channels, 16)
  PROVE  /\ BundleBound \in Nat /\ FloorBound(n) \in Nat
         /\ ResidueBound(n, a) \in Nat
         /\ FloorBound(n) <= FloorBound(setup.channels)
         /\ FloorBound(n) <= ArenaSize
         /\ ResidueBound(n, a) <= ArenaSize
<1> DEFINE ch == setup.channels
           F == max_floor + 7
           R == PtrBytes + max_bytes_01 + 14
           B == max_bytes_2
           b == Lesser(ch, 16)
<1>1. /\ ch \in Nat /\ PtrBytes \in Nat /\ F \in Nat /\ R \in Nat /\ B \in Nat
      /\ b \in Nat /\ n \in Nat /\ a \in Nat /\ n <= ch /\ a <= b
  <2>1. /\ ch \in Nat /\ PtrBytes \in Nat /\ max_floor \in Nat
        /\ max_bytes_01 \in Nat /\ B \in Nat
    BY SetupParts DEF Types
  <2>2. b \in Nat
    BY <2>1 DEF Lesser
  <2>3. n \in 0..ch /\ a \in 0..b
    OBVIOUS
  <2> HIDE DEF ch, b
  <2> QED
    BY <2>1, <2>2, <2>3
<1>2. BundleBound \in Nat
  <2>1. ch * PtrBytes \in Nat /\ ch * 4 \in Nat
    BY <1>1, TimesNat
  <2> QED
    BY <2>1 DEF BundleBound, IntBytes
<1>3. /\ ArenaSize = ResidueBound(ch, b) /\ ArenaSize \in Nat
  BY CapacityBound
<1>4. /\ FloorBound(n) = BundleBound + n * F
      /\ FloorBound(ch) = BundleBound + ch * F
      /\ ResidueBound(n, a) = BundleBound + ch * F + n * R + a * B
      /\ ResidueBound(ch, b) = BundleBound + ch * F + ch * R + b * B
  BY DEF FloorBound, ResidueBound
<1> HIDE DEF ch, F, R, B, b
<1>5. /\ n * F \in Nat /\ ch * F \in Nat /\ n * R \in Nat /\ ch * R \in Nat
      /\ a * B \in Nat /\ b * B \in Nat
  BY <1>1, TimesNat
<1>6. n * F <= ch * F /\ n * R <= ch * R /\ a * B <= b * B
  BY <1>1, TimesMonotone
<1>7. /\ FloorBound(n) \in Nat /\ ResidueBound(n, a) \in Nat
      /\ FloorBound(n) <= FloorBound(ch)
      /\ FloorBound(n) <= ArenaSize /\ ResidueBound(n, a) <= ArenaSize
  BY <1>2, <1>3, <1>4, <1>5, <1>6
<1> QED
  BY <1>2, <1>7 DEF ch

(* An allocation that fits is taken.                                       *)
LEMMA Fits ==
  ASSUME NEW bytes \in Nat, NEW from \in Nat, capacity \in Nat,
         from + bytes <= capacity, Allocate(bytes, from), ~null
  PROVE  used' = from + bytes /\ used' \in Nat /\ ~null' /\ null' \in BOOLEAN
<1>1. ~(from + bytes > capacity)
  OBVIOUS
<1>2. used' = from + bytes
  BY <1>1 DEF Allocate
<1>3. ~null' /\ null' \in BOOLEAN
  BY <1>1, Zenon DEF Allocate
<1> QED
  BY <1>2, <1>3

-----------------------------------------------------------------------------
(* The actions that measure.                                               *)

LEMMA MeasureFloorKeeps == ASSUME IInv, MeasureFloor PROVE IInv'
<1>1. pc = "floors" /\ i < setup.floors /\ i' = i + 1
      /\ max_floor' = Greater(max_floor, FloorSize(setup.floor_param[i + 1]))
  BY DEF MeasureFloor
<1>2. UNCHANGED <<setup, pc, max_bytes_01, max_bytes_2, capacity, used, null,
                  mode, nonzero>>
  BY DEF MeasureFloor
<1>3. /\ setup.floors \in Nat /\ i \in Nat /\ max_floor \in Nat
      /\ \A f \in 1..setup.floors : setup.floor_param[f] \in FloorType
  BY SetupParts DEF IInv, Types
<1>4. \A f \in 1..setup.floors : FloorSize(setup.floor_param[f]) \in Nat
  BY <1>3 DEF FloorType, FloorSize, VIF_POSIT, IntBytes
<1>5. max_floor' \in Nat /\ max_floor <= max_floor'
      /\ FloorSize(setup.floor_param[i + 1]) <= max_floor'
  BY <1>1, <1>3, <1>4 DEF Greater
<1>6. Types'
  BY <1>1, <1>2, <1>3, <1>5 DEF IInv, Types, Channels
<1>7. FloorsCovered(i)
  BY <1>1 DEF IInv, Measured
<1>8. FloorsCovered(i)'
  <2> SUFFICES ASSUME NEW f \in 1..setup.floors, f <= i + 1
               PROVE  FloorSize(setup.floor_param[f]) <= max_floor'
    BY <1>1, <1>2 DEF FloorsCovered
  <2>1. CASE f <= i
    BY <1>3, <1>4, <1>5, <1>7, <2>1 DEF FloorsCovered
  <2>2. CASE f = i + 1
    BY <1>5, <2>2
  <2> QED
    BY <1>3, <2>1, <2>2
<1>9. Measured'
  BY <1>1, <1>2, <1>8 DEF Measured
<1>10. Budget'
  BY <1>1, <1>2 DEF IInv, Budget
<1> QED
  BY <1>6, <1>9, <1>10 DEF IInv

LEMMA FloorsMeasuredKeeps == ASSUME IInv, FloorsMeasured PROVE IInv'
<1>1. /\ pc = "floors" /\ i = setup.floors /\ pc' = "residues" /\ i' = 0
      /\ UNCHANGED <<setup, max_floor, max_bytes_01, max_bytes_2, capacity, used,
                     null, mode, nonzero>>
  BY DEF FloorsMeasured, sizes
<1>2. Types'
  BY <1>1 DEF IInv, Types, Channels
<1>3. FloorsCovered(setup.floors)'
  BY <1>1 DEF IInv, Measured, FloorsCovered
<1>4. ResiduesCovered(i)'
  BY <1>1 DEF ResiduesCovered
<1>5. Measured'
  BY <1>1, <1>3, <1>4 DEF Measured
<1>6. Budget'
  BY <1>1 DEF IInv, Budget
<1> QED
  BY <1>2, <1>5, <1>6 DEF IInv

(* The bytes of a residue, as they are measured.                           *)
LEMMA CapsOfSetup ==
  ASSUME Types, NEW r \in ResidueType
  PROVE  /\ EndCap01(setup) \in Nat /\ EndCap2(setup) \in Nat
         /\ ClassBytes(r, EndCap01(setup)) \in Nat
         /\ ClassBytes(r, EndCap2(setup)) \in Nat
<1>1. setup.channels \in Nat /\ setup.blocksizes[1] \in Nat
  BY SetupParts
<1>2. setup.blocksizes[1] * setup.channels \in Nat
  BY <1>1, TimesNat
<1>3. EndCap01(setup) \in Nat /\ EndCap2(setup) \in Nat
  BY <1>1, <1>2, Quotient DEF EndCap01, EndCap2
<1> QED
  BY <1>3, ClassBytesMonotone

LEMMA MeasureResidueKeeps == ASSUME IInv, MeasureResidue PROVE IInv'
<1> DEFINE r == setup.residue_param[i + 1]
           b1(k) == ClassBytes(setup.residue_param[k], EndCap01(setup))
           b2(k) == ClassBytes(setup.residue_param[k], EndCap2(setup))
<1>1. /\ pc = "residues" /\ i < setup.residues /\ i' = i + 1
      /\ max_bytes_01' = Greater(max_bytes_01, b1(i + 1))
      /\ max_bytes_2' = Greater(max_bytes_2, b2(i + 1))
  BY DEF MeasureResidue
<1>2. UNCHANGED <<setup, pc, max_floor, capacity, used, null, mode, nonzero>>
  BY DEF MeasureResidue
<1>3. /\ setup.residues \in Nat /\ i \in Nat
      /\ max_bytes_01 \in Nat /\ max_bytes_2 \in Nat
      /\ \A k \in 1..setup.residues : setup.residue_param[k] \in ResidueType
  BY SetupParts DEF IInv, Types
<1>4. \A k \in 1..setup.residues : b1(k) \in Nat /\ b2(k) \in Nat
  BY <1>3, CapsOfSetup DEF IInv
<1>5. ResiduesCovered(i)
  BY <1>1 DEF IInv, Measured
<1>6. \A k \in 1..setup.residues :
        k <= i => b1(k) <= max_bytes_01 /\ b2(k) <= max_bytes_2
  BY <1>5 DEF ResiduesCovered
<1> HIDE DEF b1, b2
<1>7. /\ max_bytes_01' \in Nat /\ max_bytes_2' \in Nat
      /\ max_bytes_01 <= max_bytes_01' /\ max_bytes_2 <= max_bytes_2'
      /\ b1(i + 1) <= max_bytes_01' /\ b2(i + 1) <= max_bytes_2'
  BY <1>1, <1>3, <1>4 DEF Greater
<1>8. Types'
  BY <1>1, <1>2, <1>3, <1>7 DEF IInv, Types, Channels
<1>9. \A k \in 1..setup.residues :
        k <= i + 1 => b1(k) <= max_bytes_01' /\ b2(k) <= max_bytes_2'
  <2> SUFFICES ASSUME NEW k \in 1..setup.residues, k <= i + 1
               PROVE  b1(k) <= max_bytes_01' /\ b2(k) <= max_bytes_2'
    OBVIOUS
  <2>1. CASE k <= i
    BY <1>3, <1>4, <1>6, <1>7, <2>1
  <2>2. CASE k = i + 1
    BY <1>7, <2>2
  <2> QED
    BY <1>3, <2>1, <2>2
<1>10. ResiduesCovered(i)'
  BY <1>1, <1>2, <1>9 DEF ResiduesCovered, b1, b2
<1>11. FloorsCovered(setup.floors)'
  BY <1>1, <1>2 DEF IInv, Measured, FloorsCovered
<1>12. Measured'
  BY <1>1, <1>2, <1>10, <1>11 DEF Measured
<1>13. Budget'
  BY <1>1, <1>2 DEF IInv, Budget
<1> QED
  BY <1>8, <1>12, <1>13 DEF IInv

LEMMA BlockInitKeeps == ASSUME IInv, BlockInit PROVE IInv'
<1>1. /\ pc = "residues" /\ i = setup.residues /\ pc' = "ready" /\ i' = 0
      /\ capacity' = ArenaSize
      /\ UNCHANGED <<setup, max_floor, max_bytes_01, max_bytes_2, used, null,
                     mode, nonzero>>
  BY DEF BlockInit, sizes
<1>2. Types'
  BY <1>1, CapacityBound DEF IInv, Types, Channels
<1>3. ArenaSize' = ArenaSize
  BY <1>1 DEF ArenaSize, Slack, Res2Arrays
<1>4. FloorsCovered(setup.floors)' /\ ResiduesCovered(setup.residues)'
  BY <1>1 DEF IInv, Measured, FloorsCovered, ResiduesCovered
<1>5. Measured'
  BY <1>1, <1>3, <1>4 DEF Measured
<1>6. Budget'
  BY <1>1 DEF IInv, Budget
<1> QED
  BY <1>2, <1>5, <1>6 DEF IInv

-----------------------------------------------------------------------------
(* The actions of a packet.                                                *)

(* Nothing is measured again.                                              *)
LEMMA MeasuredStays ==
  ASSUME Measured, pc \notin {"floors", "residues"}, pc' \notin {"floors", "residues"},
         UNCHANGED <<setup, sizes, capacity>>
  PROVE  Measured' /\ capacity = ArenaSize
<1>1. UNCHANGED <<setup, max_floor, max_bytes_01, max_bytes_2, capacity>>
  BY DEF sizes
<1>2. /\ FloorsCovered(setup.floors) /\ ResiduesCovered(setup.residues)
      /\ capacity = ArenaSize
  BY DEF Measured
<1>3. ArenaSize' = ArenaSize
  BY <1>1 DEF ArenaSize, Slack, Res2Arrays
<1>4. FloorsCovered(setup.floors)' /\ ResiduesCovered(setup.residues)'
  BY <1>1, <1>2 DEF FloorsCovered, ResiduesCovered
<1> QED
  BY <1>1, <1>2, <1>3, <1>4 DEF Measured

(* What a packet changes is typed.                                         *)
LEMMA TypesStay ==
  ASSUME Types, UNCHANGED <<setup, max_floor, max_bytes_01, max_bytes_2, capacity>>,
         pc' \in {"ready", "decode floors", "couple", "decode residues"},
         i' \in Nat, used' \in Nat, null' \in BOOLEAN, mode' \in setup.modes,
         nonzero' \subseteq Channels
  PROVE  Types'
<1>1. /\ setup' \in Setups /\ mode' \in setup'.modes /\ nonzero' \subseteq Channels'
      /\ capacity' \in Nat
      /\ max_floor' \in Nat /\ max_bytes_01' \in Nat /\ max_bytes_2' \in Nat
  BY DEF Types, Channels
<1>2. pc' \in {"floors", "residues", "ready", "decode floors", "couple",
              "decode residues"}
  OBVIOUS
<1> QED
  BY <1>1, <1>2 DEF Types

LEMMA StartPacketKeeps == ASSUME IInv, StartPacket PROVE IInv'
<1>1. /\ pc = "ready" /\ pc' = "decode floors" /\ i' = 0 /\ nonzero' = {}
      /\ mode' \in setup.modes
      /\ Allocate(BundleBytes, 0)
      /\ UNCHANGED <<setup, max_floor, max_bytes_01, max_bytes_2, capacity>>
  BY DEF StartPacket, sizes, Ripcord
<1>2. Measured' /\ capacity = ArenaSize
  BY <1>1, MeasuredStays DEF IInv, sizes
<1> DEFINE ch == setup.channels
<1>3. ch \in Nat /\ PtrBytes \in Nat /\ capacity \in Nat /\ max_floor \in Nat
  BY SetupParts DEF IInv, Types
<1>4. BundleBytes \in Nat /\ BundleBytes <= BundleBound
  <2>1. ch * PtrBytes \in Nat /\ ch * 4 \in Nat
    BY <1>3, TimesNat
  <2>2. /\ Round(ch * PtrBytes) \in Nat /\ Round(ch * PtrBytes) <= ch * PtrBytes + 7
        /\ Round(ch * 4) \in Nat /\ Round(ch * 4) <= ch * 4 + 7
    BY <2>1, RoundBound
  <2>3. BundleBytes = Round(ch * PtrBytes) + Round(ch * 4) + Round(ch * 4)
                        + Round(ch * PtrBytes)
    BY DEF BundleBytes, IntBytes
  <2>4. BundleBound = ch * PtrBytes + ch * 4 + ch * 4 + ch * PtrBytes + 28
    BY DEF BundleBound, IntBytes
  <2> QED
    BY <2>1, <2>2, <2>3, <2>4
<1>5. /\ BundleBound \in Nat /\ FloorBound(0) = BundleBound
      /\ FloorBound(0) <= ArenaSize
  <2>1. 0 \in 0..setup.channels /\ 0 \in 0..Lesser(setup.channels, 16)
    BY <1>3 DEF Lesser
  <2>2. BundleBound \in Nat /\ FloorBound(0) <= ArenaSize
    BY <2>1, Bounds DEF IInv
  <2>3. FloorBound(0) = BundleBound + 0 * (max_floor + 7)
    BY DEF FloorBound
  <2> QED
    BY <1>3, <2>2, <2>3
<1>6. 0 + BundleBytes <= capacity /\ ~null
  <2>1. ArenaSize \in Nat
    BY CapacityBound DEF IInv
  <2>2. ~null
    BY DEF IInv, Budget
  <2> QED
    BY <1>2, <1>4, <1>5, <2>1, <2>2
<1>7. used' = BundleBytes /\ used' \in Nat /\ ~null' /\ null' \in BOOLEAN
  <2>1. used' = 0 + BundleBytes /\ ~null' /\ null' \in BOOLEAN
    BY <1>1, <1>3, <1>4, <1>6, Fits
  <2> QED
    BY <1>4, <2>1
<1>8. Types'
  BY <1>1, <1>7, TypesStay DEF IInv
<1>9. FloorBound(i)' = FloorBound(0)
  BY <1>1 DEF FloorBound, BundleBound
<1>10. i' <= setup.channels'
  <2>1. i' = 0 /\ setup' = setup
    BY <1>1
  <2>2. 0 <= setup.channels
    BY <1>3
  <2> QED
    BY <2>1, <2>2
<1>11. used' <= FloorBound(i)'
  BY <1>4, <1>5, <1>7, <1>9
<1>12. Budget'
  BY <1>1, <1>7, <1>10, <1>11, Zenon DEF Budget
<1> QED
  BY <1>2, <1>8, <1>12 DEF IInv

(* The bound of one more floor.                                            *)
LEMMA OneMoreFloor ==
  ASSUME Types, i + 1 <= setup.channels
  PROVE  /\ FloorBound(i) \in Nat /\ FloorBound(i + 1) <= ArenaSize
         /\ FloorBound(i + 1) = FloorBound(i) + max_floor + 7
<1>1. i \in Nat /\ setup.channels \in Nat /\ max_floor \in Nat
  BY SetupParts DEF Types
<1>2. /\ i \in 0..setup.channels /\ i + 1 \in 0..setup.channels
      /\ 0 \in 0..Lesser(setup.channels, 16)
  BY <1>1 DEF Lesser
<1>3. /\ BundleBound \in Nat /\ FloorBound(i) \in Nat /\ FloorBound(i + 1) <= ArenaSize
  BY <1>2, Bounds
<1>4. /\ FloorBound(i) = BundleBound + i * (max_floor + 7)
      /\ FloorBound(i + 1) = BundleBound + (i + 1) * (max_floor + 7)
  BY DEF FloorBound
<1>5. (i + 1) * (max_floor + 7) = i * (max_floor + 7) + max_floor + 7
  BY <1>1
<1>6. i * (max_floor + 7) \in Nat
  BY <1>1, TimesNat
<1> QED
  BY <1>1, <1>3, <1>4, <1>5, <1>6

LEMMA FloorUnusedKeeps == ASSUME IInv, FloorUnused PROVE IInv'
<1>1. /\ pc = "decode floors" /\ i < setup.channels /\ i' = i + 1 /\ pc' = pc
      /\ UNCHANGED <<setup, max_floor, max_bytes_01, max_bytes_2, capacity, used,
                     null, mode, nonzero>>
  BY DEF FloorUnused, sizes
<1>2. Measured'
  BY <1>1, MeasuredStays DEF IInv, sizes
<1>3. /\ i \in Nat /\ setup.channels \in Nat /\ used \in Nat /\ max_floor \in Nat
      /\ i + 1 <= setup.channels /\ i + 1 \in Nat
  <2>1. /\ i \in Nat /\ setup.channels \in Nat /\ used \in Nat /\ max_floor \in Nat
    BY SetupParts DEF IInv, Types
  <2>2. i < setup.channels
    BY <1>1
  <2> HIDE DEF IInv
  <2> QED
    BY <2>1, <2>2
<1>4. Types'
  <2>1. used' \in Nat /\ null' \in BOOLEAN /\ mode' \in setup.modes
        /\ nonzero' \subseteq Channels
    BY <1>1 DEF IInv, Types
  <2>2. i' \in Nat /\ pc' = "decode floors"
    BY <1>1, <1>3
  <2> QED
    BY <1>1, <2>1, <2>2, TypesStay DEF IInv
<1>5. /\ FloorBound(i) \in Nat
      /\ FloorBound(i + 1) = FloorBound(i) + max_floor + 7
  BY <1>3, OneMoreFloor DEF IInv
<1>6. used <= FloorBound(i)
  BY <1>1 DEF IInv, Budget
<1>7. used <= FloorBound(i + 1)
  BY <1>3, <1>5, <1>6
<1>8. FloorBound(i)' = FloorBound(i + 1)
  BY <1>1 DEF FloorBound, BundleBound
<1>9. i' <= setup.channels' /\ used' <= FloorBound(i)' /\ ~null'
      /\ pc' = "decode floors"
  BY <1>1, <1>3, <1>7, <1>8 DEF IInv, Budget
<1>10. Budget'
  BY <1>9, Zenon DEF Budget
<1> QED
  BY <1>2, <1>4, <1>10 DEF IInv

LEMMA FloorUsedKeeps == ASSUME IInv, FloorUsed PROVE IInv'
<1> DEFINE f == mode.floorsubmap[mode.chmuxlist[i]]
           bytes == FloorBytes(FloorOf(i))
<1>1. /\ pc = "decode floors" /\ i < setup.channels /\ i' = i + 1 /\ pc' = pc
      /\ Allocate(bytes, used) /\ nonzero' \in {nonzero, nonzero \cup {i}}
      /\ UNCHANGED <<setup, max_floor, max_bytes_01, max_bytes_2, capacity, mode>>
  BY DEF FloorUsed, sizes
<1>2. Measured' /\ capacity = ArenaSize
  BY <1>1, MeasuredStays DEF IInv, sizes
<1>3. /\ i \in Nat /\ setup.channels \in Nat /\ used \in Nat /\ max_floor \in Nat
      /\ i + 1 <= setup.channels /\ i + 1 \in Nat /\ capacity \in Nat
      /\ i \in Channels
  <2>1. /\ i \in Nat /\ setup.channels \in Nat /\ used \in Nat /\ max_floor \in Nat
        /\ capacity \in Nat
    BY SetupParts DEF IInv, Types
  <2>2. i < setup.channels
    BY <1>1
  <2>3. i \in 0..(setup.channels - 1) /\ i + 1 <= setup.channels /\ i + 1 \in Nat
    BY <2>1, <2>2
  <2> QED
    BY <2>1, <2>3 DEF Channels, ChannelsOf
<1>4. f \in 1..setup.floors
  <2>1. ModeOK(setup, mode)
    BY SetupParts DEF IInv
  <2> QED
    BY <1>3, <2>1 DEF ModeOK, Channels
<1>5. bytes \in Nat /\ bytes <= max_floor + 7
  <2> DEFINE g == setup.floor_param[f]
             raw == (IF g.type = 1 THEN g.size ELSE g.size + 1) * 4
  <2>1. g \in FloorType /\ (g.type = 1 => g.size <= 65)
    BY <1>4, SetupParts DEF IInv, SetupOK, VIF_POSIT
  <2>2. g.size \in Nat
    BY <2>1 DEF FloorType
  <2>3. FloorSize(g) <= max_floor
    <3>1. FloorsCovered(setup.floors)
      BY <1>1 DEF IInv, Measured
    <3>2. setup.floors \in Nat
      BY SetupParts DEF IInv
    <3>3. f <= setup.floors
      BY <1>4, <3>2
    <3> QED
      BY <1>4, <3>1, <3>3 DEF FloorsCovered
  <2>4. raw \in Nat /\ raw <= FloorSize(g)
    BY <2>1, <2>2 DEF FloorSize, VIF_POSIT, IntBytes
  <2>5. FloorSize(g) \in Nat
    BY <2>2 DEF FloorSize, VIF_POSIT, IntBytes
  <2>6. bytes = Round(raw)
    BY DEF FloorBytes, FloorOf, IntBytes
  <2> HIDE DEF raw, g
  <2> QED
    BY <1>3, <2>3, <2>4, <2>5, <2>6, RoundBound
<1> HIDE DEF bytes, f
<1>6. /\ FloorBound(i) \in Nat /\ FloorBound(i + 1) <= ArenaSize
      /\ FloorBound(i + 1) = FloorBound(i) + max_floor + 7
  BY <1>3, OneMoreFloor DEF IInv
<1>7. used <= FloorBound(i) /\ ~null
  BY <1>1 DEF IInv, Budget
<1>8. used + bytes <= FloorBound(i + 1) /\ used + bytes <= capacity
  BY <1>2, <1>3, <1>5, <1>6, <1>7
<1>9. used' = used + bytes /\ used' \in Nat /\ ~null' /\ null' \in BOOLEAN
  BY <1>1, <1>3, <1>5, <1>7, <1>8, Fits
<1>10. Types'
  <2>1. mode' \in setup.modes /\ nonzero' \subseteq Channels
    BY <1>1, <1>3 DEF IInv, Types
  <2>2. i' \in Nat /\ pc' = "decode floors"
    BY <1>1, <1>3
  <2> QED
    BY <1>1, <1>9, <2>1, <2>2, TypesStay DEF IInv
<1>11. FloorBound(i)' = FloorBound(i + 1)
  BY <1>1 DEF FloorBound, BundleBound
<1>12. i' <= setup.channels' /\ used' <= FloorBound(i)' /\ pc' = "decode floors"
  BY <1>1, <1>3, <1>8, <1>9, <1>11
<1>13. Budget'
  BY <1>9, <1>12, Zenon DEF Budget
<1> QED
  BY <1>2, <1>10, <1>13 DEF IInv

LEMMA FloorsDecodedKeeps == ASSUME IInv, FloorsDecoded PROVE IInv'
<1>1. /\ pc = "decode floors" /\ i = setup.channels /\ pc' = "couple" /\ i' = 0
      /\ UNCHANGED <<setup, max_floor, max_bytes_01, max_bytes_2, capacity, used,
                     null, mode, nonzero>>
  BY DEF FloorsDecoded, sizes
<1>2. Measured'
  BY <1>1, MeasuredStays DEF IInv, sizes
<1>3. Types'
  BY <1>1 DEF IInv, Types, Channels
<1>4. FloorBound(setup.channels)' = FloorBound(setup.channels)
  BY <1>1 DEF FloorBound, BundleBound
<1>5. Budget'
  BY <1>1, <1>4 DEF IInv, Budget
<1> QED
  BY <1>2, <1>3, <1>5 DEF IInv

LEMMA CoupleKeeps == ASSUME IInv, Couple PROVE IInv'
<1> DEFINE pair == {mode.coupling_mag[i + 1], mode.coupling_ang[i + 1]}
<1>1. /\ pc = "couple" /\ i < mode.couples /\ pc' = pc /\ i' = i + 1
      /\ nonzero' = IF pair \cap nonzero # {} THEN nonzero \cup pair ELSE nonzero
      /\ UNCHANGED <<setup, max_floor, max_bytes_01, max_bytes_2, capacity, used,
                     null, mode>>
  BY DEF Couple, sizes
<1>2. Measured'
  BY <1>1, MeasuredStays DEF IInv, sizes
<1>3. pair \subseteq Channels
  <2>1. ModeOK(setup, mode) /\ i \in Nat
    BY SetupParts DEF IInv, Types
  <2>2. i + 1 \in 1..mode.couples
    BY <1>1, <2>1 DEF ModeOK
  <2> QED
    BY <2>1, <2>2 DEF ModeOK, Channels
<1>4. Types'
  BY <1>1, <1>3 DEF IInv, Types, Channels
<1>5. FloorBound(setup.channels)' = FloorBound(setup.channels)
  BY <1>1 DEF FloorBound, BundleBound
<1>6. Budget'
  BY <1>1, <1>5 DEF IInv, Budget
<1> QED
  BY <1>2, <1>4, <1>6 DEF IInv

(* The channels of submap i are served once it is through.                 *)
LEMMA OneMoreSubmap ==
  ASSUME Types, i < mode.submaps
  PROVE  LET b == Bundle(mode, i)
         IN  /\ i \in Nat /\ i + 1 <= 16 /\ i + 1 <= mode.submaps
             /\ IsFiniteSet(b) /\ Cardinality(b) \in Nat
             /\ Served(i) \in Nat /\ Served(i + 1) = Served(i) + Cardinality(b)
             /\ Served(i + 1) <= setup.channels
<1> DEFINE b == {c \in ChannelsOf(setup) : mode.chmuxlist[c] = i}
<1>1. /\ SetupOK(setup) /\ ModeOK(setup, mode) /\ mode.submaps \in 1..16 /\ i \in Nat
  BY SetupParts DEF Types
<1>2. i \in 0..(mode.submaps - 1) /\ i + 1 <= 16 /\ i + 1 <= mode.submaps
  BY <1>1
<1>3. /\ IsFiniteSet(b) /\ Cardinality(b) \in Nat
      /\ Cardinality(Before(setup, mode, i)) \in Nat
      /\ Cardinality(Before(setup, mode, i + 1))
           = Cardinality(Before(setup, mode, i)) + Cardinality(b)
      /\ Cardinality(Before(setup, mode, i + 1)) <= setup.channels
  BY <1>1, <1>2, SubmapsPartition
<1>4. Bundle(mode, i) = b
  BY DEF Bundle, Channels
<1> HIDE DEF b
<1> QED
  BY <1>1, <1>2, <1>3, <1>4 DEF Served

(* The bound of one more residue: the channels it serves, and an array of  *)
(* type 2 when it serves any.                                              *)
Used(k) == ResidueBound(Served(k), Lesser(Served(k), k))

LEMMA OneMoreResidue ==
  ASSUME Types, i < mode.submaps
  PROVE  LET n == Cardinality(Bundle(mode, i))
         IN  /\ Used(i) \in Nat /\ Used(i + 1) \in Nat /\ Used(i + 1) <= ArenaSize
             /\ Used(i) + n * (PtrBytes + max_bytes_01 + 14) <= Used(i + 1)
             /\ n > 0 => Used(i) + n * (PtrBytes + max_bytes_01 + 14) + max_bytes_2
                           <= Used(i + 1)
<1> DEFINE n == Cardinality(Bundle(mode, i))
           R == PtrBytes + max_bytes_01 + 14
           B == max_bytes_2
           S == Served(i)   T == Served(i + 1)
           a == Lesser(S, i)   c == Lesser(T, i + 1)
<1>1. /\ i \in Nat /\ i + 1 <= 16 /\ n \in Nat /\ S \in Nat /\ T = S + n
      /\ T <= setup.channels
  BY OneMoreSubmap
<1>2. /\ setup.channels \in Nat /\ R \in Nat /\ B \in Nat
  <2>1. PtrBytes \in Nat /\ max_bytes_01 \in Nat /\ max_bytes_2 \in Nat
    BY SetupParts DEF Types
  <2>2. setup.channels \in Nat
    BY SetupParts
  <2> QED
    BY <2>1, <2>2
<1> HIDE DEF n, R, B, S, T
<1>3. /\ S \in 0..setup.channels /\ T \in 0..setup.channels
      /\ a \in 0..Lesser(setup.channels, 16) /\ c \in 0..Lesser(setup.channels, 16)
      /\ a <= c
      /\ n > 0 => a + 1 <= c
  BY <1>1, <1>2 DEF Lesser
<1>4. /\ a \in Nat /\ c \in Nat
  BY <1>1, <1>3 DEF Lesser
<1> HIDE DEF a, c
<1>5. /\ ResidueBound(S, a) \in Nat /\ ResidueBound(T, c) \in Nat
      /\ ResidueBound(T, c) <= ArenaSize /\ FloorBound(setup.channels) \in Nat
  <2>1. setup.channels \in 0..setup.channels
    BY <1>2
  <2> QED
    BY <1>3, <2>1, Bounds
<1>6. /\ ResidueBound(S, a) = FloorBound(setup.channels) + S * R + a * B
      /\ ResidueBound(T, c) = FloorBound(setup.channels) + T * R + c * B
  BY DEF ResidueBound, R, B
<1>7. T * R = S * R + n * R
  BY <1>1, <1>2
<1>8. ASSUME n > 0 PROVE (a + 1) * B <= c * B
  <2>1. a + 1 \in Nat /\ a + 1 <= c
    BY <1>3, <1>4, <1>8
  <2> QED
    BY <1>2, <1>4, <2>1, TimesMonotone
<1>9. (a + 1) * B = a * B + B
  BY <1>2, <1>4
<1>10. /\ S * R \in Nat /\ n * R \in Nat /\ a * B \in Nat /\ c * B \in Nat
  BY <1>1, <1>2, <1>4, TimesNat
<1>11. a * B <= c * B
  BY <1>2, <1>3, <1>4, TimesMonotone
<1>12. ResidueBound(S, a) + n * R <= ResidueBound(T, c)
  BY <1>2, <1>5, <1>6, <1>7, <1>10, <1>11
<1>13. n > 0 => ResidueBound(S, a) + n * R + B <= ResidueBound(T, c)
  BY <1>2, <1>5, <1>6, <1>7, <1>8, <1>9, <1>10
<1> QED
  BY <1>5, <1>12, <1>13 DEF Used, n, R, B, S, T, a, c

(* A residue of this mode, and what is set aside for it.                   *)
LEMMA ResidueMeasured ==
  ASSUME Types, Measured, pc = "decode residues", i < mode.submaps
  PROVE  LET r == ResidueOf(i)
         IN  /\ r \in ResidueType
             /\ ClassBytes(r, EndCap01(setup)) <= max_bytes_01
             /\ ClassBytes(r, EndCap2(setup)) <= max_bytes_2
<1> DEFINE k == mode.residuesubmap[i]
<1>1. ModeOK(setup, mode) /\ mode.submaps \in 1..16 /\ i \in Nat
      /\ setup.residues \in Nat
  BY SetupParts DEF Types
<1>2. i \in 0..(mode.submaps - 1)
  <2>1. mode.submaps \in 1..16 /\ i \in Nat
    BY <1>1
  <2> QED
    BY <2>1, Below
<1>3. k \in 1..setup.residues
  BY <1>1, <1>2 DEF ModeOK
<1> HIDE DEF k
<1>4. k <= setup.residues
  <2>1. setup.residues \in Nat
    BY <1>1
  <2> QED
    BY <1>3, <2>1, AtMost
<1>5. ResiduesCovered(setup.residues)
  BY DEF Measured
<1>6. setup.residue_param[k] \in ResidueType
  BY <1>3, SetupParts
<1> QED
  BY <1>3, <1>4, <1>5, <1>6 DEF ResiduesCovered, ResidueOf, k

LEMMA CoupledKeeps == ASSUME IInv, Coupled PROVE IInv'
<1>1. /\ pc = "couple" /\ i = mode.couples /\ pc' = "decode residues" /\ i' = 0
      /\ UNCHANGED <<setup, max_floor, max_bytes_01, max_bytes_2, capacity, used,
                     null, mode, nonzero>>
  BY DEF Coupled, sizes
<1>2. Measured'
  BY <1>1, MeasuredStays DEF IInv, sizes
<1>3. Types'
  BY <1>1 DEF IInv, Types, Channels
<1>4. Served(0) = 0
  <2>1. mode.submaps \in 1..16
        /\ \A c \in ChannelsOf(setup) : mode.chmuxlist[c] \in 0..(mode.submaps - 1)
    BY SetupParts DEF IInv, ModeOK
  <2>2. \A c \in ChannelsOf(setup) : ~(mode.chmuxlist[c] < 0)
    BY <2>1
  <2>3. Before(setup, mode, 0) = {}
    BY <2>2 DEF Before
  <2> QED
    BY <2>3, FS_EmptySet, Zenon DEF Served
<1>5. used <= Used(0)
  <2>1. /\ PtrBytes + max_bytes_01 + 14 \in Nat /\ max_bytes_2 \in Nat
        /\ setup.channels \in Nat
    <3>1. PtrBytes \in Nat /\ max_bytes_01 \in Nat /\ max_bytes_2 \in Nat
      BY SetupParts DEF IInv, Types
    <3>2. setup.channels \in Nat
      BY SetupParts DEF IInv
    <3> QED
      BY <3>1, <3>2
  <2>2. /\ setup.channels \in 0..setup.channels
        /\ 0 \in 0..Lesser(setup.channels, 16)
    BY <2>1 DEF Lesser
  <2>3. FloorBound(setup.channels) \in Nat
    BY <2>2, Bounds DEF IInv
  <2>4. Used(0) = FloorBound(setup.channels)
                    + 0 * (PtrBytes + max_bytes_01 + 14) + 0 * max_bytes_2
    BY <1>4 DEF Used, ResidueBound, Lesser
  <2>5. used <= FloorBound(setup.channels)
    BY <1>1 DEF IInv, Budget
  <2> QED
    BY <2>1, <2>3, <2>4, <2>5
<1>6. Used(i)' = Used(0)
  BY <1>1 DEF Used, Served, Before, ResidueBound, FloorBound, BundleBound
<1>7. i' <= mode'.submaps
  <2>1. mode.submaps \in 1..16
    BY SetupParts DEF IInv
  <2>2. 0 <= mode.submaps
    BY <2>1
  <2>3. i' = 0 /\ mode' = mode
    BY <1>1
  <2> QED
    BY <2>2, <2>3
<1>8. used' <= Used(i)' /\ ~null'
  BY <1>1, <1>5, <1>6 DEF IInv, Budget
<1>9. Budget'
  BY <1>1, <1>7, <1>8, Zenon DEF Budget, Used
<1> QED
  BY <1>2, <1>3, <1>9 DEF IInv

LEMMA ResidueFits ==
  ASSUME Types, i < mode.submaps, NEW bytes \in Nat, used <= Used(i),
         capacity = ArenaSize, Used(i) + bytes <= Used(i + 1)
  PROVE  used + bytes <= Used(i + 1) /\ used + bytes <= capacity /\ used <= Used(i + 1)
<1> DEFINE u == Used(i)
           v == Used(i + 1)
<1>1. u \in Nat /\ v \in Nat /\ v <= ArenaSize
  BY OneMoreResidue
<1>2. used \in Nat /\ capacity \in Nat
  BY DEF Types
<1>3. v <= capacity
  BY <1>1
<1>4. u + bytes <= v /\ used <= u
  OBVIOUS
<1> HIDE DEF u, v
<1>5. used + bytes <= v /\ used + bytes <= capacity /\ used <= v
  BY <1>1, <1>2, <1>3, <1>4, NextBound
<1> QED
  BY <1>5 DEF v

(* What both kinds of residue have in common: it takes so many bytes, or   *)
(* none, and those fit.                                                    *)
LEMMA ResidueKeeps ==
  ASSUME IInv, pc = "decode residues", i < mode.submaps, NEW bytes \in Nat,
         i' = i + 1, pc' = pc,
         UNCHANGED <<setup, max_floor, max_bytes_01, max_bytes_2, capacity, mode,
                     nonzero>>,
         Used(i) + bytes <= Used(i + 1),
         Allocate(bytes, used) \/ UNCHANGED <<used, null>>
  PROVE  IInv'
<1>1. Measured' /\ capacity = ArenaSize
  BY MeasuredStays DEF IInv, sizes
<1>2. /\ i \in Nat /\ i + 1 <= mode.submaps /\ i + 1 \in Nat
  <2>1. i \in Nat /\ mode.submaps \in 1..16
    BY OneMoreSubmap, SetupParts DEF IInv
  <2> QED
    BY <2>1, Below
<1>3. used <= Used(i) /\ ~null /\ used \in Nat /\ null \in BOOLEAN /\ capacity \in Nat
  BY DEF IInv, Budget, Types, Used
<1>4. Used(i) \in Nat /\ Used(i + 1) \in Nat /\ Used(i + 1) <= ArenaSize
  BY OneMoreResidue DEF IInv
<1>5. used + bytes <= Used(i + 1) /\ used + bytes <= capacity /\ used <= Used(i + 1)
  BY <1>1, <1>3, ResidueFits DEF IInv
<1>6. used' \in Nat /\ used' <= Used(i + 1) /\ ~null' /\ null' \in BOOLEAN
  <2>1. CASE Allocate(bytes, used)
    BY <1>3, <1>5, <2>1, Fits
  <2>2. CASE UNCHANGED <<used, null>>
    BY <1>3, <1>5, <2>2
  <2> QED
    BY <2>1, <2>2
<1>7. Types'
  <2>1. mode' \in setup.modes /\ nonzero' \subseteq Channels
    BY DEF IInv, Types
  <2>2. i' \in Nat /\ pc' = "decode residues"
    BY <1>2
  <2> QED
    BY <1>6, <2>1, <2>2, TypesStay DEF IInv
<1>8. Used(i)' = Used(i + 1)
  BY DEF Used, Served, Before, ResidueBound, FloorBound, BundleBound
<1>9. i' <= mode'.submaps /\ pc' = "decode residues"
  BY <1>2
<1>10. used' <= Used(i)'
  BY <1>6, <1>8
<1>11. Budget'
  BY <1>6, <1>9, <1>10, Zenon DEF Budget, Used
<1> QED
  BY <1>1, <1>7, <1>11 DEF IInv

LEMMA PacketDoneKeeps == ASSUME IInv, PacketDone PROVE IInv'
<1>1. /\ pc = "decode residues" /\ pc' = "ready" /\ i' = 0
      /\ UNCHANGED <<setup, max_floor, max_bytes_01, max_bytes_2, capacity, used,
                     null, mode, nonzero>>
  BY DEF PacketDone, sizes
<1>2. Measured'
  BY <1>1, MeasuredStays DEF IInv, sizes
<1>3. Types'
  BY <1>1 DEF IInv, Types, Channels
<1>4. Budget'
  BY <1>1 DEF IInv, Budget
<1> QED
  BY <1>2, <1>3, <1>4 DEF IInv

(* What res0_inverse and res1_inverse take for n channels.                 *)
LEMMA Bytes01Bound ==
  ASSUME NEW n \in Nat, n >= 1, NEW P \in Nat, NEW cb \in Nat, NEW M \in Nat, cb <= M
  PROVE  /\ Round(n * P) + n * Round(cb) \in Nat
         /\ Round(n * P) + n * Round(cb) <= n * (P + M + 14)
<1>1. n * P \in Nat /\ n * M \in Nat
  BY TimesNat
<1> DEFINE a == Round(n * P)
           b == Round(cb)
<1>2. a \in Nat /\ a <= n * P + 7 /\ b \in Nat /\ b <= cb + 7
  BY <1>1, RoundBound
<1> HIDE DEF a, b
<1>3. n * b \in Nat /\ n * b <= n * (M + 7)
  <2>1. b <= M + 7 /\ M + 7 \in Nat
    BY <1>2
  <2> QED
    BY <1>2, <2>1, TimesNat, TimesMonotone
<1>4. n * (M + 7) = n * M + 7 * n /\ n * (P + M + 14) = n * P + n * M + 14 * n
  OBVIOUS
<1>5. a + n * b \in Nat /\ a + n * b <= n * (P + M + 14)
  BY <1>1, <1>2, <1>3, <1>4
<1> QED
  BY <1>5 DEF a, b

LEMMA Residue01Keeps == ASSUME IInv, Residue01 PROVE IInv'
<1> DEFINE r == ResidueOf(i)
           cap == pcmend \div 2
           coded == Bundle(mode, i) \cap nonzero
           n == Cardinality(coded)
           m == Cardinality(Bundle(mode, i))
           R == PtrBytes + max_bytes_01 + 14
           cb == ClassBytes(r, cap)
           bytes == Round(n * PtrBytes) + n * Round(cb)
           served == Used(i)
           next == Used(i + 1)
<1>1. /\ pc = "decode residues" /\ i < mode.submaps /\ i' = i + 1 /\ pc' = pc
      /\ UNCHANGED <<setup, max_floor, max_bytes_01, max_bytes_2, capacity, mode,
                     nonzero>>
      /\ \/ UNCHANGED <<used, null>>
         \/ coded # {} /\ Allocate(bytes, used)
  BY DEF Residue01, sizes
<1>2. /\ served \in Nat /\ next \in Nat /\ served + m * R <= next
  BY <1>1, OneMoreResidue DEF IInv
<1>3. IsFiniteSet(Bundle(mode, i)) /\ m \in Nat
  BY <1>1, OneMoreSubmap DEF IInv
<1>4. PtrBytes \in Nat /\ max_bytes_01 \in Nat
  BY SetupParts DEF IInv, Types
<1>5. R \in Nat
  BY <1>4
<1>6. m * R \in Nat
  BY <1>3, <1>5, TimesNat
<1> HIDE DEF IInv, m, R, bytes, served, next
<1>7. CASE UNCHANGED <<used, null>>
  <2> DEFINE zero == 0
  <2>1. zero \in Nat /\ served + zero <= next
    BY <1>2, <1>6
  <2> HIDE DEF zero
  <2> QED
    BY <1>1, <1>7, <2>1, ResidueKeeps DEF served, next
<1>8. CASE coded # {} /\ Allocate(bytes, used)
  <2>1. n \in Nat /\ n >= 1 /\ n <= m
    <3>1. IsFiniteSet(coded) /\ n <= m
      BY <1>3, FS_Subset DEF m
    <3>2. n \in Nat /\ n # 0
      BY <1>8, <3>1, FS_CardinalityType, FS_EmptySet
    <3> QED
      BY <3>1, <3>2
  <2>2. cb \in Nat /\ cb <= max_bytes_01
    <3>1. /\ r \in ResidueType /\ ClassBytes(r, EndCap01(setup)) <= max_bytes_01
      BY <1>1, ResidueMeasured DEF IInv
    <3>2. /\ pcmend \in Nat /\ setup.blocksizes[1] \in Nat
          /\ pcmend <= setup.blocksizes[1]
      BY SetupParts DEF IInv
    <3>3. cap \in Nat /\ EndCap01(setup) \in Nat /\ cap <= EndCap01(setup)
      BY <3>2, Quotient, QuotientMonotone DEF EndCap01
    <3>4. cb \in Nat /\ ClassBytes(r, EndCap01(setup)) \in Nat
          /\ cb <= ClassBytes(r, EndCap01(setup))
      BY <3>1, <3>3, ClassBytesMonotone
    <3> HIDE DEF cb, r
    <3> QED
      BY <1>4, <3>1, <3>4
  <2> HIDE DEF n, cb
  <2>3. bytes \in Nat /\ bytes <= n * R
    BY <1>4, <2>1, <2>2, Bytes01Bound DEF bytes, R
  <2>4. n * R \in Nat /\ n * R <= m * R
    BY <1>3, <1>5, <2>1, TimesNat, TimesMonotone
  <2>5. served + bytes <= next
    BY <1>2, <1>6, <2>3, <2>4
  <2> QED
    BY <1>1, <1>8, <2>3, <2>5, ResidueKeeps DEF served, next
<1> QED
  BY <1>1, <1>7, <1>8

LEMMA Residue2Keeps == ASSUME IInv, Residue2 PROVE IInv'
<1> DEFINE r == ResidueOf(i)
           m == Cardinality(Bundle(mode, i))
           cap == (pcmend * m) \div 2
           R == PtrBytes + max_bytes_01 + 14
           cb == ClassBytes(r, cap)
           bytes == Round(cb)
           served == Used(i)
           next == Used(i + 1)
<1>1. /\ pc = "decode residues" /\ i < mode.submaps /\ i' = i + 1 /\ pc' = pc
      /\ UNCHANGED <<setup, max_floor, max_bytes_01, max_bytes_2, capacity, mode,
                     nonzero>>
      /\ \/ UNCHANGED <<used, null>>
         \/ ~(Lesser(r.end, cap) <= r.begin) /\ Allocate(bytes, used)
  BY DEF Residue2, sizes
<1>2. /\ served \in Nat /\ next \in Nat /\ served + m * R <= next
      /\ m > 0 => served + m * R + max_bytes_2 <= next
  BY <1>1, OneMoreResidue DEF IInv
<1>3. IsFiniteSet(Bundle(mode, i)) /\ m \in Nat /\ m <= setup.channels
  <2> DEFINE S == Served(i)
             T == Served(i + 1)
  <2>1. /\ IsFiniteSet(Bundle(mode, i)) /\ m \in Nat
        /\ S \in Nat /\ T = S + m /\ T <= setup.channels
    BY <1>1, OneMoreSubmap DEF IInv
  <2>2. setup.channels \in Nat
    BY SetupParts DEF IInv
  <2> HIDE DEF S, T, m
  <2> QED
    BY <2>1, <2>2
<1>4. PtrBytes \in Nat /\ max_bytes_01 \in Nat /\ max_bytes_2 \in Nat
  BY SetupParts DEF IInv, Types
<1>5. R \in Nat /\ R >= 7
  BY <1>4
<1>6. m * R \in Nat
  BY <1>3, <1>5, TimesNat
<1>7. /\ pcmend \in Nat /\ setup.blocksizes[1] \in Nat /\ setup.channels \in Nat
      /\ pcmend <= setup.blocksizes[1]
  BY SetupParts DEF IInv
<1>8. r \in ResidueType /\ ClassBytes(r, EndCap2(setup)) <= max_bytes_2
  BY <1>1, ResidueMeasured DEF IInv
<1> HIDE DEF IInv, m, R, bytes, served, next, r
<1>9. CASE UNCHANGED <<used, null>>
  <2> DEFINE zero == 0
  <2>1. zero \in Nat /\ served + zero <= next
    BY <1>2, <1>6
  <2> HIDE DEF zero
  <2> QED
    BY <1>1, <1>9, <2>1, ResidueKeeps DEF served, next
<1>10. CASE ~(Lesser(r.end, cap) <= r.begin) /\ Allocate(bytes, used)
  <2>1. m > 0
    <3>1. ASSUME m = 0 PROVE FALSE
      <4>1. pcmend * m = 0
        BY <1>7, <3>1
      <4>2. cap = 0
        BY <4>1
      <4>3. r.end \in Nat /\ r.begin \in Nat
        BY <1>8 DEF ResidueType
      <4> QED
        BY <1>10, <4>2, <4>3 DEF Lesser
    <3> QED
      BY <1>3, <3>1
  <2>2. cap \in Nat /\ EndCap2(setup) \in Nat /\ cap <= EndCap2(setup)
    <3> DEFINE small == pcmend * m
               large == setup.blocksizes[1] * setup.channels
               mid == setup.blocksizes[1] * m
    <3>1. small \in Nat /\ large \in Nat /\ mid \in Nat
      BY <1>3, <1>7, TimesNat
    <3>2. small <= mid /\ mid <= large
      BY <1>3, <1>7, TimesMonotone
    <3> HIDE DEF small, large, mid
    <3>3. small <= large
      BY <3>1, <3>2
    <3>4. small \div 2 \in Nat /\ large \div 2 \in Nat /\ small \div 2 <= large \div 2
      BY <3>1, <3>3, Quotient, QuotientMonotone
    <3> QED
      BY <3>4 DEF EndCap2, small, large
  <2>3. cb \in Nat /\ ClassBytes(r, EndCap2(setup)) \in Nat
        /\ cb <= ClassBytes(r, EndCap2(setup))
    BY <1>8, <2>2, ClassBytesMonotone
  <2> HIDE DEF cb
  <2>4. cb <= max_bytes_2
    BY <1>4, <1>8, <2>3
  <2>5. bytes \in Nat /\ bytes <= max_bytes_2 + 7
    BY <1>4, <2>3, <2>4, RoundBound DEF bytes
  <2>6. m * R >= R
    <3>1. 1 * R <= m * R
      BY <1>3, <1>5, <2>1, TimesMonotone
    <3> QED
      BY <1>5, <1>6, <3>1
  <2>7. served + bytes <= next
    BY <1>2, <1>4, <1>5, <1>6, <2>1, <2>5, <2>6
  <2> QED
    BY <1>1, <1>10, <2>5, <2>7, ResidueKeeps DEF served, next
<1> QED
  BY <1>1, <1>9, <1>10

-----------------------------------------------------------------------------
(* IInv is inductive.                                                      *)
THEOREM ArenaInvariant == Spec => []IInv
<1>1. Init => IInv
  <2> SUFFICES ASSUME Init PROVE IInv
    OBVIOUS
  <2>1. Types
    BY DEF Init, Types
  <2>2. FloorsCovered(0)
    BY SetupParts, <2>1 DEF FloorsCovered
  <2>3. Measured
    BY <2>2 DEF Init, Measured
  <2>4. Budget
    BY DEF Init, Budget
  <2> QED
    BY <2>1, <2>3, <2>4 DEF IInv
<1>2. IInv /\ [Next]_vars => IInv'
  <2> SUFFICES ASSUME IInv, [Next]_vars PROVE IInv'
    OBVIOUS
  <2>1. CASE Next
    BY <2>1, MeasureFloorKeeps, FloorsMeasuredKeeps, MeasureResidueKeeps,
       BlockInitKeeps, StartPacketKeeps, FloorUnusedKeeps, FloorUsedKeeps,
       FloorsDecodedKeeps, CoupleKeeps, CoupledKeeps, Residue01Keeps,
       Residue2Keeps, PacketDoneKeeps, Zenon DEF Next
  <2>2. CASE UNCHANGED vars
    BY <2>2 DEF vars, sizes, IInv, Types, Measured, Budget, FloorsCovered,
                ResiduesCovered, Channels, ArenaSize, Slack, Res2Arrays, FloorBound,
                ResidueBound, BundleBound, Served, Before
  <2> QED
    BY <2>1, <2>2
<1> QED
  BY <1>1, <1>2, PTL DEF Spec

(* Whatever the setup and the packets, no allocation returns NULL.         *)
THEOREM ArenaAlwaysSuffices == Spec => []ArenaSuffices
<1>1. IInv => ArenaSuffices
  BY DEF IInv, Budget, ArenaSuffices
<1> QED
  BY <1>1, ArenaInvariant, PTL

-----------------------------------------------------------------------------
(* Where a residue writes.                                                 *)

LEMMA Half == ASSUME NEW n \in Nat PROVE n \div 2 \in Nat /\ 0 <= n \div 2
OBVIOUS

LEMMA Reach01InPlane ==
  ASSUME NEW r \in ResidueType, NEW cap \in Nat, ~(Lesser(r.end, cap) <= r.begin),
         NEW p \in 0..Partvals(r, cap)
  PROVE  Reach01(r, p) <= cap
<1>1. Lesser(r.end, cap) > r.begin
  BY DEF Lesser, ResidueType
<1>2. r.begin + p * r.grouping <= cap
  BY <1>1, PartitionsFit
<1> QED
  BY <1>2 DEF Reach01

(* begin and grouping divided by the channels of the bundle, the one per   *)
(* residue and the other per partition, end in the plane all the same.     *)
LEMMA Reach2InPlane ==
  ASSUME NEW r \in ResidueType, NEW n \in Nat, NEW ch \in Nat \ {0},
         ~(Lesser(r.end, (n * ch) \div 2) <= r.begin),
         NEW p \in 0..Partvals(r, (n * ch) \div 2)
  PROVE  Reach2(r, ch, p) <= n \div 2
<1> DEFINE cap == (n * ch) \div 2
           b == r.begin \div ch
           g == r.grouping \div ch
           x == b + p * g
           h == n \div 2
<1>1. r.begin \in Nat /\ r.end \in Nat /\ r.grouping \in Nat /\ n * ch \in Nat
  BY TimesNat DEF ResidueType
<1>2. cap \in Nat /\ cap * 2 <= n * ch
  BY <1>1, Quotient
<1>3. Lesser(r.end, cap) > r.begin
  BY <1>1, <1>2 DEF Lesser
<1>4. p \in Nat /\ p * r.grouping \in Nat /\ r.begin + p * r.grouping <= cap
  BY <1>2, <1>3, PartitionsFit
<1>5. /\ b \in Nat /\ b * ch <= r.begin /\ g \in Nat /\ g * ch <= r.grouping
  BY <1>1, Quotient
<1>6. h \in Nat /\ n < h * 2 + 2
  BY Quotient
<1> HIDE DEF cap, b, g, h
<1>7. p * (g * ch) <= p * r.grouping /\ p * (g * ch) \in Nat
  BY <1>1, <1>4, <1>5, TimesNat, TimesMonotone
<1>8. x \in Nat /\ x * ch = b * ch + p * (g * ch)
  <2>1. p * g \in Nat
    BY <1>4, <1>5, TimesNat
  <2>2. x \in Nat
    BY <1>5, <2>1
  <2>3. (p * g) * ch = p * (g * ch)
    BY <1>4, <1>5
  <2>4. x * ch = b * ch + (p * g) * ch
    BY <1>5, <2>1
  <2> QED
    BY <2>2, <2>3, <2>4
<1> HIDE DEF x
<1>9. x * ch <= cap /\ x * ch \in Nat
  <2> DEFINE bc == b * ch
             pg == p * r.grouping
             pgc == p * (g * ch)
             xc == x * ch
  <2>1. bc \in Nat /\ xc \in Nat
    BY <1>5, <1>8, TimesNat
  <2>2. pg \in Nat /\ pgc \in Nat /\ pgc <= pg
    BY <1>4, <1>7
  <2>3. r.begin + pg <= cap /\ bc <= r.begin /\ xc = bc + pgc
    BY <1>4, <1>5, <1>8
  <2> HIDE DEF bc, pg, pgc, xc
  <2>4. xc <= cap
    BY <1>1, <1>2, <2>1, <2>2, <2>3
  <2> QED
    BY <2>1, <2>4 DEF xc
<1>10. (x * 2) * ch <= n * ch
  <2>1. (x * 2) * ch = (x * ch) * 2
    BY <1>8
  <2> QED
    BY <1>1, <1>2, <1>9, <2>1
<1>11. x * 2 <= n
  <2>1. ASSUME n + 1 <= x * 2 PROVE FALSE
    <3>1. (n + 1) * ch <= (x * 2) * ch
      BY <1>8, <2>1, TimesMonotone
    <3>2. (n + 1) * ch = n * ch + ch
      OBVIOUS
    <3>3. (x * 2) * ch \in Nat
      BY <1>8, TimesNat
    <3> QED
      BY <1>1, <1>10, <3>1, <3>2, <3>3
  <2> QED
    BY <1>8, <2>1
<1>12. x <= h
  BY <1>6, <1>8, <1>11
<1> QED
  BY <1>12, <1>6 DEF Reach2, x, b, g, h

(* A residue step ends in the plane.                                       *)
LEMMA ResidueInPlane ==
  ASSUME Types, Measured, ResidueStaysInPlane, Residue01 \/ Residue2
  PROVE  ResidueStaysInPlane'
<1> DEFINE r == ResidueOf(i)
           m == Cardinality(Bundle(mode, i))
<1>1. /\ pc = "decode residues" /\ i < mode.submaps /\ pcmend' = pcmend
  BY DEF Residue01, Residue2, pcmend
<1>2. pcmend \in Nat /\ pcmend \div 2 \in Nat /\ 0 <= pcmend \div 2
  BY SetupParts, Half
<1>3. r \in ResidueType
  BY <1>1, ResidueMeasured
<1>4. IsFiniteSet(Bundle(mode, i)) /\ m \in Nat
  BY <1>1, OneMoreSubmap
<1>5. r.begin \in Nat /\ r.end \in Nat
  BY <1>3 DEF ResidueType
<1> HIDE DEF r, m
<1>6. CASE Residue01
  <2> DEFINE cap == pcmend \div 2
  <2>1. \/ reach' = 0
        \/ /\ ~(Lesser(r.end, cap) <= r.begin)
           /\ \E p \in 0..Partvals(r, cap) : reach' = Reach01(r, p)
    BY <1>6 DEF Residue01, r
  <2>2. reach' <= cap
    BY <1>2, <1>3, <2>1, Reach01InPlane
  <2> QED
    BY <1>1, <2>2 DEF ResidueStaysInPlane
<1>7. CASE Residue2
  <2> DEFINE cap == (pcmend * m) \div 2
  <2>1. \/ reach' = 0
        \/ /\ ~(Lesser(r.end, cap) <= r.begin)
           /\ \E p \in 0..Partvals(r, cap) : reach' = Reach2(r, m, p)
    BY <1>7 DEF Residue2, r, m
  <2>2. CASE reach' = 0
    BY <1>1, <1>2, <2>2 DEF ResidueStaysInPlane
  <2>3. CASE /\ ~(Lesser(r.end, cap) <= r.begin)
             /\ \E p \in 0..Partvals(r, cap) : reach' = Reach2(r, m, p)
    <3>1. m # 0
      <4>1. ASSUME m = 0 PROVE FALSE
        <5>1. pcmend * m = 0
          BY <1>2, <4>1
        <5>2. cap = 0
          BY <5>1
        <5> QED
          BY <1>5, <2>3, <5>2 DEF Lesser
      <4> QED
        BY <4>1
    <3>2. m \in Nat \ {0}
      BY <1>4, <3>1
    <3>3. reach' <= pcmend \div 2
      BY <1>2, <1>3, <2>3, <3>2, Reach2InPlane
    <3> QED
      BY <1>1, <3>3 DEF ResidueStaysInPlane
  <2> QED
    BY <2>1, <2>2, <2>3
<1> QED
  BY <1>6, <1>7

(* Whatever a header says of a residue, it stays in the half block.        *)
THEOREM ResiduesStayInPlane == Spec => []ResidueStaysInPlane
<1>1. Init => ResidueStaysInPlane
  <2> SUFFICES ASSUME Init PROVE ResidueStaysInPlane
    OBVIOUS
  <2>1. Types
    BY DEF Init, Types
  <2>2. pcmend \in Nat
    BY <2>1, SetupParts
  <2>3. 0 <= pcmend \div 2 /\ reach = 0
    BY <2>2, Half DEF Init
  <2> QED
    BY <2>3 DEF ResidueStaysInPlane
<1>2. IInv /\ IInv' /\ ResidueStaysInPlane /\ [Next]_vars => ResidueStaysInPlane'
  <2> SUFFICES ASSUME IInv, IInv', ResidueStaysInPlane, [Next]_vars
               PROVE  ResidueStaysInPlane'
    OBVIOUS
  <2>1. CASE StartPacket
    <3>1. pcmend' \in Nat /\ reach' = 0
      <4>1. SetupOK(setup) /\ mode' \in setup.modes /\ setup' = setup
        BY <2>1, SetupParts DEF StartPacket, IInv
      <4>2. mode'.W \in Flags
        BY <4>1 DEF SetupOK, ModeOK
      <4>3. setup.blocksizes[mode'.W] \in Nat
        BY <4>1, <4>2 DEF SetupOK
      <4> QED
        BY <2>1, <4>1, <4>3 DEF StartPacket, pcmend
    <3>2. 0 <= pcmend' \div 2
      BY <3>1, Half
    <3> QED
      BY <3>1, <3>2 DEF ResidueStaysInPlane
  <2>2. CASE Residue01 \/ Residue2
    BY <2>2, ResidueInPlane DEF IInv
  <2>3. ASSUME UNCHANGED <<setup, mode, reach>> PROVE ResidueStaysInPlane'
    BY <2>3 DEF ResidueStaysInPlane, pcmend
  <2>4. CASE \/ MeasureFloor \/ FloorsMeasured \/ MeasureResidue \/ BlockInit
             \/ FloorUnused \/ FloorUsed \/ FloorsDecoded \/ Couple \/ Coupled
             \/ PacketDone \/ UNCHANGED vars
    BY <2>3, <2>4 DEF MeasureFloor, FloorsMeasured, MeasureResidue, BlockInit,
       FloorUnused, FloorUsed, FloorsDecoded, Couple, Coupled, PacketDone, vars
  <2> QED
    BY <2>1, <2>2, <2>4 DEF Next
<1> QED
  BY <1>1, <1>2, ArenaInvariant, PTL DEF Spec
=============================================================================
